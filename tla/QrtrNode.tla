------------------------------ MODULE QrtrNode -----------------------------
(***************************************************************************)
(* The nodes of tcl-af-qrtr.c: endpoints that come and go, the table from  *)
(* node ids to nodes, and the references that senders and confirmations    *)
(* hold.                                                                   *)
(***************************************************************************)
EXTENDS Naturals, FiniteSets

CONSTANTS
    Nodes,          \* endpoint registrations
    NodeIds,            \* node ids
    Holders,          \* threads that look a node up
    RefMax          \* bound: references of a node when that happens

NoNode == "none"
ASSUME NodeAssumption == NoNode \notin Nodes /\ RefMax \in Nat /\ IsFiniteSet(Holders)

VARIABLES
    noMemory, \* may the allocation of a control packet fail; chosen once
    up,       \* nodes whose endpoint is registered
    refs,     \* node->ref
    freed,    \* nodes that have been freed
    table,    \* qrtr_nodes: node id to node
    held,     \* the node each user holds
    known     \* ids the local controller has heard of and no BYE for since

nodeVars == <<noMemory, up, refs, freed, table, held, known>>

NodeInit ==
    /\ noMemory \in BOOLEAN
    /\ up = {} /\ refs = [n \in Nodes |-> 0] /\ freed = {}
    /\ table = [i \in NodeIds |-> NoNode] /\ held = [u \in Holders |-> NoNode] /\ known = {}

-----------------------------------------------------------------------------
\* qrtr_endpoint_register(), with QRTR_EP_NID_AUTO.
NodeRegister(n) ==
    /\ n \notin up /\ refs[n] = 0 /\ n \notin freed
    /\ up' = up \cup {n} /\ refs' = [refs EXCEPT ![n] = 1]
    /\ UNCHANGED <<noMemory, freed, table, held, known>>

\* qrtr_node_assign(): an id that is taken is left where it is.
Assign(n, ids) ==
    table' = [i \in NodeIds |-> IF i \in ids /\ table[i] = NoNode THEN n ELSE table[i]]

\* qrtr_endpoint_post(): a packet from id i, which may announce a server on a
\* node id behind it.
Post(n, ids) ==
    /\ n \in up
    /\ Assign(n, ids) /\ known' = known \cup ids
    /\ UNCHANGED <<noMemory, up, refs, freed, held>>

\* Mutant: the entries a bridge has for other nodes are left in the table.
ReleaseOneId(n) ==
    LET own == {i \in NodeIds : table[i] = n} IN
      /\ freed' = freed \cup {n}
      /\ table' = IF own = {} THEN table
                  ELSE [table EXCEPT ![CHOOSE i \in own : TRUE] = NoNode]

\* Mutant: the table is left alone.
ReleaseKeepsTable(n) == freed' = freed /\ UNCHANGED table

\* __qrtr_node_release(): every id of the node goes.
ReleaseNode(n) ==
    /\ freed' = freed \cup {n}
    /\ table' = [i \in NodeIds |-> IF table[i] = n THEN NoNode ELSE table[i]]

\* Mutant: two references are dropped.
PutTwice(n) ==
    /\ refs' = [refs EXCEPT ![n] = @ - 2]
    /\ IF refs[n] <= 2 THEN ReleaseNode(n) ELSE UNCHANGED <<freed, table>>

\* qrtr_node_release(), under qrtr_node_lock when it is the last.
Put(n) ==
    /\ refs' = [refs EXCEPT ![n] = @ - 1]
    /\ IF refs[n] = 1 THEN ReleaseNode(n) ELSE UNCHANGED <<freed, table>>

\* Mutant: a BYE for every id in the table, whoever's it is.
ByeAll(n) == {i \in NodeIds : table[i] # NoNode}

\* The walk of qrtr_nodes for the entries of this node.
ByeFor(n) == {i \in NodeIds : table[i] = n}

\* qrtr_endpoint_unregister(): the controller hears a BYE for every id.
NodeUnregister(n) ==
    /\ n \in up
    /\ up' = up \ {n}
    /\ known' = known \ ByeFor(n)
    /\ Put(n)
    /\ UNCHANGED <<noMemory, held>>

\* qrtr_node_lookup(), by a sender or by qrtr_send_resume_tx().
LookupNode(u, i) ==
    /\ held[u] = NoNode /\ table[i] # NoNode
    /\ held' = [held EXCEPT ![u] = table[i]]
    /\ refs' = [refs EXCEPT ![table[i]] = @ + 1]
    /\ UNCHANGED <<noMemory, up, freed, table, known>>

\* Mutant: an error path returns without releasing the node.
SendDoneKeeps(u) ==
    /\ held[u] # NoNode /\ refs[held[u]] < RefMax
    /\ held' = [held EXCEPT ![u] = NoNode]
    /\ UNCHANGED <<noMemory, up, refs, freed, table, known>>

\* The packet has been handed over, or refused, and the node is released.
SendDone(u) ==
    /\ held[u] # NoNode
    /\ held' = [held EXCEPT ![u] = NoNode]
    /\ Put(held[u])
    /\ UNCHANGED <<noMemory, up, known>>

\* qrtr_send_resume_tx() without memory for its packet.
ResumeNoMemory(u) ==
    /\ noMemory /\ held[u] # NoNode /\ refs[held[u]] < RefMax
    /\ held' = [held EXCEPT ![u] = NoNode]
    /\ UNCHANGED <<noMemory, up, refs, freed, table, known>>

NodeNext ==
    \/ \E n \in Nodes : NodeRegister(n) \/ NodeUnregister(n)
    \/ \E n \in Nodes, ids \in {d \in SUBSET NodeIds : d # {}} : Post(n, ids)
    \/ \E u \in Holders, i \in NodeIds : LookupNode(u, i)
    \/ \E u \in Holders : SendDone(u) \/ ResumeNoMemory(u)

NodeSpec == NodeInit /\ [][NodeNext]_nodeVars

-----------------------------------------------------------------------------
NodeTypeOK ==
    /\ up \subseteq Nodes /\ freed \subseteq Nodes /\ known \subseteq NodeIds
    /\ refs \in [Nodes -> Nat]
    /\ table \in [NodeIds -> Nodes \cup {NoNode}] /\ held \in [Holders -> Nodes \cup {NoNode}]

\* What the table or a user refers to has not been freed, for every order of
\* unregistrations, releases and packets that re-announce an id.
NoFreedNode ==
    /\ \A i \in NodeIds : table[i] \notin freed
    /\ \A u \in Holders : held[u] \notin freed

\* The references the endpoint of a node and the users that hold it account for.
HeldBy(n) == {u \in Holders : held[u] = n}
Owed(n) == Cardinality(HeldBy(n)) + (IF n \in up THEN 1 ELSE 0)

\* "callers must release with qrtr_node_release()": while there is memory for its
\* packet, qrtr_send_resume_tx() and all others do, and the references of a node are
\* those of its endpoint and of the users that hold it. Without memory it does not.
RefsAccounted ==
    noMemory \/ \A n \in Nodes : n \in freed \/
        refs[n] = Owed(n)

\* While no reference is lost that way, an id leads to a node without an endpoint
\* only while a user still holds that node: an id that is taken is not assigned anew,
\* so a route that stayed would cut the remote off for good.
StaleRouteOnlyWhileHeld ==
    noMemory \/ \A i \in NodeIds : table[i] \in up \cup {NoNode} \/ \E u \in Holders : held[u] = table[i]

\* "Notify the local controller about the event": whoever leaves, an id that leads to
\* a registered endpoint is one the controller believes to be there.
LiveRouteKnown == \A i \in NodeIds : table[i] \in up => i \in known

\* The inductive invariant of the table: a freed node is out of reach, any other has
\* at least the references it owes, and one without a reference was never used.
NodeInv ==
    /\ NodeTypeOK /\ NoFreedNode /\ RefsAccounted /\ LiveRouteKnown
    /\ up \cap freed = {}
    /\ \A n \in Nodes : n \in freed \/ refs[n] >= Owed(n)
    /\ \A i \in NodeIds : table[i] # NoNode => refs[table[i]] > 0

\* The table of nodes as a whole: no freed node is reachable, references add up, and
\* routes lead to endpoints the controller knows of.
NodeSafe ==
    /\ NodeInv /\ StaleRouteOnlyWhileHeld
=============================================================================
