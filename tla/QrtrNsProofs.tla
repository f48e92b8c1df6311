---------------------------- MODULE QrtrNsProofs ----------------------------
(***************************************************************************)
(* Proofs about the name service, for any sockets, services, lookups and   *)
(* any length of its queue.  The invariant ties every table to the packets *)
(* that are still queued; the first lemmas are about queues and hold for   *)
(* any, the next ones say what a send and a receive do to the invariant,   *)
(* and then there is one lemma per action.                                 *)
(***************************************************************************)
EXTENDS QrtrNs, FiniteSetTheorems, TLAPS

(* Taking the first packet shifts the others down by one. *)
LEMMA TailFacts ==
    ASSUME NEW S, NEW q \in Seq(S), q # <<>>
    PROVE  /\ Tail(q) \in Seq(S) /\ Head(q) = q[1] /\ 1 \in DOMAIN q
           /\ DOMAIN q \subseteq Nat /\ DOMAIN Tail(q) \subseteq Nat \ {0}
           /\ \A i \in DOMAIN Tail(q) : i + 1 \in DOMAIN q /\ Tail(q)[i] = q[i + 1]
           /\ \A i \in DOMAIN q : i = 1 \/ (i > 1 /\ i - 1 \in DOMAIN Tail(q) /\ Tail(q)[i - 1] = q[i])
  OBVIOUS

(* Sending a packet leaves the others where they are and puts it behind them. *)
LEMMA AppendFacts ==
    ASSUME NEW S, NEW q \in Seq(S), NEW m \in S
    PROVE  /\ Append(q, m) \in Seq(S)
           /\ DOMAIN q \subseteq Nat /\ Len(q) \in Nat /\ \A i \in DOMAIN q : 0 < i /\ i < Len(q) + 1
           /\ DOMAIN Append(q, m) = DOMAIN q \cup {Len(q) + 1}
           /\ \A i \in DOMAIN q : Append(q, m)[i] = q[i]
           /\ Append(q, m)[Len(q) + 1] = m
  OBVIOUS

(* An entry is its node, port and id; no id is NoId. *)
LEMMA EntryFacts ==
    /\ \A s \in Entries : s = Srv(s.node, s.port, s.id) /\ s.id \in Ids /\ s.id # NoId
    /\ \A i \in Ids : i # NoId
    /\ \A n, p, i : Srv(n, p, i).node = n /\ Srv(n, p, i).port = p /\ Srv(n, p, i).id = i
<1>1. \A i \in Ids : i # NoId
  BY QrtrNsAssumption DEF Ids, NoId
<1>2. ASSUME NEW s \in Entries PROVE s = Srv(s.node, s.port, s.id) /\ s.id \in Ids
  BY DEF Entries, Srv
<1> QED BY <1>1, <1>2 DEF Srv

(* The registry follows the queue when a packet is sent ... *)
LEMMA FollowsAppend ==
    ASSUME NEW P, NEW q \in Seq(P), NEW m \in P, NEW S, NEW n, NEW p, NEW x, NEW y,
           EntryFollows(q, S, n, p, x),
           Concerns(m, n, p) => y = Outcome(m), ~Concerns(m, n, p) => y = x
    PROVE  EntryFollows(Append(q, m), S, n, p, y)
<1> DEFINE r == Append(q, m)
<1>1. /\ DOMAIN q \subseteq Nat /\ Len(q) \in Nat /\ \A i \in DOMAIN q : i < Len(q) + 1
      /\ DOMAIN r = DOMAIN q \cup {Len(q) + 1}
      /\ \A i \in DOMAIN q : r[i] = q[i]
      /\ r[Len(q) + 1] = m
  BY AppendFacts
<1> HIDE DEF r
<1>2. CASE Concerns(m, n, p)
  <2>1. ASSUME NEW i \in DOMAIN r, LastToConcern(r, i, n, p) PROVE i = Len(q) + 1
    BY <1>1, <1>2, <2>1 DEF LastToConcern
  <2>2. ~(\A i \in DOMAIN r : ~Concerns(r[i], n, p))
    BY <1>1, <1>2
  <2>3. \A i \in DOMAIN r : LastToConcern(r, i, n, p) => Outcome(r[i]) = y
    BY <1>1, <1>2, <2>1
  <2> QED BY <2>2, <2>3 DEF EntryFollows, r
<1>3. CASE ~Concerns(m, n, p)
  <2>1. ASSUME NEW i \in DOMAIN r, LastToConcern(r, i, n, p) PROVE i \in DOMAIN q /\ LastToConcern(q, i, n, p)
    BY <1>1, <1>3, <2>1 DEF LastToConcern
  <2>2. (\A i \in DOMAIN r : ~Concerns(r[i], n, p)) => \A i \in DOMAIN q : ~Concerns(q[i], n, p)
    BY <1>1
  <2> QED BY <1>1, <1>3, <2>1, <2>2 DEF EntryFollows, r
<1> QED BY <1>2, <1>3

(* ... and when the worker takes one and does to the table what it asks for. *)
LEMMA FollowsTail ==
    ASSUME NEW P, NEW q \in Seq(P), q # <<>>, NEW S, NEW T, NEW n, NEW p, NEW x,
           EntryFollows(q, S, n, p, x),
           Concerns(Head(q), n, p) => EntryIs(T, n, p, Outcome(Head(q))),
           ~Concerns(Head(q), n, p) => SrvAt(T, n, p) = SrvAt(S, n, p)
    PROVE  EntryFollows(Tail(q), T, n, p, x)
<1> DEFINE r == Tail(q)
<1>1. /\ Head(q) = q[1] /\ 1 \in DOMAIN q
      /\ DOMAIN q \subseteq Nat /\ DOMAIN r \subseteq Nat \ {0}
      /\ \A i \in DOMAIN r : i + 1 \in DOMAIN q /\ r[i] = q[i + 1]
      /\ \A i \in DOMAIN q : i = 1 \/ (i > 1 /\ i - 1 \in DOMAIN r /\ r[i - 1] = q[i])
  BY TailFacts
<1> HIDE DEF r
<1>2. ASSUME NEW i \in DOMAIN r, LastToConcern(r, i, n, p) PROVE Outcome(r[i]) = x
  <2>1. i + 1 \in DOMAIN q /\ r[i] = q[i + 1] /\ Concerns(q[i + 1], n, p)
    BY <1>1, <1>2 DEF LastToConcern
  <2>2. ASSUME NEW j \in DOMAIN q, i + 1 < j PROVE ~Concerns(q[j], n, p)
    <3>1. j > 1 /\ j - 1 \in DOMAIN r /\ r[j - 1] = q[j] /\ i < j - 1
      BY <1>1, <2>2
    <3> QED BY <3>1, <1>2 DEF LastToConcern
  <2> QED BY <2>1, <2>2 DEF LastToConcern, EntryFollows
<1>3. ASSUME \A i \in DOMAIN r : ~Concerns(r[i], n, p) PROVE EntryIs(T, n, p, x)
  <2>1. \A j \in DOMAIN q : j # 1 => ~Concerns(q[j], n, p)
    BY <1>1, <1>3
  <2>2. CASE Concerns(Head(q), n, p)
    <3>1. LastToConcern(q, 1, n, p)
      BY <1>1, <2>1, <2>2 DEF LastToConcern
    <3> QED BY <3>1, <1>1, <2>2 DEF EntryFollows
  <2>3. CASE ~Concerns(Head(q), n, p)
    BY <1>1, <2>1, <2>3 DEF EntryFollows, EntryIs
  <2> QED BY <2>2, <2>3
<1> QED BY <1>2, <1>3 DEF EntryFollows, r

(* A packet is sent: the queue stays well formed. *)
LEMMA SendTypes ==
    ASSUME NsTypes, NEW m, PacketOK(m), Send(m)
    PROVE  /\ inbox' \in Seq(Packets) /\ left' \in Nat
           /\ \A i \in DOMAIN inbox' : PacketOK(inbox'[i])
<1>1. m \in Packets /\ inbox \in Seq(Packets) /\ inbox' = Append(inbox, m)
  BY DEF PacketOK, NsTypes, Send
<1>2. left' \in Nat
  BY DEF NsTypes, Send
<1> QED BY <1>1, <1>2, AppendFacts DEF NsTypes

(* A packet is taken: it is well formed, and so is the rest of the queue. *)
LEMMA TakeTypes ==
    ASSUME NsTypes, NEW c, Take(c)
    PROVE  /\ inbox' \in Seq(Packets) /\ PacketOK(Head1) /\ inbox # <<>>
           /\ \A i \in DOMAIN inbox' : PacketOK(inbox'[i])
<1>1. inbox \in Seq(Packets) /\ inbox # <<>> /\ inbox' = Tail(inbox)
  BY DEF NsTypes, Take
<1> QED BY <1>1, TailFacts DEF NsTypes, Head1

(* Sending leaves every lookup of a closed port followed by its closing. *)
LEMMA LookupsSend ==
    ASSUME NsTypes, LookupsFollow, NEW m, PacketOK(m), Send(m), lookups' = lookups,
           open' \subseteq open, quit \subseteq quit',
           \A p \in open \ open' : Closes(m, p),
           \A p \in open' : ~Closes(m, p),
           m.cmd = "newlookup" => m.from \in open' \ quit,
           m.cmd = "dellookup" => m.from \in quit'
    PROVE  LookupsFollow'
<1> DEFINE r == inbox'
<1>1. /\ DOMAIN inbox \subseteq Nat /\ Len(inbox) \in Nat /\ \A i \in DOMAIN inbox : 0 < i /\ i < Len(inbox) + 1
      /\ DOMAIN r = DOMAIN inbox \cup {Len(inbox) + 1}
      /\ \A i \in DOMAIN inbox : r[i] = inbox[i]
      /\ r[Len(inbox) + 1] = m
  BY AppendFacts DEF PacketOK, NsTypes, Send
<1>2. \A i \in DOMAIN r : i \in DOMAIN inbox \/ (i = Len(inbox) + 1 /\ r[i] = m)
  BY <1>1
<1>3. \A i, p : (i = 0 \/ i \in DOMAIN inbox) /\ (WillClose(inbox, i, p) \/ Closes(m, p)) => WillClose(r, i, p)
  BY <1>1 DEF WillClose
<1> HIDE DEF r
<1>4. \A i \in DOMAIN r : \A p \in open' : ~Closes(r[i], p)
  BY <1>1, <1>2 DEF LookupsFollow
<1>5. \A l \in lookups' : l.port \in open' \/ WillClose(r, 0, l.port)
  BY <1>3 DEF LookupsFollow
<1>6. \A i \in DOMAIN r : r[i].cmd = "newlookup" => r[i].from \in open' \/ WillClose(r, i, r[i].from)
  BY <1>1, <1>2, <1>3 DEF LookupsFollow
<1>7. \A i \in DOMAIN r : r[i].cmd = "dellookup" => r[i].from \in quit'
  BY <1>1, <1>2 DEF LookupsFollow
<1>8. ASSUME NEW i \in DOMAIN r, NEW j \in DOMAIN r, r[i].cmd = "dellookup", i < j, r[j].cmd = "newlookup"
      PROVE  r[j].from # r[i].from
  <2>1. i \in DOMAIN inbox /\ r[i] = inbox[i]
    BY <1>1, <1>2, <1>8
  <2> QED BY <1>1, <1>2, <1>8, <2>1 DEF LookupsFollow
<1> QED BY <1>4, <1>5, <1>6, <1>7, <1>8 DEF LookupsFollow, r

(* Taking a packet keeps that too, when a closed port's lookups go with it. *)
LEMMA LookupsTake ==
    ASSUME NsTypes, LookupsFollow, NEW c, Take(c), open' = open, quit' = quit,
           \A l \in lookups' : l \in lookups \/ (Head1.cmd = "newlookup" /\ l.port = Head1.from),
           \A l \in lookups' : ~Closes(Head1, l.port)
    PROVE  LookupsFollow'
<1> DEFINE r == inbox'
<1>1. /\ Head1 = inbox[1] /\ 1 \in DOMAIN inbox
      /\ DOMAIN inbox \subseteq Nat /\ DOMAIN r \subseteq Nat \ {0}
      /\ \A i \in DOMAIN r : i + 1 \in DOMAIN inbox /\ r[i] = inbox[i + 1]
      /\ \A i \in DOMAIN inbox : i = 1 \/ (i > 1 /\ i - 1 \in DOMAIN r /\ r[i - 1] = inbox[i])
  BY TailFacts DEF NsTypes, Take, Head1
<1> HIDE DEF r
<1>2. \A p : \A i \in DOMAIN r : WillClose(inbox, i + 1, p) => WillClose(r, i, p)
  <2> SUFFICES ASSUME NEW i \in DOMAIN r, NEW p, WillClose(inbox, i + 1, p) PROVE WillClose(r, i, p)
    OBVIOUS
  <2>1. PICK j \in DOMAIN inbox : i + 1 < j /\ Closes(inbox[j], p)
    BY DEF WillClose
  <2>2. j - 1 \in DOMAIN r /\ r[j - 1] = inbox[j] /\ i < j - 1
    BY <1>1, <2>1
  <2> QED BY <2>1, <2>2 DEF WillClose
<1>3. \A p : (WillClose(inbox, 0, p) /\ ~Closes(Head1, p)) \/ WillClose(inbox, 1, p) => WillClose(r, 0, p)
  <2> SUFFICES ASSUME NEW p, (WillClose(inbox, 0, p) /\ ~Closes(Head1, p)) \/ WillClose(inbox, 1, p)
               PROVE  WillClose(r, 0, p)
    OBVIOUS
  <2>1. PICK j \in DOMAIN inbox : j # 1 /\ Closes(inbox[j], p)
    BY <1>1 DEF WillClose
  <2>2. j - 1 \in DOMAIN r /\ r[j - 1] = inbox[j] /\ 0 < j - 1
    BY <1>1, <2>1
  <2> QED BY <2>1, <2>2 DEF WillClose
<1>4. \A i \in DOMAIN r : \A p \in open' : ~Closes(r[i], p)
  BY <1>1 DEF LookupsFollow
<1>5. \A l \in lookups' : l.port \in open' \/ WillClose(r, 0, l.port)
  BY <1>1, <1>3 DEF LookupsFollow
<1>6. \A i \in DOMAIN r : r[i].cmd = "newlookup" => r[i].from \in open' \/ WillClose(r, i, r[i].from)
  BY <1>1, <1>2 DEF LookupsFollow
<1>7. \A i \in DOMAIN r : r[i].cmd = "dellookup" => r[i].from \in quit'
  BY <1>1 DEF LookupsFollow
<1>8. ASSUME NEW i \in DOMAIN r, NEW j \in DOMAIN r, r[i].cmd = "dellookup", i < j, r[j].cmd = "newlookup"
      PROVE  r[j].from # r[i].from
  <2>1. i + 1 \in DOMAIN inbox /\ j + 1 \in DOMAIN inbox /\ i + 1 < j + 1 /\ r[i] = inbox[i + 1] /\ r[j] = inbox[j + 1]
    BY <1>1, <1>8
  <2> QED BY <1>8, <2>1 DEF LookupsFollow
<1> QED BY <1>4, <1>5, <1>6, <1>7, <1>8 DEF LookupsFollow, r

(* What is asked for after a packet is taken was asked for before it, and a *)
(* hello that is left was there before.                                     *)
LEMMA TakeQueue ==
    ASSUME NsTypes, NEW c, Take(c)
    PROVE  /\ \A p : Asks(inbox', p) => Asks(inbox, p)
           /\ Head1 = inbox[1] /\ 1 \in DOMAIN inbox
           /\ Head1.cmd # "hello" /\ (\A i \in DOMAIN inbox' : inbox'[i].cmd # "hello")
                => \A i \in DOMAIN inbox : inbox[i].cmd # "hello"
<1> DEFINE r == inbox'
<1>1. /\ Head1 = inbox[1] /\ 1 \in DOMAIN inbox
      /\ \A i \in DOMAIN r : i + 1 \in DOMAIN inbox /\ r[i] = inbox[i + 1]
      /\ \A i \in DOMAIN inbox : i = 1 \/ (i > 1 /\ i - 1 \in DOMAIN r /\ r[i - 1] = inbox[i])
  BY TailFacts DEF NsTypes, Take, Head1
<1> HIDE DEF r
<1>2. \A p : Asks(r, p) => Asks(inbox, p)
  BY <1>1 DEF Asks
<1>3. ASSUME Head1.cmd # "hello", \A i \in DOMAIN r : r[i].cmd # "hello", NEW i \in DOMAIN inbox
      PROVE  inbox[i].cmd # "hello"
  BY <1>1, <1>3
<1> QED BY <1>1, <1>2, <1>3 DEF r

(* A send that changes its owner's wishes as the packet says keeps all but  *)
(* what the neighbour knows.                                                *)
LEMMA SendInv ==
    ASSUME NsInv, NEW m, PacketOK(m), Send(m), UNCHANGED <<servers, lookups, replaced, told>>,
           pend' \in [NsPorts -> 0 .. RcvBuf], nview' \in [NsPorts -> Ids \cup {NoId}],
           mine' \in [NsPorts -> Ids \cup {NoId}], rmine' \in [RPorts -> Ids \cup {NoId}],
           link' \in BOOLEAN, open' \subseteq open, quit \subseteq quit', quit' \subseteq NsPorts,
           lost' \subseteq NsPorts \cup {Nb}, \A p \in NsPorts : p \in lost => p \in lost',
           \A p \in NsPorts \ open' : mine'[p] = NoId,
           \A p \in NsPorts : /\ Concerns(m, "local", p) => mine'[p] = Outcome(m)
                              /\ ~Concerns(m, "local", p) => mine'[p] = mine[p],
           \A p \in RPorts : /\ Concerns(m, "remote", p) => rmine'[p] = Outcome(m)
                             /\ ~Concerns(m, "remote", p) => rmine'[p] = rmine[p],
           \A p \in open \ open' : Closes(m, p), \A p \in open' : ~Closes(m, p),
           m.cmd = "newlookup" => m.from \in open' \ quit,
           m.cmd = "dellookup" => m.from \in quit'
    PROVE  NsTypes' /\ RegistryFollows' /\ LookupsFollow' /\ ObserversFollow'
<1>1. NsTypes'
  BY SendTypes DEF NsInv, NsTypes, NsTypeOK
<1>2. inbox \in Seq(Packets) /\ m \in Packets /\ inbox' = Append(inbox, m)
  BY DEF NsInv, NsTypes, PacketOK, Send
<1>3. \A p \in NsPorts : EntryFollows(inbox', servers', "local", p, mine'[p])
  BY <1>2, FollowsAppend DEF NsInv, RegistryFollows
<1>4. \A p \in RPorts : EntryFollows(inbox', servers', "remote", p, rmine'[p])
  BY <1>2, FollowsAppend DEF NsInv, RegistryFollows
<1>5. LookupsFollow'
  BY LookupsSend DEF NsInv
<1>6. ASSUME NEW p \in open' PROVE p \notin quit' \/ Asks(inbox', p) => p \notin quit \/ Asks(inbox, p)
  BY <1>2, AppendFacts DEF Asks
<1>7. ASSUME NEW p \in open' \ lost'
      PROVE  /\ \A s \in servers' : Selected(lookups', p, s) => s \in told'[p]
             /\ \A s \in told'[p] : Selected(lookups', p, s) => s \in servers' \cup replaced'
             /\ p \notin quit' \/ Asks(inbox', p) => \A s \in told'[p] : Selected(lookups', p, s)
  <2>1. p \in open \ lost
    BY DEF NsInv, NsTypes, NsTypeOK
  <2>2. servers' = servers /\ lookups' = lookups /\ replaced' = replaced /\ told' = told
    OBVIOUS
  <2> QED BY <1>6, <2>1, <2>2 DEF NsInv, ObserversFollow
<1> QED BY <1>1, <1>3, <1>4, <1>5, <1>7 DEF RegistryFollows, ObserversFollow

(* What the neighbour knows stays true when only requests are sent. *)
LEMMA NeighbourSend ==
    ASSUME NsInv, NEW m, PacketOK(m), Send(m),
           UNCHANGED <<servers, link, lost>>, open' \subseteq open, \A p \in open' : nview'[p] = nview[p],
           ~link => nview' = nview
    PROVE  NeighbourFollows'
<1>1. inbox \in Seq(Packets) /\ m \in Packets /\ inbox' = Append(inbox, m)
  BY DEF NsInv, NsTypes, PacketOK, Send
<1>2. (\A i \in DOMAIN inbox' : inbox'[i].cmd # "hello") => \A i \in DOMAIN inbox : inbox[i].cmd # "hello"
  BY <1>1, AppendFacts
<1> QED BY <1>2 DEF NsInv, NeighbourFollows

(* A socket registers or withdraws its server. *)
LEMMA NsPublishInv ==
    ASSUME NsInv, NEW p \in NsPorts, NEW id \in Ids, Publish(p, id) \/ Withdraw(p)
    PROVE  NsInv'
<1>1. PICK m : /\ Send(m) /\ m \in {Pkt("newserver", "local", p, p, id), Pkt("delserver", "local", p, p, mine[p])}
               /\ mine' = [mine EXCEPT ![p] = Outcome(m)]
  BY DEF Publish, Withdraw, Pkt, Outcome
<1>2. /\ UNCHANGED <<servers, lookups, replaced, told, lost, pend, nview, link, open, rmine, quit>>
      /\ p \in open
  BY DEF Publish, Withdraw, calm, tables
<1>3. mine \in [NsPorts -> Ids \cup {NoId}] /\ p \in Nat
  BY QrtrNsAssumption DEF NsInv, NsTypes
<1>4. PacketOK(m) /\ m.node = "local" /\ m.cmd \in {"newserver", "delserver"} /\ m.port = p
  BY <1>1, <1>3 DEF PacketOK, Packets, Pkt
<1>5. Outcome(m) \in Ids \cup {NoId}
  BY <1>4 DEF PacketOK, Outcome
<1>6. \A q \in NsPorts : /\ Concerns(m, "local", q) => mine'[q] = Outcome(m)
                         /\ ~Concerns(m, "local", q) => mine'[q] = mine[q]
  BY <1>1, <1>3, <1>4 DEF Concerns
<1>7. \A q \in RPorts : ~Concerns(m, "remote", q)
  BY <1>4 DEF Concerns
<1>8. NsTypes' /\ RegistryFollows' /\ LookupsFollow' /\ ObserversFollow'
  <2>1. mine' \in [NsPorts -> Ids \cup {NoId}] /\ \A q \in NsPorts \ open : mine'[q] = NoId
    BY <1>1, <1>2, <1>3, <1>5 DEF NsInv, NsTypes
  <2>2. \A q \in open : ~Closes(m, q)
    BY <1>4 DEF Closes
  <2> QED BY <1>1, <1>2, <1>4, <1>6, <1>7, <2>1, <2>2, SendInv DEF NsInv, NsTypes, NsTypeOK
<1>9. NeighbourFollows'
  BY <1>1, <1>2, <1>4, NeighbourSend
<1> QED BY <1>8, <1>9 DEF NsInv

(* A socket looks up, drops a lookup, or names another's port. *)
LEMMA NsLookupInv ==
    ASSUME NsInv, NEW p \in NsPorts, NEW f, NEW q \in NsPorts,
           (f \in Filters /\ (Lookup(p, f) \/ DropLookup(p, f))) \/ Misname(p, q)
    PROVE  NsInv'
<1>1. PICK m : /\ Send(m) /\ p \in open
               /\ \/ m = Pkt("newlookup", "local", p, p, f) /\ f \in Filters /\ p \notin quit /\ quit' = quit
                  \/ m = Pkt("dellookup", "local", p, p, f) /\ f \in Filters /\ quit' = quit \cup {p}
                  \/ m = Pkt("delclient", "local", p, q, NoId) /\ p # q /\ quit' = quit
  BY DEF Lookup, DropLookup, Misname, people
<1>2. UNCHANGED <<servers, lookups, replaced, told, lost, pend, nview, link, open, mine, rmine>>
  BY DEF Lookup, DropLookup, Misname, calm, tables, people
<1>3. PacketOK(m) /\ m.node = "local"
  BY <1>1, QrtrNsAssumption DEF PacketOK, Packets, Pkt
<1>4. \A n, r : ~Concerns(m, n, r)
  BY <1>1, <1>3 DEF Concerns, Pkt
<1>5. \A r : ~Closes(m, r)
  BY <1>1 DEF Closes, Pkt
<1>6. /\ m.cmd = "newlookup" => m.from \in open \ quit
      /\ m.cmd = "dellookup" => m.from \in quit'
      /\ quit \subseteq quit' /\ quit' \subseteq NsPorts
  BY <1>1 DEF Pkt, NsInv, NsTypes
<1>7. NsTypes' /\ RegistryFollows' /\ LookupsFollow' /\ ObserversFollow'
  BY <1>1, <1>2, <1>3, <1>4, <1>5, <1>6, SendInv DEF NsInv, NsTypes, NsTypeOK
<1>8. NeighbourFollows'
  BY <1>1, <1>2, <1>3, NeighbourSend
<1> QED BY <1>7, <1>8 DEF NsInv

(* A socket closes: the neighbour hears of it at once, the worker later. *)
LEMMA NsCloseInv == ASSUME NsInv, NEW p \in NsPorts, Close(p) PROVE NsInv'
<1> DEFINE m == Pkt("delclient", "local", p, p, NoId)
<1>1. /\ Send(m) /\ p \in open /\ open' = open \ {p} /\ mine' = [mine EXCEPT ![p] = NoId]
      /\ pend' = [pend EXCEPT ![p] = 0] /\ nview' = IF link THEN [nview EXCEPT ![p] = NoId] ELSE nview
      /\ UNCHANGED <<servers, lookups, replaced, told, lost, link, rmine, quit>>
  BY DEF Close, calm, tables
<1>2. PacketOK(m) /\ Outcome(m) = NoId /\ m.cmd = "delclient"
  BY QrtrNsAssumption DEF PacketOK, Packets, Pkt, Outcome
<1>3. /\ \A q : Concerns(m, "local", q) <=> q = p
      /\ \A q : ~Concerns(m, "remote", q)
      /\ \A q : Closes(m, q) <=> q = p
  BY DEF Concerns, Closes, Pkt
<1> HIDE DEF m
<1>4. /\ mine \in [NsPorts -> Ids \cup {NoId}] /\ nview \in [NsPorts -> Ids \cup {NoId}]
      /\ pend \in [NsPorts -> 0 .. RcvBuf] /\ RcvBuf \in Nat /\ \A q \in NsPorts \ open : mine[q] = NoId
  BY QrtrNsAssumption DEF NsInv, NsTypes, NsTypeOK
<1>5. /\ mine' \in [NsPorts -> Ids \cup {NoId}] /\ nview' \in [NsPorts -> Ids \cup {NoId}]
      /\ pend' \in [NsPorts -> 0 .. RcvBuf] /\ \A q \in NsPorts \ open' : mine'[q] = NoId
  BY <1>1, <1>4
<1>6. NsTypes' /\ RegistryFollows' /\ LookupsFollow' /\ ObserversFollow'
  BY <1>1, <1>2, <1>3, <1>4, <1>5, SendInv DEF NsInv, NsTypes, NsTypeOK
<1>7. NeighbourFollows'
  BY <1>1, <1>2, <1>4, NeighbourSend DEF NsInv, NsTypes, NsTypeOK
<1> QED BY <1>6, <1>7 DEF NsInv

(* A socket's owner reads; nothing the invariant speaks of changes but the buffer. *)
LEMMA NsReadInv == ASSUME NsInv, NEW p \in NsPorts, Read(p) PROVE NsInv'
<1>1. /\ pend' = [pend EXCEPT ![p] = @ - 1] /\ pend[p] > 0
      /\ UNCHANGED <<inbox, servers, lookups, replaced, told, lost, nview, link, open, mine, rmine, quit, left>>
  BY DEF Read, calm, tables, people
<1>2. pend' \in [NsPorts -> 0 .. RcvBuf]
  BY <1>1, QrtrNsAssumption DEF NsInv, NsTypes, NsTypeOK
<1>3. NsTypes'
  BY <1>1, <1>2 DEF NsInv, NsTypes, NsTypeOK
<1>4. RegistryFollows' /\ LookupsFollow' /\ ObserversFollow' /\ NeighbourFollows'
  BY <1>1 DEF NsInv, RegistryFollows, LookupsFollow, ObserversFollow, NeighbourFollows
<1> QED BY <1>3, <1>4 DEF NsInv

(* The remote node registers a server, withdraws it, or closes its port. *)
LEMMA NsRemoteInv ==
    ASSUME NsInv, NEW p \in RPorts, NEW id \in Ids, NEW c \in {"delserver", "delclient"},
           RemoteNew(p, id) \/ RemoteDel(p, c)
    PROVE  NsInv'
<1>1. PICK m : /\ Send(m) /\ m \in {Pkt("newserver", "remote", p, p, id), Pkt(c, "remote", p, p, rmine[p])}
               /\ rmine' = [rmine EXCEPT ![p] = Outcome(m)]
  BY DEF RemoteNew, RemoteDel, Pkt, Outcome
<1>2. UNCHANGED <<servers, lookups, replaced, told, lost, pend, nview, link, open, mine, quit>>
  BY DEF RemoteNew, RemoteDel, calm, tables
<1>3. rmine \in [RPorts -> Ids \cup {NoId}] /\ p \in Nat
  BY QrtrNsAssumption DEF NsInv, NsTypes
<1>4. PacketOK(m) /\ m.node = "remote" /\ m.cmd \in {"newserver", "delserver", "delclient"} /\ m.port = p
  BY <1>1, <1>3 DEF PacketOK, Packets, Pkt
<1>5. Outcome(m) \in Ids \cup {NoId}
  BY <1>4 DEF PacketOK, Outcome
<1>6. \A q \in RPorts : /\ Concerns(m, "remote", q) => rmine'[q] = Outcome(m)
                        /\ ~Concerns(m, "remote", q) => rmine'[q] = rmine[q]
  BY <1>1, <1>3, <1>4 DEF Concerns
<1>7. \A q : ~Concerns(m, "local", q) /\ ~Closes(m, q)
  BY <1>4 DEF Concerns, Closes
<1>8. rmine' \in [RPorts -> Ids \cup {NoId}]
  BY <1>1, <1>3, <1>5
<1>9. NsTypes' /\ RegistryFollows' /\ LookupsFollow' /\ ObserversFollow'
  BY <1>1, <1>2, <1>4, <1>6, <1>7, <1>8, SendInv DEF NsInv, NsTypes, NsTypeOK
<1>10. NeighbourFollows'
  BY <1>1, <1>2, <1>4, NeighbourSend
<1> QED BY <1>9, <1>10 DEF NsInv

(* The link comes up with a hello, before which the neighbour knows nothing. *)
LEMMA NsLinkUpInv == ASSUME NsInv, LinkUp PROVE NsInv'
<1> DEFINE m == Pkt("hello", "remote", 0, 0, NoId)
<1>1. /\ ~link /\ Send(m) /\ link' = TRUE
      /\ UNCHANGED <<servers, lookups, replaced, told, lost, pend, nview, open, mine, rmine, quit>>
  BY DEF LinkUp, calm, tables
<1>2. PacketOK(m) /\ m.cmd = "hello" /\ \A n, q : ~Concerns(m, n, q) /\ ~Closes(m, q)
  BY DEF PacketOK, Packets, Pkt, Concerns, Closes
<1> HIDE DEF m
<1>3. NsTypes' /\ RegistryFollows' /\ LookupsFollow' /\ ObserversFollow'
  BY <1>1, <1>2, SendInv DEF NsInv, NsTypes, NsTypeOK
<1>4. ~(\A i \in DOMAIN inbox' : inbox'[i].cmd # "hello")
  BY <1>1, <1>2, AppendFacts DEF NsInv, NsTypes, PacketOK, Send
<1>5. \A p \in open : nview[p] = NoId
  BY <1>1 DEF NsInv, NeighbourFollows, NsTypes, NsTypeOK
<1>6. NeighbourFollows'
  BY <1>1, <1>4, <1>5 DEF NeighbourFollows
<1> QED BY <1>3, <1>6 DEF NsInv

(* The link goes down: the worker has a bye to read, the neighbour forgets. *)
LEMMA NsLinkDownInv == ASSUME NsInv, LinkDown PROVE NsInv'
<1> DEFINE m == Pkt("bye", "remote", 0, 0, NoId)
<1>1. /\ Send(m) /\ link' = FALSE /\ rmine' = [p \in RPorts |-> NoId] /\ nview' = [p \in NsPorts |-> NoId]
      /\ lost' = lost \ {Nb} /\ UNCHANGED <<servers, lookups, replaced, told, pend, open, mine, quit>>
  BY DEF LinkDown, tables
<1>2. /\ PacketOK(m) /\ m.cmd = "bye" /\ Outcome(m) = NoId
      /\ \A q : ~Concerns(m, "local", q) /\ ~Closes(m, q) /\ Concerns(m, "remote", q)
  BY DEF PacketOK, Packets, Pkt, Concerns, Closes, Outcome
<1> HIDE DEF m
<1>3. Nb \notin NsPorts
  BY QrtrNsAssumption DEF Nb
<1>4. NsTypes' /\ RegistryFollows' /\ LookupsFollow' /\ ObserversFollow'
  BY <1>1, <1>2, <1>3, SendInv DEF NsInv, NsTypes, NsTypeOK
<1>5. NeighbourFollows'
  BY <1>1 DEF NeighbourFollows
<1> QED BY <1>4, <1>5 DEF NsInv

(* Sends to sockets keep the buffers within their size. *)
LEMMA QueueTypes ==
    ASSUME NsTypes, NEW S, NEW n \in [NsPorts -> Nat], Queue(S, n)
    PROVE  pend' \in [NsPorts -> 0 .. RcvBuf]
<1>1. RcvBuf \in Nat /\ pend \in [NsPorts -> 0 .. RcvBuf]
  BY QrtrNsAssumption DEF NsTypes, NsTypeOK
<1> QED BY <1>1 DEF Queue, Fits

(* The observers of a server are the sockets whose lookups select it. *)
LEMMA ObserverFacts ==
    /\ \A s : \A p \in NsPorts : p \in Observers(s.id) <=> Selected(lookups, p, s)
    /\ \A n : \A p \in NsPorts : p \in open => (p \in Dropped(NsPorts, n) <=> ~Fits(p, n))
  BY DEF Observers, Selected, LookupMatch, Match, Dropped

(* A hello is answered with every local server, or the answer is lost. *)
LEMMA NsHelloInv == ASSUME NsInv, ctrl_cmd_hello PROVE NsInv'
<1>1. /\ Take("hello") /\ Head1.cmd = "hello"
      /\ UNCHANGED <<servers, lookups, replaced, told, pend, link, open, mine, rmine, quit, left>>
  BY DEF ctrl_cmd_hello, tables, people, Take
<1>2. \/ nview' = announce_servers /\ lost' = lost
      \/ lost' = lost \cup {Nb} /\ nview' = nview
  BY DEF ctrl_cmd_hello
<1>3. \A p \in NsPorts : \A s \in Local : s.port = p => s \in servers /\ s.id \in Ids
                          /\ s = (CHOOSE t \in Local : t.port = p) /\ EntryIs(servers, "local", p, s.id)
  <2> SUFFICES ASSUME NEW p \in NsPorts, NEW s \in Local, s.port = p
               PROVE  s \in servers /\ s.id \in Ids
                      /\ s = (CHOOSE t \in Local : t.port = p) /\ EntryIs(servers, "local", p, s.id)
    OBVIOUS
  <2>1. s \in servers /\ s.node = "local" /\ s \in Entries
    BY DEF Local, NsInv, NsTypes, NsTypeOK
  <2>2. \A t \in servers : t.node = "local" /\ t.port = p => t = s
    BY <2>1 DEF NsInv, NsTypes, NsTypeOK
  <2>3. s = (CHOOSE t \in Local : t.port = p)
    BY <2>2 DEF Local
  <2>4. s = Srv("local", p, s.id) /\ s.id \in Ids /\ s.id # NoId
    BY <2>1, EntryFacts
  <2>5. SrvAt(servers, "local", p) = {s}
    BY <2>1, <2>2 DEF SrvAt
  <2> QED BY <2>1, <2>3, <2>4, <2>5 DEF EntryIs
<1>4. /\ NsTypeOK' /\ \A p \in NsPorts : p \in lost => p \in lost'
  <2>1. nview' \in [NsPorts -> Ids \cup {NoId}]
    <3>1. nview \in [NsPorts -> Ids \cup {NoId}]
      BY DEF NsInv, NsTypes, NsTypeOK
    <3>2. ASSUME NEW p \in NsPorts, \E s \in Local : s.port = p
          PROVE  (CHOOSE s \in Local : s.port = p).id \in Ids
      BY <1>3, <3>2
    <3>3. announce_servers \in [NsPorts -> Ids \cup {NoId}]
      BY <3>1, <3>2 DEF announce_servers
    <3> QED BY <1>2, <3>1, <3>3
  <2> QED BY <1>1, <1>2, <2>1 DEF NsInv, NsTypes, NsTypeOK
<1>5. NsTypes'
  BY <1>1, <1>4, TakeTypes DEF NsInv, NsTypes
<1>6. RegistryFollows'
  <2>1. inbox \in Seq(Packets) /\ inbox # <<>> /\ inbox' = Tail(inbox)
    BY <1>1 DEF Take, NsInv, NsTypes
  <2>2. \A n, p : ~Concerns(Head(inbox), n, p)
    BY <1>1 DEF Concerns, Head1
  <2> QED BY <1>1, <2>1, <2>2, FollowsTail DEF NsInv, RegistryFollows
<1>7. LookupsFollow'
  BY <1>1, LookupsTake DEF NsInv, Closes
<1>8. ObserversFollow'
  <2>1. \A p : Asks(inbox', p) => Asks(inbox, p)
    BY <1>1, TakeQueue DEF NsInv
  <2> QED BY <1>1, <1>4, <2>1 DEF NsInv, ObserversFollow, NsTypes, NsTypeOK
<1>9. NeighbourFollows'
  <2>1. ASSUME ~link, NEW p \in NsPorts PROVE nview'[p] = NoId
    BY <1>2, <2>1 DEF announce_servers, NsInv, NeighbourFollows
  <2>2. ASSUME link, Nb \notin lost', NEW p \in open PROVE EntryIs(servers, "local", p, nview'[p])
    <3>1. nview' = announce_servers /\ lost' = lost /\ p \in NsPorts
      BY <1>2, <2>2 DEF NsInv, NsTypes, NsTypeOK
    <3>2. CASE \E s \in Local : s.port = p
      BY <1>3, <2>2, <3>1, <3>2 DEF announce_servers
    <3>3. CASE ~\E s \in Local : s.port = p
      <4>1. SrvAt(servers, "local", p) = {}
        BY <3>3 DEF Local, SrvAt
      <4>2. nview'[p] = nview[p]
        BY <3>1, <3>3 DEF announce_servers
      <4>3. nview[p] = NoId
        BY <2>2, <3>1, <4>1 DEF NsInv, NeighbourFollows, EntryIs
      <4> QED BY <4>1, <4>2, <4>3 DEF EntryIs
    <3> QED BY <3>2, <3>3
  <2> QED BY <1>1, <2>1, <2>2 DEF NeighbourFollows
<1> QED BY <1>5, <1>6, <1>7, <1>8, <1>9 DEF NsInv

(* The registry follows the queue over every packet the worker takes. *)
LEMMA RegistryTake ==
    ASSUME NsInv, NEW c, Take(c), UNCHANGED <<mine, rmine>>,
           \A n \in {"local", "remote"}, p \in Nat :
              /\ Concerns(Head1, n, p) => EntryIs(servers', n, p, Outcome(Head1))
              /\ ~Concerns(Head1, n, p) => SrvAt(servers', n, p) = SrvAt(servers, n, p)
    PROVE  RegistryFollows'
<1>1. inbox \in Seq(Packets) /\ inbox # <<>> /\ inbox' = Tail(inbox)
  BY DEF Take, NsInv, NsTypes
<1>2. NsPorts \subseteq Nat /\ RPorts \subseteq Nat
  BY QrtrNsAssumption
<1> QED BY <1>1, <1>2, FollowsTail DEF NsInv, RegistryFollows, Head1

(* A node has left: its servers go, and nothing else does. *)
LEMMA NsByeInv == ASSUME NsInv, ctrl_cmd_bye PROVE NsInv'
<1>1. /\ Take("bye") /\ Head1.cmd = "bye" /\ servers' = servers \ ByeGone
      /\ UNCHANGED <<lookups, replaced, nview, link, open, mine, rmine, quit, left>>
  BY DEF ctrl_cmd_bye, people, Take
<1>2. PacketOK(Head1) /\ Head1.node = "remote"
  BY <1>1, TakeTypes DEF NsInv, PacketOK, Packets
<1>3. \A s : s \in ByeGone <=> s \in servers /\ s.node = "remote"
  BY <1>2 DEF ByeGone
<1>4. ByeNotes \in [NsPorts -> Nat] /\ WithDeparture(servers \ ByeGone, ByeNotes) \in [NsPorts -> Nat]
  <2>1. ASSUME NEW p \in NsPorts PROVE Cardinality({s \in ByeGone : p \in Observers(s.id)}) \in Nat
    <3>1. {s \in ByeGone : p \in Observers(s.id)} \in SUBSET servers
      BY <1>3
    <3> QED BY <3>1, FS_Subset, FS_CardinalityType DEF NsInv, NsTypes
  <2>2. ByeNotes \in [NsPorts -> Nat]
    BY <2>1 DEF ByeNotes
  <2> QED BY <2>2 DEF WithDeparture
<1>5. NsTypeOK' /\ IsFiniteSet(servers')
  <2>1. pend' \in [NsPorts -> 0 .. RcvBuf]
    BY <1>4, QueueTypes DEF ctrl_cmd_bye, NsInv
  <2>2. told' \in [NsPorts -> SUBSET Entries]
    BY DEF ctrl_cmd_bye, NsInv, NsTypes, NsTypeOK
  <2>3. lost' \subseteq NsPorts \cup {Nb}
    BY DEF ctrl_cmd_bye, NsInv, NsTypes, NsTypeOK, Dropped, Undelivered, Full, Walked
  <2>4. IsFiniteSet(servers')
    BY <1>1, FS_Subset DEF NsInv, NsTypes
  <2> QED BY <1>1, <2>1, <2>2, <2>3, <2>4 DEF NsInv, NsTypes, NsTypeOK
<1>6. NsTypes'
  BY <1>1, <1>5, TakeTypes DEF NsInv, NsTypes
<1>7. RegistryFollows'
  <2>1. \A p \in Nat : /\ ~Concerns(Head1, "local", p) /\ Concerns(Head1, "remote", p)
                       /\ Outcome(Head1) = NoId
    BY <1>1, <1>2 DEF Concerns, Outcome
  <2>2. \A p \in Nat : SrvAt(servers', "remote", p) = {} /\ SrvAt(servers', "local", p) = SrvAt(servers, "local", p)
    BY <1>1, <1>3 DEF SrvAt
  <2> QED BY <1>1, <2>1, <2>2, RegistryTake DEF EntryIs
<1>8. LookupsFollow'
  BY <1>1, LookupsTake DEF NsInv, Closes
<1>9. ObserversFollow'
  <2>1. \A p : Asks(inbox', p) => Asks(inbox, p)
    BY <1>1, TakeQueue DEF NsInv
  <2>2. ASSUME NEW p \in open \ lost'
        PROVE  p \in NsPorts /\ p \notin lost /\ told'[p] = told[p] \ {s \in ByeGone : Selected(lookups, p, s)}
    <3>1. p \in NsPorts /\ p \notin lost /\ Fits(p, ByeNotes)
      BY ObserverFacts DEF ctrl_cmd_bye, NsInv, NsTypes, NsTypeOK
    <3>2. \A s : p \in Observers(s.id) <=> Selected(lookups, p, s)
      BY <3>1, ObserverFacts
    <3> QED BY <3>1, <3>2 DEF ctrl_cmd_bye
  <2> QED BY <1>1, <2>1, <2>2 DEF NsInv, ObserversFollow
<1>10. NeighbourFollows'
  <2>1. (\A i \in DOMAIN inbox' : inbox'[i].cmd # "hello") => \A i \in DOMAIN inbox : inbox[i].cmd # "hello"
    BY <1>1, TakeQueue DEF NsInv
  <2>2. \A p : SrvAt(servers', "local", p) = SrvAt(servers, "local", p)
    BY <1>1, <1>3 DEF SrvAt
  <2>3. Nb \notin lost' => Nb \notin lost
    BY DEF ctrl_cmd_bye
  <2> QED BY <1>1, <2>1, <2>2, <2>3 DEF NsInv, NeighbourFollows, EntryIs
<1> QED BY <1>6, <1>7, <1>8, <1>9, <1>10 DEF NsInv

(* A packet that names another's port changes nothing. *)
LEMMA NsRefusedInv == ASSUME NsInv, ctrl_cmd_del_client, Refused PROVE NsInv'
<1>1. /\ Take("delclient") /\ Head1.cmd = "delclient"
      /\ UNCHANGED <<servers, lookups, replaced, told, pend, lost, nview, link, open, mine, rmine, quit, left>>
  BY DEF ctrl_cmd_del_client, people, tables, Take
<1>2. NsTypes'
  BY <1>1, TakeTypes DEF NsInv, NsTypes, NsTypeOK
<1>3. \A n, p : ~Concerns(Head1, n, p)
  BY <1>1 DEF Concerns, Refused
<1>4. RegistryFollows'
  BY <1>1, <1>3, RegistryTake
<1>5. \A p : ~Closes(Head1, p)
  BY DEF Closes, Refused
<1>6. LookupsFollow'
  BY <1>1, <1>5, LookupsTake DEF NsInv
<1>7. \A p : Asks(inbox', p) => Asks(inbox, p)
  BY <1>1, TakeQueue DEF NsInv
<1>8. ObserversFollow'
  BY <1>1, <1>7 DEF NsInv, ObserversFollow
<1>9. (\A i \in DOMAIN inbox' : inbox'[i].cmd # "hello") => \A i \in DOMAIN inbox : inbox[i].cmd # "hello"
  BY <1>1, TakeQueue DEF NsInv
<1>10. NeighbourFollows'
  BY <1>1, <1>9 DEF NsInv, NeighbourFollows
<1> QED BY <1>2, <1>4, <1>6, <1>8, <1>10 DEF NsInv

(* A port has closed: its server goes and, when it was a local one, so do its lookups. *)
LEMMA NsDelClientInv == ASSUME NsInv, ctrl_cmd_del_client, ~Refused PROVE NsInv'
<1>1. /\ Take("delclient") /\ Head1.cmd = "delclient" /\ del_client
      /\ lookups' = ForgetLookups /\ servers' = servers \ ClientGone
      /\ UNCHANGED <<replaced, nview, link, open, mine, rmine, quit, left>>
  BY DEF ctrl_cmd_del_client, people, Take, del_client
<1>2. PacketOK(Head1) /\ (Head1.node = "local" => Head1.from = Head1.port)
  BY <1>1, TakeTypes DEF NsInv, Refused
<1>3. \A s : s \in ClientGone <=> s \in servers /\ s.node = Head1.node /\ s.port = Head1.port
  BY DEF ClientGone
<1>4. ClientNotes \in [NsPorts -> Nat] /\ WithDeparture(servers \ ClientGone, ClientNotes) \in [NsPorts -> Nat]
  <2>1. ClientNotes \in [NsPorts -> Nat]
    BY DEF ClientNotes
  <2> QED BY <2>1 DEF WithDeparture
<1>5. NsTypeOK' /\ IsFiniteSet(servers')
  <2>1. pend' \in [NsPorts -> 0 .. RcvBuf]
    BY <1>1, <1>4, QueueTypes DEF del_client, NsInv
  <2>2. told' \in [NsPorts -> SUBSET Entries]
    BY <1>1 DEF del_client, NsInv, NsTypes, NsTypeOK
  <2>3. lost' \subseteq NsPorts \cup {Nb}
    BY <1>1 DEF del_client, NsInv, NsTypes, NsTypeOK, Dropped, Undelivered, Full, Walked
  <2>4. IsFiniteSet(servers')
    BY <1>1, FS_Subset DEF NsInv, NsTypes
  <2>5. lookups' \subseteq lookups
    BY <1>1 DEF ForgetLookups
  <2> QED BY <1>1, <2>1, <2>2, <2>3, <2>4, <2>5 DEF NsInv, NsTypes, NsTypeOK
<1>6. NsTypes'
  BY <1>1, <1>5, TakeTypes DEF NsInv, NsTypes
<1>7. RegistryFollows'
  <2>1. \A n, p : Concerns(Head1, n, p) <=> Head1.node = n /\ Head1.port = p
    BY <1>1, <1>2 DEF Concerns
  <2>2. Outcome(Head1) = NoId
    BY <1>1 DEF Outcome
  <2>3. \A n, p : SrvAt(servers', n, p) = IF Head1.node = n /\ Head1.port = p THEN {} ELSE SrvAt(servers, n, p)
    BY <1>1, <1>3 DEF SrvAt
  <2> QED BY <1>1, <2>1, <2>2, <2>3, RegistryTake DEF EntryIs
<1>8. LookupsFollow'
  <2>1. \A l \in lookups' : l \in lookups /\ ~Closes(Head1, l.port)
    BY <1>1 DEF ForgetLookups, Closes
  <2> QED BY <1>1, <2>1, LookupsTake DEF NsInv
<1>81. ~(Head1.node = "local" /\ Head1.port \in open)
  BY <1>1, <1>2, TakeQueue DEF NsInv, LookupsFollow, Closes
<1>9. ObserversFollow'
  <2>1. \A p : Asks(inbox', p) => Asks(inbox, p)
    BY <1>1, TakeQueue DEF NsInv
  <2>2. ASSUME NEW p \in open \ lost'
        PROVE  /\ p \notin lost
               /\ \A s : Selected(lookups', p, s) <=> Selected(lookups, p, s)
               /\ told'[p] = told[p] \ {s \in ClientGone : Selected(lookups, p, s)}
    <3>1. p \in NsPorts /\ p \notin lost /\ Fits(p, ClientNotes)
      BY <1>1, ObserverFacts DEF del_client, NsInv, NsTypes, NsTypeOK
    <3>2. \A s : Selected(lookups', p, s) <=> Selected(lookups, p, s)
      BY <1>1, <1>81 DEF Selected, ForgetLookups
    <3>3. p \in ClientObs <=> \E s \in ClientGone : Selected(lookups', p, s)
      BY <1>1, <3>1 DEF ClientObs, Selected, LookupMatch, Match
    <3>4. \A s, t \in ClientGone : s = t
      BY <1>3 DEF NsInv, NsTypes, NsTypeOK
    <3>5. told'[p] = IF p \in ClientObs THEN told[p] \ ClientGone ELSE told[p]
      BY <1>1, <3>1 DEF del_client
    <3> QED BY <3>1, <3>2, <3>3, <3>4, <3>5
  <2> QED BY <1>1, <2>1, <2>2 DEF NsInv, ObserversFollow
<1>10. NeighbourFollows'
  <2>1. (\A i \in DOMAIN inbox' : inbox'[i].cmd # "hello") => \A i \in DOMAIN inbox : inbox[i].cmd # "hello"
    BY <1>1, TakeQueue DEF NsInv
  <2>2. \A p \in open : SrvAt(servers', "local", p) = SrvAt(servers, "local", p)
    BY <1>1, <1>3, <1>81 DEF SrvAt
  <2>3. Nb \notin lost' => Nb \notin lost
    BY <1>1 DEF del_client
  <2> QED BY <1>1, <2>1, <2>2, <2>3 DEF NsInv, NeighbourFollows, EntryIs
<1> QED BY <1>6, <1>7, <1>8, <1>9, <1>10 DEF NsInv

(* A server is stored in place of the one on its port; observers learn of it. *)
LEMMA NsNewServerInv == ASSUME NsInv, ctrl_cmd_new_server PROVE NsInv'
<1>1. /\ Take("newserver") /\ Head1.cmd = "newserver"
      /\ UNCHANGED <<lookups, link, open, mine, rmine, quit, left>>
  BY DEF ctrl_cmd_new_server, people, Take
<1>2. PacketOK(Head1)
  BY <1>1, TakeTypes DEF NsInv
<1> DEFINE n == Head1.node
           p == Head1.port
           x == Head1.arg
           s == Srv(n, p, x)
<1>3. /\ n \in {"local", "remote"} /\ p \in Nat /\ x \in Ids /\ x # NoId
      /\ n = "local" => p \in NsPorts
      /\ n = "remote" => p \in RPorts
      /\ s.node = n /\ s.port = p /\ s.id = x /\ s \in Entries
  <2>1. /\ n \in {"local", "remote"} /\ p \in Nat /\ x \in Ids
        /\ n = "local" => p \in NsPorts
        /\ n = "remote" => p \in RPorts
    BY <1>1, <1>2 DEF PacketOK, Packets
  <2> QED BY <2>1, EntryFacts DEF Entries, Srv
<1>4. /\ servers' = (servers \ OldServers(n, p, x)) \cup {s}
      /\ replaced' = replaced \cup OldServers(n, p, x)
  BY DEF ctrl_cmd_new_server, server_add
<1>5. \/ /\ nview' = IF n = "local" /\ link THEN [nview EXCEPT ![p] = x] ELSE nview
         /\ Notify(s, TRUE)
      \/ lost' = lost \cup NsPorts \cup {Nb} /\ UNCHANGED <<nview, told, pend>>
  BY DEF ctrl_cmd_new_server
<1> HIDE DEF n, p, x, s
<1>6. \A t : t \in OldServers(n, p, x) <=> t \in servers /\ t.node = n /\ t.port = p /\ t # s
  <2>1. \A t \in servers : t = Srv(t.node, t.port, t.id)
    BY EntryFacts DEF NsInv, NsTypes, NsTypeOK
  <2> QED BY <1>3, <2>1 DEF OldServers, s
<1>7. NsTypeOK' /\ IsFiniteSet(servers') /\ \A q \in NsPorts \cup {Nb} : q \in lost => q \in lost'
  <2>1. pend' \in [NsPorts -> 0 .. RcvBuf]
    <3>1. One \in [NsPorts -> Nat]
      BY DEF One
    <3> QED BY <1>5, <3>1, QueueTypes DEF Notify, NsInv, NsTypes, NsTypeOK
  <2>2. told' \in [NsPorts -> SUBSET Entries]
    <3>1. told \in [NsPorts -> SUBSET Entries]
      BY DEF NsInv, NsTypes, NsTypeOK
    <3>2. ASSUME Notify(s, TRUE) PROVE told' \in [NsPorts -> SUBSET Entries]
      BY <1>3, <3>1, <3>2 DEF Notify
    <3> QED BY <1>5, <3>1, <3>2
  <2>3. lost' \subseteq NsPorts \cup {Nb} /\ lost \subseteq lost'
    BY <1>5 DEF Notify, NsInv, NsTypes, NsTypeOK, Dropped
  <2>4. IsFiniteSet(servers')
    <3>1. IsFiniteSet(servers \ OldServers(n, p, x))
      BY FS_Subset DEF NsInv, NsTypes
    <3> QED BY <1>4, <3>1, FS_AddElement
  <2>5. nview' \in [NsPorts -> Ids \cup {NoId}]
    BY <1>3, <1>5 DEF NsInv, NsTypes, NsTypeOK
  <2>6. servers' \subseteq Entries /\ \A t, u \in servers' : t.node = u.node /\ t.port = u.port => t = u
    BY <1>3, <1>4, <1>6 DEF NsInv, NsTypes, NsTypeOK
  <2> QED BY <1>1, <2>1, <2>2, <2>3, <2>4, <2>5, <2>6 DEF NsInv, NsTypes, NsTypeOK
<1>8. NsTypes'
  BY <1>1, <1>7, TakeTypes DEF NsInv, NsTypes
<1>9. \A m, q : IF m = n /\ q = p THEN SrvAt(servers', m, q) = {s} /\ EntryIs(servers', m, q, x)
                                   ELSE SrvAt(servers', m, q) = SrvAt(servers, m, q)
  <2>1. \A m, q : IF m = n /\ q = p THEN SrvAt(servers', m, q) = {s}
                                    ELSE SrvAt(servers', m, q) = SrvAt(servers, m, q)
    BY <1>3, <1>4, <1>6 DEF SrvAt
  <2> QED BY <1>3, <2>1 DEF EntryIs, s
<1>10. RegistryFollows'
  <2>1. Outcome(Head1) = x /\ \A m, q : Concerns(Head1, m, q) <=> n = m /\ p = q
    BY <1>1 DEF Concerns, Outcome, n, p, x
  <2> QED BY <1>1, <1>9, <2>1, RegistryTake
<1>11. LookupsFollow'
  BY <1>1, LookupsTake DEF NsInv, Closes
<1>12. ObserversFollow'
  <2>1. \A q : Asks(inbox', q) => Asks(inbox, q)
    BY <1>1, TakeQueue DEF NsInv
  <2>2. ASSUME NEW q \in open \ lost'
        PROVE  q \notin lost /\ told'[q] = IF Selected(lookups, q, s) THEN told[q] \cup {s} ELSE told[q]
    <3>1. q \in NsPorts /\ q \notin lost
      BY <1>7 DEF NsInv, NsTypes, NsTypeOK
    <3>2. Notify(s, TRUE)
      BY <1>5, <3>1
    <3>3. q \in Observers(s.id) <=> Selected(lookups, q, s)
      BY <3>1, ObserverFacts
    <3>4. q \in Observers(s.id) => Fits(q, One)
      BY <3>1, <3>2 DEF Notify, Dropped
    <3> QED BY <3>1, <3>2, <3>3, <3>4 DEF Notify
  <2> QED BY <1>1, <1>4, <1>6, <2>1, <2>2 DEF NsInv, ObserversFollow
<1>13. NeighbourFollows'
  <2>1. (\A i \in DOMAIN inbox' : inbox'[i].cmd # "hello") => \A i \in DOMAIN inbox : inbox[i].cmd # "hello"
    BY <1>1, TakeQueue DEF NsInv
  <2>2. ASSUME ~link PROVE \A q \in NsPorts : nview'[q] = NoId
    BY <1>5, <2>2 DEF NsInv, NeighbourFollows
  <2>3. ASSUME link, Nb \notin lost', NEW q \in open
        PROVE  /\ nview'[q] # NoId => EntryIs(servers', "local", q, nview'[q])
               /\ (\A i \in DOMAIN inbox' : inbox'[i].cmd # "hello") => EntryIs(servers', "local", q, nview'[q])
    <3>1. Nb \notin lost /\ nview' = IF n = "local" THEN [nview EXCEPT ![p] = x] ELSE nview
      BY <1>5, <1>7, <2>3
    <3>2. q \in NsPorts /\ nview \in [NsPorts -> Ids \cup {NoId}]
      BY DEF NsInv, NsTypes, NsTypeOK
    <3>3. CASE n = "local" /\ q = p
      BY <1>9, <3>1, <3>2, <3>3
    <3>4. CASE ~(n = "local" /\ q = p)
      <4>1. nview'[q] = nview[q] /\ SrvAt(servers', "local", q) = SrvAt(servers, "local", q)
        BY <1>9, <3>1, <3>2, <3>4
      <4> QED BY <2>1, <2>3, <3>1, <4>1 DEF NsInv, NeighbourFollows, EntryIs
    <3> QED BY <3>3, <3>4
  <2> QED BY <1>1, <2>2, <2>3 DEF NeighbourFollows
<1> QED BY <1>8, <1>10, <1>11, <1>12, <1>13 DEF NsInv

(* A server is withdrawn; observers and the neighbour learn of it. *)
LEMMA NsDelServerInv == ASSUME NsInv, ctrl_cmd_del_server PROVE NsInv'
<1>1. /\ Take("delserver") /\ Head1.cmd = "delserver"
      /\ UNCHANGED <<lookups, replaced, link, open, mine, rmine, quit, left>>
  BY DEF ctrl_cmd_del_server, people, Take
<1>2. PacketOK(Head1)
  BY <1>1, TakeTypes DEF NsInv
<1> DEFINE n == Head1.node
           p == Head1.port
<1>3. n \in {"local", "remote"} /\ p \in Nat /\ (n = "local" => p \in NsPorts)
  BY <1>1, <1>2 DEF PacketOK, Packets
<1>4. CASE /\ \A s \in servers : <<s.node, s.port>> # <<n, p>>
           /\ UNCHANGED <<servers, told, pend, lost, nview>>
  <2> HIDE DEF n, p
  <2>1. NsTypes'
    BY <1>1, <1>4, TakeTypes DEF NsInv, NsTypes, NsTypeOK
  <2>2. RegistryFollows'
    <3>1. Outcome(Head1) = NoId /\ \A m, q : Concerns(Head1, m, q) <=> n = m /\ p = q
      BY <1>1 DEF Concerns, Outcome, n, p
    <3>2. SrvAt(servers, n, p) = {}
      BY <1>4 DEF SrvAt
    <3> QED BY <1>1, <1>4, <3>1, <3>2, RegistryTake DEF EntryIs
  <2>3. LookupsFollow'
    BY <1>1, LookupsTake DEF NsInv, Closes
  <2>4. \A q : Asks(inbox', q) => Asks(inbox, q)
    BY <1>1, TakeQueue DEF NsInv
  <2>5. ObserversFollow'
    BY <1>1, <1>4, <2>4 DEF NsInv, ObserversFollow
  <2>6. (\A i \in DOMAIN inbox' : inbox'[i].cmd # "hello") => \A i \in DOMAIN inbox : inbox[i].cmd # "hello"
    BY <1>1, TakeQueue DEF NsInv
  <2>7. NeighbourFollows'
    BY <1>1, <1>4, <2>6 DEF NsInv, NeighbourFollows
  <2> QED BY <2>1, <2>2, <2>3, <2>5, <2>7 DEF NsInv
<1>5. CASE \E s \in servers :
             /\ s.node = n /\ s.port = p /\ servers' = servers \ {s}
             /\ nview' = IF n = "local" /\ link THEN [nview EXCEPT ![p] = NoId] ELSE nview
             /\ Notify(s, FALSE)
  <2>1. PICK s \in servers :
             /\ s.node = n /\ s.port = p /\ servers' = servers \ {s}
             /\ nview' = IF n = "local" /\ link THEN [nview EXCEPT ![p] = NoId] ELSE nview
             /\ Notify(s, FALSE)
    BY <1>5
  <2> HIDE DEF n, p
  <2>2. \A t \in servers : t.node = n /\ t.port = p => t = s
    BY <2>1 DEF NsInv, NsTypes, NsTypeOK
  <2>3. NsTypeOK' /\ IsFiniteSet(servers') /\ lost \subseteq lost'
    <3>1. pend' \in [NsPorts -> 0 .. RcvBuf]
      <4>1. One \in [NsPorts -> Nat]
        BY DEF One
      <4> QED BY <2>1, <4>1, QueueTypes DEF Notify, NsInv
    <3>2. told' \in [NsPorts -> SUBSET Entries]
      BY <2>1 DEF Notify, NsInv, NsTypes, NsTypeOK
    <3>3. lost' \subseteq NsPorts \cup {Nb} /\ lost \subseteq lost'
      BY <2>1 DEF Notify, NsInv, NsTypes, NsTypeOK, Dropped
    <3>4. IsFiniteSet(servers')
      BY <2>1, FS_Subset DEF NsInv, NsTypes
    <3>5. nview' \in [NsPorts -> Ids \cup {NoId}]
      BY <2>1 DEF NsInv, NsTypes, NsTypeOK
    <3> QED BY <1>1, <2>1, <3>1, <3>2, <3>3, <3>4, <3>5 DEF NsInv, NsTypes, NsTypeOK
  <2>4. NsTypes'
    BY <1>1, <2>3, TakeTypes DEF NsInv, NsTypes
  <2>5. \A m, q : SrvAt(servers', m, q) = IF m = n /\ q = p THEN {} ELSE SrvAt(servers, m, q)
    BY <2>1, <2>2 DEF SrvAt
  <2>6. RegistryFollows'
    <3>1. Outcome(Head1) = NoId /\ \A m, q : Concerns(Head1, m, q) <=> n = m /\ p = q
      BY <1>1 DEF Concerns, Outcome, n, p
    <3> QED BY <1>1, <2>5, <3>1, RegistryTake DEF EntryIs
  <2>7. LookupsFollow'
    BY <1>1, LookupsTake DEF NsInv, Closes
  <2>8. ObserversFollow'
    <3>1. \A q : Asks(inbox', q) => Asks(inbox, q)
      BY <1>1, TakeQueue DEF NsInv
    <3>2. ASSUME NEW q \in open \ lost'
          PROVE  q \notin lost /\ told'[q] = IF Selected(lookups, q, s) THEN told[q] \ {s} ELSE told[q]
      <4>1. q \in NsPorts /\ q \notin lost
        BY <2>3 DEF NsInv, NsTypes, NsTypeOK
      <4>2. q \in Observers(s.id) <=> Selected(lookups, q, s)
        BY <4>1, ObserverFacts
      <4>3. q \in Observers(s.id) => Fits(q, One)
        BY <2>1, <4>1 DEF Notify, Dropped
      <4> QED BY <2>1, <4>1, <4>2, <4>3 DEF Notify
    <3> QED BY <1>1, <2>1, <3>1, <3>2 DEF NsInv, ObserversFollow
  <2>9. NeighbourFollows'
    <3>1. (\A i \in DOMAIN inbox' : inbox'[i].cmd # "hello") => \A i \in DOMAIN inbox : inbox[i].cmd # "hello"
      BY <1>1, TakeQueue DEF NsInv
    <3>2. ASSUME ~link PROVE \A q \in NsPorts : nview'[q] = NoId
      BY <2>1, <3>2 DEF NsInv, NeighbourFollows
    <3>3. ASSUME link, Nb \notin lost', NEW q \in open
          PROVE  /\ nview'[q] # NoId => EntryIs(servers', "local", q, nview'[q])
                 /\ (\A i \in DOMAIN inbox' : inbox'[i].cmd # "hello") => EntryIs(servers', "local", q, nview'[q])
      <4>1. q \in NsPorts /\ nview \in [NsPorts -> Ids \cup {NoId}] /\ Nb \notin lost
        BY <2>3, <3>3 DEF NsInv, NsTypes, NsTypeOK
      <4>2. CASE n = "local" /\ q = p
        <5>1. nview'[q] = NoId /\ SrvAt(servers', "local", q) = {}
          BY <2>1, <2>5, <3>3, <4>1, <4>2
        <5> QED BY <5>1 DEF EntryIs
      <4>3. CASE ~(n = "local" /\ q = p)
        <5>1. nview'[q] = nview[q] /\ SrvAt(servers', "local", q) = SrvAt(servers, "local", q)
          BY <2>1, <2>5, <4>1, <4>3
        <5> QED BY <3>1, <3>3, <4>1, <5>1 DEF NsInv, NeighbourFollows, EntryIs
      <4> QED BY <4>2, <4>3
    <3> QED BY <1>1, <3>2, <3>3 DEF NeighbourFollows
  <2> QED BY <2>4, <2>6, <2>7, <2>8, <2>9 DEF NsInv
<1> QED BY <1>4, <1>5 DEF ctrl_cmd_del_server, server_del

(* A lookup is added and what it selects is listed to its owner. *)
LEMMA NsNewLookupInv == ASSUME NsInv, ctrl_cmd_new_lookup PROVE NsInv'
<1> DEFINE r == Head1.from
           f == Head1.arg
           l == [port |-> r, filter |-> f]
<1>1. /\ Take("newlookup") /\ Head1.cmd = "newlookup"
      /\ UNCHANGED <<servers, replaced, nview, link, open, mine, rmine, quit, left>>
      /\ lookups' = lookups \cup {l}
      /\ told' = IF Fits(r, ListNotes) THEN [told EXCEPT ![r] = @ \cup Listing] ELSE told
      /\ Queue({r}, ListNotes) /\ lost' = lost \cup Dropped({r}, ListNotes)
  BY DEF ctrl_cmd_new_lookup, people, Take
<1>2. PacketOK(Head1) /\ r \in NsPorts /\ f \in Filters
  BY <1>1, TakeTypes DEF NsInv, PacketOK
<1>3. \A s : s \in Listing <=> s \in servers /\ Match(f, s.id)
  BY DEF Listing
<1>4. \A q, s : Selected(lookups', q, s) <=> Selected(lookups, q, s) \/ (q = r /\ Match(f, s.id))
  <2>1. l.port = r /\ l.filter = f /\ lookups' = lookups \cup {l}
    BY <1>1
  <2> HIDE DEF l, f, r
  <2> QED BY <2>1 DEF Selected
<1>5. Asks(inbox, r)
  BY <1>1, TakeQueue DEF NsInv, Asks
<1>6. l.port = r /\ l \in [port : NsPorts, filter : Filters]
  BY <1>2
<1> HIDE DEF r, f, l
<1>7. NsTypeOK'
  <2>1. ListNotes \in [NsPorts -> Nat]
    <3>1. Listing \in SUBSET servers
      BY <1>3
    <3>2. Cardinality(Listing) \in Nat
      BY <3>1, FS_Subset, FS_CardinalityType DEF NsInv, NsTypes
    <3> QED BY <3>2 DEF ListNotes
  <2>2. pend' \in [NsPorts -> 0 .. RcvBuf]
    BY <1>1, <2>1, QueueTypes DEF NsInv
  <2>3. told' \in [NsPorts -> SUBSET Entries]
    <3>1. told \in [NsPorts -> SUBSET Entries] /\ Listing \subseteq Entries
      BY <1>3 DEF NsInv, NsTypes, NsTypeOK
    <3> QED BY <1>1, <1>2, <3>1
  <2>4. lost' \subseteq NsPorts \cup {Nb}
    BY <1>1 DEF NsInv, NsTypes, NsTypeOK, Dropped
  <2>5. lookups' \subseteq [port : NsPorts, filter : Filters]
    BY <1>1, <1>6 DEF NsInv, NsTypes, NsTypeOK
  <2> QED BY <1>1, <2>2, <2>3, <2>4, <2>5 DEF NsInv, NsTypes, NsTypeOK
<1>8. NsTypes'
  BY <1>1, <1>7, TakeTypes DEF NsInv, NsTypes
<1>9. RegistryFollows'
  <2>1. \A m, q : ~Concerns(Head1, m, q)
    BY <1>1 DEF Concerns
  <2> QED BY <1>1, <2>1, RegistryTake
<1>10. LookupsFollow'
  <2>1. \A k \in lookups' : k \in lookups \/ (Head1.cmd = "newlookup" /\ k.port = Head1.from)
    BY <1>1, <1>6 DEF r
  <2>2. \A k \in lookups' : ~Closes(Head1, k.port)
    BY <1>1 DEF Closes
  <2> QED BY <1>1, <2>1, <2>2, LookupsTake DEF NsInv
<1>11. ObserversFollow'
  <2>1. \A q : Asks(inbox', q) => Asks(inbox, q)
    BY <1>1, TakeQueue DEF NsInv
  <2>2. ASSUME NEW q \in open \ lost'
        PROVE  q \in open \ lost /\ told'[q] = IF q = r THEN told[q] \cup Listing ELSE told[q]
    <3>1. q \in NsPorts /\ q \notin lost /\ told \in [NsPorts -> SUBSET Entries]
      BY <1>1 DEF NsInv, NsTypes, NsTypeOK
    <3>2. q = r => Fits(r, ListNotes)
      BY <1>1, <3>1 DEF Dropped
    <3> QED BY <1>1, <3>1, <3>2
  <2>3. ASSUME NEW q \in open \ lost'
        PROVE  /\ \A s \in servers' : Selected(lookups', q, s) => s \in told'[q]
               /\ \A s \in told'[q] : Selected(lookups', q, s) => s \in servers' \cup replaced'
               /\ q \notin quit' \/ Asks(inbox', q) => \A s \in told'[q] : Selected(lookups', q, s)
    <3>1. CASE q = r
      <4>1. told'[q] = told[q] \cup Listing /\ servers' = servers /\ replaced' = replaced
        BY <1>1, <2>2, <3>1
      <4>2. \A s \in told[q] : Selected(lookups, q, s) /\ s \in servers \cup replaced
        BY <1>5, <2>2, <3>1 DEF NsInv, ObserversFollow
      <4>3. \A s \in servers : Selected(lookups, q, s) => s \in told[q]
        BY <2>2 DEF NsInv, ObserversFollow
      <4> QED BY <1>3, <1>4, <3>1, <4>1, <4>2, <4>3
    <3>2. CASE q # r
      BY <1>1, <1>4, <2>1, <2>2, <3>2 DEF NsInv, ObserversFollow
    <3> QED BY <3>1, <3>2
  <2> QED BY <1>1, <2>3 DEF ObserversFollow
<1>12. NeighbourFollows'
  <2>1. (\A i \in DOMAIN inbox' : inbox'[i].cmd # "hello") => \A i \in DOMAIN inbox : inbox[i].cmd # "hello"
    BY <1>1, TakeQueue DEF NsInv
  <2>2. Nb \notin lost' => Nb \notin lost
    BY <1>1
  <2> QED BY <1>1, <2>1, <2>2 DEF NsInv, NeighbourFollows
<1> QED BY <1>8, <1>9, <1>10, <1>11, <1>12 DEF NsInv

(* A lookup is dropped; its owner adds no other. *)
LEMMA NsDelLookupInv == ASSUME NsInv, ctrl_cmd_del_lookup PROVE NsInv'
<1> DEFINE r == Head1.from
<1>1. /\ Take("dellookup") /\ Head1.cmd = "dellookup"
      /\ UNCHANGED <<servers, replaced, told, pend, lost, nview, link, open, mine, rmine, quit, left>>
      /\ lookups' \subseteq lookups /\ \A l \in lookups : l.port # r => l \in lookups'
  BY DEF ctrl_cmd_del_lookup, people, Take
<1>2. NsTypes'
  BY <1>1, TakeTypes DEF NsInv, NsTypes, NsTypeOK
<1>3. RegistryFollows'
  <2>1. \A m, q : ~Concerns(Head1, m, q)
    BY <1>1 DEF Concerns
  <2> QED BY <1>1, <2>1, RegistryTake
<1>4. LookupsFollow'
  BY <1>1, LookupsTake DEF NsInv, Closes
<1>5. r \in quit /\ ~Asks(inbox', r)
  <2>1. Head1 = inbox[1] /\ 1 \in DOMAIN inbox
    BY <1>1, TakeQueue DEF NsInv
  <2>2. r \in quit
    BY <1>1, <2>1 DEF NsInv, LookupsFollow
  <2>3. \A j \in DOMAIN inbox : 1 < j /\ inbox[j].cmd = "newlookup" => inbox[j].from # r
    BY <1>1, <2>1 DEF NsInv, LookupsFollow
  <2>4. \A i \in DOMAIN inbox' : i + 1 \in DOMAIN inbox /\ inbox'[i] = inbox[i + 1] /\ 1 < i + 1
    BY <1>1, TailFacts DEF NsInv, NsTypes, Take
  <2> QED BY <2>2, <2>3, <2>4 DEF Asks
<1> HIDE DEF r
<1>6. ObserversFollow'
  <2>1. \A q : Asks(inbox', q) => Asks(inbox, q)
    BY <1>1, TakeQueue DEF NsInv
  <2>2. \A q, s : Selected(lookups', q, s) => Selected(lookups, q, s)
    BY <1>1 DEF Selected
  <2>3. \A q, s : q # r /\ Selected(lookups, q, s) => Selected(lookups', q, s)
    BY <1>1 DEF Selected
  <2> QED BY <1>1, <1>5, <2>1, <2>2, <2>3 DEF NsInv, ObserversFollow
<1>7. NeighbourFollows'
  <2>1. (\A i \in DOMAIN inbox' : inbox'[i].cmd # "hello") => \A i \in DOMAIN inbox : inbox[i].cmd # "hello"
    BY <1>1, TakeQueue DEF NsInv
  <2> QED BY <1>1, <2>1 DEF NsInv, NeighbourFollows
<1> QED BY <1>2, <1>3, <1>4, <1>6, <1>7 DEF NsInv

(* The name service starts with nothing queued and nothing known. *)
LEMMA NsInitInv == NsInit => NsInv
<1> SUFFICES ASSUME NsInit PROVE NsInv
  OBVIOUS
<1>1. NsTypes
  <2>1. NsTypeOK
    BY QrtrNsAssumption DEF NsInit, NsTypeOK
  <2>2. inbox \in Seq(Packets) /\ DOMAIN inbox = {} /\ IsFiniteSet(servers)
    BY FS_EmptySet DEF NsInit
  <2> QED BY <2>1, <2>2, QrtrNsAssumption DEF NsInit, NsTypes
<1>2. RegistryFollows
  BY DEF NsInit, RegistryFollows, EntryFollows, EntryIs, SrvAt
<1>3. LookupsFollow /\ ObserversFollow /\ NeighbourFollows
  BY DEF NsInit, LookupsFollow, ObserversFollow, NeighbourFollows
<1> QED BY <1>1, <1>2, <1>3 DEF NsInv

(* Every step of the worker, the sockets and the remote node keeps the invariant. *)
LEMMA NsNextInv == NsInv /\ [NsNext]_nsVars => NsInv'
<1> SUFFICES ASSUME NsInv, [NsNext]_nsVars PROVE NsInv'
  OBVIOUS
<1>1. CASE qrtr_ns_worker
  BY <1>1, NsHelloInv, NsByeInv, NsRefusedInv, NsDelClientInv, NsNewServerInv, NsDelServerInv,
     NsNewLookupInv, NsDelLookupInv DEF qrtr_ns_worker
<1>2. ASSUME NEW p \in NsPorts, \E id \in Ids : Publish(p, id) PROVE NsInv'
  BY <1>2, NsPublishInv
<1>3. ASSUME NEW p \in NsPorts, Withdraw(p) PROVE NsInv'
  <2>1. mine[p] \in Ids
    BY <1>3 DEF Withdraw, NsInv, NsTypes
  <2> QED BY <1>3, <2>1, NsPublishInv
<1>4. ASSUME NEW p \in NsPorts, \E f \in Filters : Lookup(p, f) \/ DropLookup(p, f) PROVE NsInv'
  BY <1>4, NsLookupInv
<1>5. ASSUME NEW p \in NsPorts, NEW q \in NsPorts, Misname(p, q) PROVE NsInv'
  BY <1>5, NsLookupInv
<1>6. ASSUME NEW p \in NsPorts, Read(p) \/ Close(p) PROVE NsInv'
  BY <1>6, NsReadInv, NsCloseInv
<1>7. ASSUME NEW p \in RPorts, \E id \in Ids : RemoteNew(p, id) PROVE NsInv'
  BY <1>7, NsRemoteInv
<1>8. ASSUME NEW p \in RPorts, \E c \in {"delserver", "delclient"} : RemoteDel(p, c) PROVE NsInv'
  <2>1. PICK c \in {"delserver", "delclient"} : RemoteDel(p, c)
    BY <1>8
  <2>2. rmine[p] \in Ids
    BY <2>1 DEF RemoteDel, NsInv, NsTypes
  <2> QED BY <2>1, <2>2, NsRemoteInv
<1>9. CASE LinkUp \/ LinkDown
  BY <1>9, NsLinkUpInv, NsLinkDownInv
<1>10. CASE UNCHANGED nsVars
  BY <1>10 DEF nsVars, NsInv, NsTypes, NsTypeOK, RegistryFollows, LookupsFollow, ObserversFollow, NeighbourFollows
<1> QED BY <1>1, <1>2, <1>3, <1>4, <1>5, <1>6, <1>7, <1>8, <1>9, <1>10 DEF NsNext

(* With the queue read, the invariant is what the sockets may rely on. *)
LEMMA NsInvSafe == NsInv => NsSafe
<1> SUFFICES ASSUME NsInv PROVE NsSafe
  OBVIOUS
<1>1. ASSUME inbox = <<>>
      PROVE  /\ \A p \in NsPorts : EntryIs(servers, "local", p, mine[p])
             /\ \A p \in RPorts : EntryIs(servers, "remote", p, rmine[p])
  BY <1>1 DEF NsInv, RegistryFollows, EntryFollows
<1>2. ASSUME inbox = <<>>
      PROVE  servers = {Srv("local", p, mine[p]) : p \in {q \in NsPorts : mine[q] # NoId}}
                  \cup {Srv("remote", p, rmine[p]) : p \in {q \in RPorts : rmine[q] # NoId}}
  <2>1. ASSUME NEW s \in servers
        PROVE  \/ \E p \in NsPorts : mine[p] # NoId /\ s = Srv("local", p, mine[p])
               \/ \E p \in RPorts : rmine[p] # NoId /\ s = Srv("remote", p, rmine[p])
    <3>1. \/ s.node = "local" /\ s.port \in NsPorts
          \/ s.node = "remote" /\ s.port \in RPorts
      BY DEF NsInv, NsTypes, NsTypeOK, Entries
    <3>2. s \in SrvAt(servers, s.node, s.port)
      BY DEF SrvAt
    <3> QED BY <1>1, <1>2, <3>1, <3>2 DEF EntryIs
  <2>2. ASSUME NEW p \in NsPorts, mine[p] # NoId PROVE Srv("local", p, mine[p]) \in servers
    BY <1>1, <1>2, <2>2 DEF EntryIs, SrvAt
  <2>3. ASSUME NEW p \in RPorts, rmine[p] # NoId PROVE Srv("remote", p, rmine[p]) \in servers
    BY <1>1, <1>2, <2>3 DEF EntryIs, SrvAt
  <2> QED BY <2>1, <2>2, <2>3
<1>3. RegistryExact
  BY <1>2 DEF RegistryExact
<1>4. ObserverCurrent
  BY DEF NsInv, ObserversFollow, ObserverCurrent
<1>5. NeighbourKnows
  <2> SUFFICES ASSUME inbox = <<>>, link, Nb \notin lost, NEW p \in NsPorts, nview[p] # mine[p]
               PROVE  mine[p] = NoId /\ p \notin open
    BY DEF NeighbourKnows
  <2>1. CASE p \in open
    <3>1. EntryIs(servers, "local", p, nview[p]) /\ EntryIs(servers, "local", p, mine[p])
      BY <1>1, <2>1 DEF NsInv, NeighbourFollows
    <3>2. nview[p] = mine[p]
      BY <3>1, EntryFacts DEF EntryIs
    <3> QED BY <3>2
  <2>2. CASE p \notin open
    BY <2>2 DEF NsInv, NsTypes
  <2> QED BY <2>1, <2>2
<1>6. LookupsOfOpenPorts
  BY DEF NsInv, LookupsFollow, LookupsOfOpenPorts, WillClose
<1> QED BY <1>3, <1>4, <1>5, <1>6 DEF NsSafe

(* For any sockets, ports, services and lookups, and any queue: once the    *)
(* worker has read everything, the server table is what the open sockets    *)
(* and the connected node registered, observers and neighbour that lost no  *)
(* packet know it, and no lookup of a closed port is left.                  *)
THEOREM NsIsSafe == NsSpec => []NsSafe
<1>1. NsSpec => []NsInv
  BY NsInitInv, NsNextInv, PTL DEF NsSpec
<1> QED BY <1>1, NsInvSafe, PTL
===========================================================================
