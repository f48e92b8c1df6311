------------------------------- MODULE Rmtfs --------------------------------
(***************************************************************************)
(* The remote file system server the modem keeps its EFS images with       *)
(* (rmtfs 1.1: rmtfs.c, storage.c).  One thread answers one request after  *)
(* the other.  A handle belongs to a node and a partition, not to the      *)
(* client that opened it, and is not counted.  With `ro` (-r, as the       *)
(* machine's unit runs it) an image is copied into a shadow buffer when it *)
(* is opened and written only there.                                       *)
(*                                                                         *)
(* A partition is one sector whose contents are the number of the write    *)
(* that made them.  Clients send requests on handles they were given and   *)
(* have not closed.                                                        *)
(***************************************************************************)
EXTENDS Naturals, FiniteSets

CONSTANTS
    NodeOf,         \* the node of each client
    Partitions,
    MaxCallers,     \* MAX_CALLERS, 10 in the code
    WriteMax        \* bound: writes in a behaviour

ASSUME RmtfsAssumption == MaxCallers \in Nat \ {0} /\ WriteMax \in Nat

Clients == DOMAIN NodeOf
Nodes == {NodeOf[c] : c \in Clients}
Handles == 0 .. MaxCallers - 1
Garbage == WriteMax + 1     \* what was on the stack
Zeros == WriteMax + 2       \* what a file that is too short is padded with

VARIABLES
    ro,         \* storage_read_only, -r
    verbose,    \* dbgprintf_enabled, -v
    server,     \* "up" or "crashed"
    rmtfds,     \* each handle: live, node, part, shadow
    disk,       \* the images: what reads return, and what is on the medium
    fds,        \* the handle each client was given for a partition
    expect,     \* what each node wrote last to a file it has open, 0 for nothing
    answer,     \* the answer to a write that was just made
    writes,     \* writes so far
    upset       \* history: events that the properties except

rmtfsVars == <<ro, verbose, server, rmtfds, disk, fds, expect, answer, writes, upset>>

NoFd == MaxCallers
Closed == [live |-> FALSE, node |-> 0, part |-> "none", shadow |-> Zeros]
NoAnswer == [ok |-> FALSE, part |-> "none", data |-> 0]

RmtfsInit ==
    /\ ro \in BOOLEAN /\ verbose \in BOOLEAN /\ server = "up"
    /\ rmtfds = [h \in Handles |-> Closed]
    /\ disk = [p \in Partitions |-> [cached |-> 0, stable |-> 0]]
    /\ fds = [c \in Clients |-> [p \in Partitions |-> NoFd]]
    /\ expect = [n \in Nodes |-> [p \in Partitions |-> 0]]
    /\ answer = NoAnswer /\ writes = 0 /\ upset = {}

-----------------------------------------------------------------------------
(* storage.c *)

\* The handle a node has for a partition already.
Existing(n, p) == {h \in Handles : rmtfds[h].live /\ rmtfds[h].node = n /\ rmtfds[h].part = p}

\* Mutant: a handle without a file descriptor is free, shadow buffer or not.
UnusedByFd == IF ro THEN Handles ELSE {h \in Handles : ~rmtfds[h].live}

\* The handles storage_open may take.
Unused == {h \in Handles : ~rmtfds[h].live}

\* The search stops at the first handle that fits.
FirstHandle(h, set) == h \in set /\ \A g \in set : h <= g

\* Mutant: the last handle is out of range.
StorageGetShort(n, h) == h \in Handles /\ h < MaxCallers - 1 /\ rmtfds[h].node = n

\* storage_get: the handle's node must match; that it is open is not asked.
StorageGet(n, h) == h \in Handles /\ rmtfds[h].node = n

\* storage_populate_shadow_buf, or open().
Populated(n, p) == [live |-> TRUE, node |-> n, part |-> p, shadow |-> IF ro THEN disk[p].cached ELSE Zeros]

\* Mutant: a file that is open already is read from the medium again.
StorageOpenAgain(n, p, h) ==
    /\ FirstHandle(h, IF Existing(n, p) # {} THEN Existing(n, p) ELSE Unused)
    /\ rmtfds' = [rmtfds EXCEPT ![h] = Populated(n, p)]

\* storage_open: the node's own handle, else the first unused one.
StorageOpen(n, p, h) ==
    \/ FirstHandle(h, Existing(n, p)) /\ UNCHANGED rmtfds
    \/ /\ Existing(n, p) = {} /\ FirstHandle(h, Unused)
       /\ rmtfds' = [rmtfds EXCEPT ![h] = Populated(n, p)]

\* Mutant: the shadow buffer is kept.
StorageCloseKeeping(h) ==
    rmtfds' = [rmtfds EXCEPT ![h].live = @ /\ ro, ![h].part = "none"]

\* storage_close: the node stays.
StorageClose(h) ==
    rmtfds' = [rmtfds EXCEPT ![h] = [Closed EXCEPT !.node = rmtfds[h].node]]

-----------------------------------------------------------------------------
(* rmtfs.c: one action per request *)

\* rmtfs_open succeeds.  An open that fails changes nothing.
RmtfsOpen(c, p, h) ==
    /\ server = "up" /\ fds[c][p] = NoFd
    /\ StorageOpen(NodeOf[c], p, h)
    /\ fds' = [fds EXCEPT ![c][p] = h]
    /\ answer' = NoAnswer
    /\ UNCHANGED <<ro, verbose, server, disk, expect, writes, upset>>

\* What the trace of rmtfs_close prints with %s is a number: 0 is printed as a
\* null string, any other is followed as a pointer.
TraceCrashes(h) == verbose /\ h # 0

\* rmtfs_close closes the handle for every client of the node.
RmtfsClose(c, p) ==
    /\ server = "up" /\ fds[c][p] # NoFd
    /\ fds' = [fds EXCEPT ![c][p] = NoFd]
    /\ IF StorageGet(NodeOf[c], fds[c][p]) THEN StorageClose(fds[c][p]) ELSE UNCHANGED rmtfds
    /\ expect' = [expect EXCEPT ![NodeOf[c]][p] = 0]
    /\ upset' = IF \E d \in Clients \ {c}, q \in Partitions : fds[d][q] = fds[c][p]
                THEN upset \cup {"closed_for_another"} ELSE upset
    /\ server' = IF TraceCrashes(fds[c][p]) THEN "crashed" ELSE "up"
    /\ answer' = NoAnswer
    /\ UNCHANGED <<ro, verbose, disk, writes>>

\* What rmtfs_iovec reads for a client; it changes nothing.  storage_pread reports
\* every sector as read: an error of pread, as on a handle that was closed, compares
\* as a large unsigned number, and the buffer is left as it was.
IovecRead(n, h) ==
    [ok |-> StorageGet(n, h),
     data |-> IF ~StorageGet(n, h) THEN 0
              ELSE IF ro THEN rmtfds[h].shadow
              ELSE IF ~rmtfds[h].live THEN Garbage ELSE disk[rmtfds[h].part].cached]

\* storage_pwrite with -r: the shadow buffer is there from now on.
Stored(r, data) == [r EXCEPT !.live = TRUE, !.shadow = data]

\* Mutant: the answer does not wait for the medium.
SyncedNot(p, done) == [disk EXCEPT ![p].cached = done]

\* storage_pwrite and storage_sync.
Synced(p, done) == [disk EXCEPT ![p] = [cached |-> done, stable |-> done]]

\* Whether a write is taken; with -r it is on any handle of the node.
Writable(n, h) == StorageGet(n, h) /\ (ro \/ rmtfds[h].live)

\* rmtfs_iovec, writing.  The handle may have been closed for another client:
\* its shadow buffer comes to life again under no partition.  Without a handle
\* storage_sync follows a null pointer.
IovecWriteTo(n, h, p, ok) ==
    /\ server = "up" /\ h # NoFd /\ writes < WriteMax
    /\ writes' = writes + 1
    /\ server' = IF ro \/ StorageGet(n, h) THEN "up" ELSE "crashed"
    /\ rmtfds' = IF ro /\ ok THEN [rmtfds EXCEPT ![h] = Stored(@, writes + 1)] ELSE rmtfds
    /\ disk' = IF ~ro /\ ok THEN Synced(rmtfds[h].part, writes + 1) ELSE disk
    /\ expect' = IF ok THEN [expect EXCEPT ![n][p] = writes + 1] ELSE expect
    /\ answer' = [ok |-> ok, part |-> p, data |-> writes + 1]
    /\ upset' = IF ok /\ ~rmtfds[h].live THEN upset \cup {"revived"} ELSE upset
    /\ UNCHANGED <<ro, verbose, fds>>

IovecWrite(c, p) == IovecWriteTo(NodeOf[c], fds[c][p], p, Writable(NodeOf[c], fds[c][p]))

\* pwrite fails, or takes less than the sector.
IovecFails(c, p) == ~ro /\ IovecWriteTo(NodeOf[c], fds[c][p], p, FALSE)

\* fdatasync fails: its result is ignored.
UnsyncedTo(n, h, p) ==
    /\ server = "up" /\ h # NoFd /\ writes < WriteMax /\ ~ro
    /\ Writable(n, h)
    /\ writes' = writes + 1
    /\ disk' = [disk EXCEPT ![rmtfds[h].part].cached = writes + 1]
    /\ expect' = [expect EXCEPT ![n][p] = writes + 1]
    /\ answer' = [ok |-> TRUE, part |-> p, data |-> writes + 1]
    /\ upset' = upset \cup {"unsynced"}
    /\ UNCHANGED <<ro, verbose, server, rmtfds, fds>>

IovecUnsynced(c, p) == UnsyncedTo(NodeOf[c], fds[c][p], p)

\* rmtfs_get_dev_error: the test is the wrong way round, so a handle that is known
\* is refused and one that is not is followed as a null pointer.
GetDevError(c, p) ==
    /\ server = "up" /\ fds[c][p] # NoFd
    /\ server' = IF StorageGet(NodeOf[c], fds[c][p]) THEN "up" ELSE "crashed"
    /\ answer' = NoAnswer
    /\ UNCHANGED <<ro, verbose, rmtfds, disk, fds, expect, writes, upset>>

\* The modem goes and comes back: rmtfs_bye and rmtfs_del_client do nothing.
Bye(n) ==
    /\ server = "up" /\ \E c \in Clients : NodeOf[c] = n /\ \E p \in Partitions : fds[c][p] # NoFd
    /\ fds' = [c \in Clients |-> IF NodeOf[c] = n THEN [p \in Partitions |-> NoFd] ELSE fds[c]]
    /\ answer' = NoAnswer
    /\ UNCHANGED <<ro, verbose, server, rmtfds, disk, expect, writes, upset>>

RmtfsNext ==
    \/ \E c \in Clients, p \in Partitions :
         \/ \E h \in Handles : RmtfsOpen(c, p, h)
         \/ RmtfsClose(c, p) \/ GetDevError(c, p)
         \/ IovecWrite(c, p) \/ IovecFails(c, p) \/ IovecUnsynced(c, p)
    \/ \E n \in Nodes : Bye(n)

RmtfsSpec == RmtfsInit /\ [][RmtfsNext]_rmtfsVars

-----------------------------------------------------------------------------
\* A handle a client holds is open, belongs to its node and names the partition
\* it was opened for, unless another client of the node closed it: then it may
\* name any other partition the node has opened since.
HandleNamesItsFile ==
    \A c \in Clients, p \in Partitions :
        fds[c][p] # NoFd /\ "closed_for_another" \notin upset =>
            /\ rmtfds[fds[c][p]].live
            /\ rmtfds[fds[c][p]].node = NodeOf[c] /\ rmtfds[fds[c][p]].part = p

\* What a client reads from a file it has open is what its node wrote to it last,
\* over restarts of the modem and whatever other nodes open or close, unless the
\* handle was closed under it.  (With -r, where each node has a copy of its own.)
ReadsBack ==
    \A c \in Clients, p \in Partitions :
        /\ ro /\ server = "up" /\ fds[c][p] # NoFd /\ "closed_for_another" \notin upset
        /\ expect[NodeOf[c]][p] # 0
        => IovecRead(NodeOf[c], fds[c][p]) = [ok |-> TRUE, data |-> expect[NodeOf[c]][p]]

\* A write reported as successful is on the medium of its own partition, unless
\* fdatasync failed or the handle was closed under the client.
WriteIsStable ==
    answer.ok /\ ~ro /\ upset = {} => disk[answer.part].stable = answer.data

\* Handles are not lost: one that is open is found again when its node opens its
\* partition again, so a modem that restarts over and over does not use them up,
\* unless a write brought a closed one back.
NoHandleLost ==
    \A h \in Handles :
        rmtfds[h].live /\ "revived" \notin upset => Existing(rmtfds[h].node, rmtfds[h].part) = {h}

\* The server goes down only by the trace of a close, or when a handle that was
\* closed under a client has been taken by another node.
ServerSurvives == server = "crashed" => verbose \/ "closed_for_another" \in upset

\* ------------------------------------------------ the inductive invariant
HandleStates ==
    [live : BOOLEAN, node : Nodes \cup {0}, part : Partitions \cup {"none"}, shadow : Nat]

RmtfsTypeOK ==
    /\ ro \in BOOLEAN /\ verbose \in BOOLEAN /\ server \in {"up", "crashed"}
    /\ rmtfds \in [Handles -> HandleStates]
    /\ disk \in [Partitions -> [cached : Nat, stable : Nat]]
    /\ fds \in [Clients -> [Partitions -> Handles \cup {NoFd}]]
    /\ expect \in [Nodes -> [Partitions -> Nat]]
    /\ answer \in [ok : BOOLEAN, part : Partitions \cup {"none"}, data : Nat]
    /\ writes \in Nat
    /\ upset \subseteq {"closed_for_another", "revived", "unsynced"}

\* Without a handle that came back to life, no two are for the same file of a node.
HandlesDistinct ==
    "revived" \notin upset =>
        \A g, h \in Handles :
            /\ rmtfds[g].live /\ rmtfds[h].live
            /\ rmtfds[g].node = rmtfds[h].node /\ rmtfds[g].part = rmtfds[h].part
            => g = h

\* A closed handle comes back to life only after it was closed under a client.
RevivedWasClosed == "revived" \in upset => "closed_for_another" \in upset

\* What a node wrote last to a file is in the shadow buffer of a handle it still has for
\* the file, whether a client holds the handle or not.
ShadowsInStep ==
    ro /\ "closed_for_another" \notin upset =>
        \A n \in Nodes, p \in Partitions :
            expect[n][p] # 0 =>
                \E h \in Handles :
                    /\ rmtfds[h].live /\ rmtfds[h].node = n /\ rmtfds[h].part = p
                    /\ rmtfds[h].shadow = expect[n][p]

RmtfsInv ==
    /\ RmtfsTypeOK /\ HandleNamesItsFile /\ RevivedWasClosed /\ HandlesDistinct
    /\ ShadowsInStep /\ ServerSurvives /\ WriteIsStable

\* The server as a whole: handles name their files, a node reads what it wrote, what it
\* was told is written is on the medium, and neither handles nor the server are lost.
RmtfsSafe ==
    /\ RmtfsInv /\ HandleNamesItsFile /\ ReadsBack /\ WriteIsStable /\ NoHandleLost /\ ServerSurvives
=============================================================================
