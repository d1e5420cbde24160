---------------------------- MODULE CellHistory ----------------------------
(***************************************************************************)
(* The storage one cell's indexes are built from: a SlateDB database whose *)
(* commits are numbered, become durable in numbered WAL files, and are     *)
(* read through pinned snapshots.  One edge type is modelled.  hist[s] is  *)
(* the content of the database after commit s, so that a snapshot is a     *)
(* sequence number and "the topology at s" is hist[s].topo.                *)
(***************************************************************************)
EXTENDS Integers, Sequences, FiniteSets

CONSTANTS
    Edges,      \* (source, destination) pairs of the edge type
    Nodes,      \* processes that hold the database open
    Writer,     \* the one of them that holds the SlateDB writer
    MaxSeq,     \* bound: commits in a behaviour
    Retain,     \* index generations kept behind the current one
    MaxTail,    \* limits.max_wal_tail_files
    MaxAffected,\* limits.max_query_scan_edges, for the WAL tail
    Attempts,   \* INDEX_PUBLISH_ATTEMPTS
    Setups      \* what a behaviour asks for: the writes, how often each other
                \* request is made and each fault strikes, and who takes part

ASSUME HistoryAssumption ==
    /\ Writer \in Nodes
    /\ {MaxSeq, Retain, MaxTail, MaxAffected} \subseteq Nat
    /\ Attempts \in Nat \ {0}

VARIABLES
    hist,    \* the database after each commit
    wal,     \* wal[k] = the last commit held by WAL file k
    walLow,  \* WAL files up to this one have been collected
    view,    \* [node -> WAL files the node's DbReader has replayed]
    todo     \* requests and faults still to come

storeVars == <<hist, wal, walLow, view>>

NoArtifact == [chunks |-> {}, manifest |-> FALSE, edges |-> {}]

\* The database as it is created: nothing written, no changelog floor.
Genesis ==
    [topo |-> {}, generation |-> 0, low |-> 0, xlog |-> {},
     art |-> [b \in 0..MaxSeq |-> NoArtifact], marker |-> {}]

At(s) == IF s = 0 THEN Genesis ELSE hist[s]
Visible == At(Len(hist))
SeqOf(k) == IF k = 0 THEN 0 ELSE wal[k]
Durable == SeqOf(Len(wal))

Commit(content) ==
    /\ Len(hist) < MaxSeq
    /\ hist' = Append(hist, content)

StoreInit ==
    /\ hist = <<>>
    /\ wal = <<>>
    /\ walLow = 0
    /\ view = [n \in Nodes |-> 0]
    /\ todo \in Setups

Request(kind) == todo[kind] > 0 /\ todo' = [todo EXCEPT ![kind] = @ - 1]

\* A topology mutation: the edges, the adjacency generation (which is also
\* the dirty marker), the changelog floor if there is none and one changelog
\* entry for each changed edge, in one transaction.
Toggle(E) ==
    LET s == Len(hist) + 1
        after == (Visible.topo \ E) \cup (E \ Visible.topo)
    IN Commit([Visible EXCEPT
                 !.topo = after,
                 !.generation = s,
                 !.low = IF @ = 0 THEN s ELSE @,
                 !.xlog = @ \cup {[seq |-> s, edge |-> e, exists |-> e \in after] : e \in E}])

Write ==
    /\ todo.write # <<>>
    /\ Toggle(Head(todo.write))
    /\ todo' = [todo EXCEPT !.write = Tail(@)]
    /\ UNCHANGED <<wal, walLow, view>>

\* Any other commit of the cell: properties, metadata, another edge type.
WriteOther ==
    /\ Request("other")
    /\ Commit(Visible)
    /\ UNCHANGED <<wal, walLow, view>>

\* SlateDB flushes what is pending as the next WAL file.
Flush ==
    /\ Durable < Len(hist)
    /\ wal' = Append(wal, Len(hist))
    /\ UNCHANGED <<hist, walLow, view, todo>>

\* SlateDB collects the oldest WAL file still there.
CollectWal ==
    /\ walLow < Len(wal)
    /\ Request("collect")
    /\ walLow' = walLow + 1
    /\ UNCHANGED <<hist, wal, view>>

\* A DbReader polls: it replays every WAL file there is.
Poll(n) ==
    /\ n # Writer
    /\ view[n] < Len(wal)
    /\ view' = [view EXCEPT ![n] = Len(wal)]
    /\ UNCHANGED <<hist, wal, walLow, todo>>

\* refresh_durable_reader: the writer's node keeps a reader too, which none
\* of its snapshots use.
Refreshed(n) == IF n = Writer THEN view ELSE [view EXCEPT ![n] = Len(wal)]

\* A writer snapshot is pinned at the durable sequence and carries no WAL
\* position; a reader snapshot has both.
Snapshot(n) ==
    IF n = Writer
    THEN [seq |-> Durable, wal |-> -1]
    ELSE [seq |-> SeqOf(view[n]), wal |-> view[n]]

\* The WAL position a node reports while the snapshot is in use.
LastDurableWal(snapshot) == IF snapshot.wal = -1 THEN Len(wal) ELSE snapshot.wal

HistoryTypeOK ==
    /\ \A s \in 1..Len(hist) :
          /\ hist[s].topo \subseteq Edges
          /\ hist[s].generation \in 0..s
          /\ hist[s].low \in 0..s+1
          /\ \A entry \in hist[s].xlog : entry.seq \in 1..s /\ entry.edge \in Edges
    /\ \A k \in 1..Len(wal) : wal[k] \in 1..Len(hist)
    /\ walLow \in 0..Len(wal)
    /\ \A n \in Nodes : view[n] \in 0..Len(wal)
=============================================================================
