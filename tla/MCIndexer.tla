------------------------------ MODULE MCIndexer ------------------------------
(* Small instances of Indexer.                                             *)
EXTENDS Indexer

MCSorted == [s \in Scopes |-> s]

\* The names of two scopes like acme and acme-eu sort the other way round.
MCPrefixed == [s \in Scopes |-> IF s = 1 THEN 2 ELSE IF s = 2 THEN 1 ELSE s]

\* More scopes than a cycle takes: in pairs, and one at a time.
MCSmallSlices ==
    {[registered |-> {1, 2, 3, 4}, concurrency |-> 2, perCycle |-> 3, maxOpen |-> 2,
      maxWrites |-> 1],
     [registered |-> {1, 2}, concurrency |-> 1, perCycle |-> 1, maxOpen |-> 1,
      maxWrites |-> 3],
     [registered |-> {}, concurrency |-> 1, perCycle |-> 1, maxOpen |-> 1,
      maxWrites |-> 3]}

\* Every scope fits into one cycle, as with the default settings.
MCWholeRegistry ==
    {[registered |-> {1}, concurrency |-> 1, perCycle |-> 3, maxOpen |-> 2, maxWrites |-> 4]}

\* Two scopes, one to a cycle.
MCOneByOne ==
    {[registered |-> {1, 2}, concurrency |-> 1, perCycle |-> 1, maxOpen |-> 1, maxWrites |-> 0]}
=============================================================================
