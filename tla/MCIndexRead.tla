---------------------------- MODULE MCIndexRead ----------------------------
(***************************************************************************)
(* Two edges, a node with the writer and a node with a reader, a builder   *)
(* on each, a traversal on each.  A behaviour asks for one of the mixes of *)
(* requests below.                                                         *)
(***************************************************************************)
EXTENDS IndexRead, TLC

CONSTANTS e1, e2, w, r, bw, br, qw, qr

MCNodeOf == (bw :> w) @@ (br :> r) @@ (qw :> w) @@ (qr :> r)

None == [write |-> <<>>, other |-> 0, collect |-> 0, build |-> 0,
         artifact |-> 0, purge |-> 0, query |-> 0,
         abort |-> 0, evict |-> 0, restart |-> 0, who |-> {}]

MCSetups == {
    \* two builds race to publish and to collect
    [None EXCEPT !.write = <<{e1}, {e1, e2}, {e2}>>, !.build = 3, !.abort = 1, !.who = {bw, br}],
    \* a traversal over a tail, WAL files being collected
    [None EXCEPT !.write = <<{e1, e2}, {e1}, {e1}>>, !.build = 1, !.collect = 1, !.query = 1, !.who = {bw, qw}],
    [None EXCEPT !.write = <<{e1, e2}, {e1}, {e2}>>, !.build = 1, !.collect = 1, !.query = 1, !.who = {bw, qr}],
    \* a generation is collected under a reader that lags behind
    [None EXCEPT !.write = <<{e1}, {e2}>>, !.build = 2, !.query = 2, !.evict = 1, !.who = {br, qr}],
    [None EXCEPT !.write = <<{e1}, {e2}>>, !.build = 2, !.query = 2, !.who = {bw, qr}],
    \* the changelog is trimmed between incremental builds
    [None EXCEPT !.write = <<{e1}, {e1, e2}, {e1}>>, !.build = 2, !.restart = 1, !.who = {bw}],
    \* an image is built while the topology moves, and read
    [None EXCEPT !.write = <<{e1, e2}, {e1, e2}>>, !.artifact = 1, !.query = 1, !.who = {qw}],
    [None EXCEPT !.write = <<{e1, e2}>>, !.other = 1, !.artifact = 1, !.query = 2, !.evict = 1, !.who = {qr}],
    \* a build fails, its cleanup dies, the next build finds the marker
    [None EXCEPT !.write = <<{e1}>>, !.artifact = 2, !.abort = 1, !.restart = 1],
    \* images are purged
    [None EXCEPT !.write = <<{e1}>>, !.other = 1, !.artifact = 2, !.purge = 1]}

\* A reader that lags behind two builds and a collection.
MCLagging == {
    [None EXCEPT !.write = <<{e1}, {e2}>>, !.build = 2, !.query = 2, !.who = {bw, qr}]}
=============================================================================
