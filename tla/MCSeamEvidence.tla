--------------------------- MODULE MCSeamEvidence ---------------------------
(***************************************************************************)
(* Up to three rounds, of which the first is not steady; a FreeBSD rate of  *)
(* 3.21 lies between the counts 0 and 3, and 7 is above its window.         *)
(***************************************************************************)
EXTENDS SeamEvidence

\* Counters: main-queue pushes, slow pokes, source and continuation pushes.
Counts(mainq, poke, source, continuation) ==
  [mainq |-> mainq, poke |-> poke, source |-> source,
   continuation |-> continuation]

MCTraffic ==
  [swift |-> {Counts(0, 0, 1, 0), Counts(3, 3, 1, 0), Counts(7, 3, 0, 8)},
   c |-> {Zero, Counts(1, 1, 0, 0)}]

MCBetween == {Counts(1, 0, 0, 1)}

MCSymbol == {"push", "addthreads"}
MCLibraryOf == [push |-> "libdispatch", addthreads |-> "libpthread"]
MCLibrary == {"libdispatch", "libpthread"}

\* Hosts by what is usual and by what each tool may lack.
Usual ==
  [xcrun |-> "works", dtrace |-> "fails", xctrace |-> "works",
   stubs |-> MCLibrary,
   lists |-> {<<"addthreads", "source">>, <<"addthreads", "macho">>,
              <<"push", "macho">>},
   resolves |-> {"addthreads"}]

MCHosts ==
  {Usual,
   [Usual EXCEPT !.dtrace = "works", !.resolves = MCSymbol],
   [Usual EXCEPT !.dtrace = "works", !.stubs = {}],
   [Usual EXCEPT !.xcrun = "absent", !.xctrace = "absent", !.dtrace = "absent"],
   [Usual EXCEPT !.xcrun = "empty", !.xctrace = "empty", !.dtrace = "empty",
                 !.resolves = {}]}

\* A library: three vtables at equal distances, the table of continuation
\* vtables after them, and the root queues.
Defines(name, address) == [name |-> name, address |-> address]

Full ==
  <<Defines("__OS_dispatch_source_vtable", 20),
    Defines("__OS_dispatch_queue_main_vtable", 24),
    Defines("__OS_dispatch_queue_vtable", 28),
    Defines("_dispatch_continuation_vtables", 30),
    Defines("malloc", -1),
    Defines("_dispatch_root_queues", 40)>>

\* The full one, one that does not name the roots, one without vtables.
MCLibraries == {Full, SubSeq(Full, 1, 5), SubSeq(Full, 4, 6)}
MCVtableName == {Full[i].name : i \in 1..3}
MCVtableAt ==
  [source |-> 20, main |-> 24, queue |-> 28, redirect |-> 32, inline |-> 3]
MCObject == DOMAIN MCVtableAt
MCRootAt == [overcommit |-> 8, custom |-> -5]

\* Only a stock pass is tried on every host: the introspection pass does the
\* same with it.
MCInit == Init /\ (pass = "introspection" => host = Usual)

MCSpec == MCInit /\ [][Next]_evidenceVars
=============================================================================
