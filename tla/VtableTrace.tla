---------------------------- MODULE VtableTrace ----------------------------
(***************************************************************************)
(* scripts/dtrace/analyze-m13-vtable.py: from the addresses that the D      *)
(* script m13-push-vtable.d prints of root queues and object vtables to     *)
(* their names, by guessing where libdispatch was loaded.                   *)
(*                                                                          *)
(* Only how often a line was printed matters, so the trace is a bag.        *)
(* Addresses are small integers; Inline stands for 0x1000.                  *)
(***************************************************************************)
EXTENDS Integers, Sequences, FiniteSetsExt, Functions, Bags

CONSTANTS
  Libraries,      \* what nm -a may print of libdispatch.so
  VtableName,     \* names with "vtable" that begin with "__OS_dispatch_"
  Slides,         \* where the loader may have put the library
  Object,         \* what may be pushed
  VtableAt,       \* VtableAt[object]: its vtable, as an offset in the library
  RootTable,      \* the offset of the root table
  RootAt,         \* RootAt[root]: its queue, as an offset from the root table
  ROOT_LABELS,    \* how many labels there are
  ROOT_QUEUE_ENTRY_SIZE,
  Inline,         \* an object whose first word is below this is a continuation
  MaxLines        \* bound on the lines of a trace

Root == DOMAIN RootAt

\* An object with no vtable, whose first word is flags.
IsInline(object) == VtableAt[object] < Inline

ASSUME TraceAssumption ==
  /\ ROOT_QUEUE_ENTRY_SIZE \in Nat \ {0} /\ ROOT_LABELS \in Nat
  /\ Inline \in Nat /\ MaxLines \in Nat /\ RootTable \in Int
  /\ Slides \subseteq Nat /\ \A slide \in Slides : slide > Inline
  \* Objects are told apart by what is traced of them, and so are roots.
  /\ VtableAt \in [Object -> Nat] /\ IsInjective(VtableAt)
  /\ RootAt \in [Root -> Int] /\ IsInjective(RootAt)
  \* If nm names the table of root queues, it says where it is.
  /\ \A library \in Libraries :
       /\ library \in Seq([name: STRING, address: Int])
       /\ \A i \in DOMAIN library :
            library[i].name = "_dispatch_root_queues" /\ library[i].address >= 0
              => library[i].address = RootTable

VARIABLES
  library,  \* the library that was traced
  slide,    \* where it was loaded
  trace,    \* the lines of the log, a bag
  pushed,   \* the pushes traced, by root and object, in whole lines
  told      \* what the script printed

traceVars == <<library, slide, trace, pushed, told>>

-----------------------------------------------------------------------------
\* A name with its address, -1 when it is undefined; the last of a name wins.
load_symbols(lines) ==
  LET defined == {i \in DOMAIN lines : lines[i].address >= 0} IN
  [name \in {lines[i].name : i \in defined} |->
     lines[Max({i \in defined : lines[i].name = name})].address]

\* Lines with fewer than seven words are skipped.
whole(lines, event) ==
  {line \in BagToSet(lines) : line.event = event /\ line.words >= 7}

parse_trace(lines) ==
  [pushes |-> [p \in {<<line.rq, line.vtable>> : line \in whole(lines, "push_vtable")} |->
                 SumFunction([line \in {l \in whole(lines, "push_vtable") :
                                          <<l.rq, l.vtable>> = p} |-> lines[line]])],
   pops |-> [vt \in {line.vtable : line \in whole(lines, "pop_vtable")} |->
               SumFunction([line \in {l \in whole(lines, "pop_vtable") :
                                        l.vtable = vt} |-> lines[line]])]]

\* How often each vtable was pushed, on whatever root.
push_vtables(pushes) ==
  [vt \in {p[2] : p \in DOMAIN pushes} |->
     SumFunction([p \in {q \in DOMAIN pushes : q[2] = vt} |-> pushes[p]])]

-----------------------------------------------------------------------------
(* Mutated forms, each a plausible bug; nothing uses them.                  *)

\* Flags of a continuation taken for the address of a vtable.
infer_slide_inline_too(vtables, symbols) ==
  LET known == {symbols[name] : name \in DOMAIN symbols \cap VtableName}
      candidates == {vt - a : vt \in DOMAIN vtables, a \in known}
      scored(c) == SumFunction([vt \in {v \in DOMAIN vtables : v - c \in known} |->
                                  vtables[vt]])
  IN {c \in candidates : \A other \in candidates : scored(other) <= scored(c)}

\* The symbol strictly before the address.
nearest_symbol_strict(offset, symbols) ==
  LET before == {name \in DOMAIN symbols : symbols[name] < offset} IN
  IF before = {} THEN [name |-> "offset", delta |-> offset]
  ELSE LET best == CHOOSE name \in before :
                     \A other \in before : symbols[other] <= symbols[name]
       IN [name |-> best, delta |-> offset - symbols[best]]

-----------------------------------------------------------------------------
\* The slides that may be inferred: those under which the most pushes have a
\* known vtable. most_common takes the first of them in a set's order, which
\* is left open; none is found when no push has a vtable.
infer_slide(vtables, symbols) ==
  LET known == {symbols[name] : name \in DOMAIN symbols \cap VtableName}
      runtime == {vt \in DOMAIN vtables : vt >= Inline}
      candidates == {vt - a : vt \in runtime, a \in known}
      scored(c) == SumFunction([vt \in {v \in runtime : v - c \in known} |->
                                  vtables[vt]])
  IN {c \in candidates : \A other \in candidates : scored(other) <= scored(c)}

\* The last symbol up to the address, one of them when several are there.
nearest_symbol(offset, symbols) ==
  LET before == {name \in DOMAIN symbols : symbols[name] <= offset} IN
  IF before = {} THEN [name |-> "offset", delta |-> offset]
  ELSE LET best == CHOOSE name \in before :
                     \A other \in before : symbols[other] <= symbols[name]
       IN [name |-> best, delta |-> offset - symbols[best]]

\* "rq" stands for the pointer itself, "root" for an index without a name.
root_label(rq, inferred, symbols) ==
  IF "_dispatch_root_queues" \notin DOMAIN symbols
  THEN [label |-> "rq", index |-> rq]
  ELSE LET off == rq - inferred - symbols["_dispatch_root_queues"]
           idx == off \div ROOT_QUEUE_ENTRY_SIZE
       IN IF off < 0 \/ off % ROOT_QUEUE_ENTRY_SIZE # 0
            THEN [label |-> "rq", index |-> rq]
          ELSE [label |-> IF idx < ROOT_LABELS THEN "named" ELSE "root",
                index |-> idx]

describe_vtable(vt, inferred, symbols) ==
  IF vt < Inline THEN [name |-> "continuation-inline", delta |-> vt]
  ELSE nearest_symbol(vt - inferred, symbols)

\* What is printed, given the slide.
print_tables(inferred, parsed, symbols) ==
  [outcome |-> "printed",
   slide |-> inferred,
   pushes |-> [p \in DOMAIN parsed.pushes |->
                 [count |-> parsed.pushes[p],
                  root |-> root_label(p[1], inferred, symbols),
                  object |-> describe_vtable(p[2], inferred, symbols)]],
   pops |-> [vt \in DOMAIN parsed.pops |->
               [count |-> parsed.pops[vt],
                object |-> describe_vtable(vt, inferred, symbols)]]]

-----------------------------------------------------------------------------
(* The traced program and the two scripts.                                  *)

Symbols == load_symbols(library)

Pending == [outcome |-> "pending"]

\* Where a vtable and a root queue are at run time. The table of root queues
\* is there whether nm names it or not.
RuntimeVtable(object) ==
  IF IsInline(object) THEN VtableAt[object] ELSE slide + VtableAt[object]

RuntimeRoot(root) == slide + RootTable + RootAt[root]

TraceInit ==
  /\ library \in Libraries
  /\ slide \in Slides
  /\ trace = EmptyBag
  /\ pushed = EmptyBag
  /\ told = Pending

\* push_vtable: words are lost when other output cuts the line short.
Push(root, object, words) ==
  /\ told = Pending
  /\ BagCardinality(trace) < MaxLines
  /\ trace' = trace (+) SetToBag({[event |-> "push_vtable", words |-> words,
                                   rq |-> RuntimeRoot(root),
                                   vtable |-> RuntimeVtable(object)]})
  /\ pushed' = IF words = 7 THEN pushed (+) SetToBag({<<root, object>>})
               ELSE pushed
  /\ UNCHANGED <<library, slide, told>>

\* pop_vtable has 0 for its root.
Pop(object, words) ==
  /\ told = Pending
  /\ BagCardinality(trace) < MaxLines
  /\ trace' = trace (+) SetToBag({[event |-> "pop_vtable", words |-> words,
                                   rq |-> 0,
                                   vtable |-> RuntimeVtable(object)]})
  /\ UNCHANGED <<library, slide, pushed, told>>

\* poke_slow, which the analysis skips.
Poke(root) ==
  /\ told = Pending
  /\ BagCardinality(trace) < MaxLines
  /\ trace' = trace (+) SetToBag({[event |-> "poke_slow", words |-> 7,
                                   rq |-> RuntimeRoot(root), vtable |-> 0]})
  /\ UNCHANGED <<library, slide, pushed, told>>

\* main
Analyse ==
  /\ told = Pending
  /\ LET parsed == parse_trace(trace)
         slides == infer_slide(push_vtables(parsed.pushes), Symbols)
     IN IF slides = {} THEN told' = [outcome |-> "no_slide"]
        ELSE \E inferred \in slides :
               told' = print_tables(inferred, parsed, Symbols)
  /\ UNCHANGED <<library, slide, trace, pushed>>

TraceDone == told # Pending /\ UNCHANGED traceVars

TraceNext ==
  \/ \E root \in Root, object \in Object, words \in {6, 7} :
       Push(root, object, words)
  \/ \E object \in Object, words \in {6, 7} : Pop(object, words)
  \/ \E root \in Root : Poke(root)
  \/ Analyse
  \/ TraceDone
-----------------------------------------------------------------------------
(* Properties.                                                              *)

\* How many pushes in whole lines were of objects that satisfy P.
PushesOf(P(_)) ==
  SumFunction([p \in {q \in DOMAIN pushed : P(q[2])} |-> pushed[p]])

KnownAt == {Symbols[name] : name \in DOMAIN Symbols \cap VtableName}

HasKnown(object) == ~IsInline(object) /\ VtableAt[object] \in KnownAt

HasOther(object) == ~IsInline(object) /\ VtableAt[object] \notin KnownAt

\* The pushes that a wrong slide, d off, mistakes for other known vtables.
Mistaken(d) ==
  PushesOf(LAMBDA object : HasKnown(object) /\ VtableAt[object] - d \in KnownAt)

\* The slide is the one the library was loaded at whenever the known vtables
\* pushed outnumber the unknown ones, such as _dispatch_continuation_vtables,
\* together with those that any other slide would still find known: no
\* coincidence of addresses can then win, and continuations whose first word is
\* flags weigh nothing, however many there are (infer_slide).
SlideIsRight ==
  LET distances == {a - b : a, b \in KnownAt} \ {0} IN
  (/\ told # Pending
   /\ PushesOf(HasKnown) > PushesOf(HasOther)
   /\ \A d \in distances :
        PushesOf(HasKnown) > PushesOf(HasOther) + Mistaken(d))
    => told.outcome = "printed" /\ told.slide = slide

\* With the right slide every line printed is true: each row is a root and an
\* object that were pushed as often as it says, a root of the table has its
\* index, an object a name its vtable has, what lies inside a symbol that
\* symbol's, and the rows account for every whole line (root_label,
\* describe_vtable, nearest_symbol, parse_trace).
LabelsAreRight ==
  told.outcome = "printed" /\ told.slide = slide =>
    /\ SumFunction([p \in DOMAIN told.pushes |-> told.pushes[p].count])
         = SumFunction(pushed)
    /\ \A p \in DOMAIN told.pushes : \E root \in Root, object \in Object :
         LET row == told.pushes[p]
             inside(name) == Symbols[name] <= VtableAt[object]
         IN /\ p = <<RuntimeRoot(root), RuntimeVtable(object)>>
            /\ BagIn(<<root, object>>, pushed)
            /\ row.count = pushed[<<root, object>>]
            /\ (row.root.label \in {"named", "root"}) =>
                 RootAt[root] = row.root.index * ROOT_QUEUE_ENTRY_SIZE
            /\ HasKnown(object) =>
                 /\ row.object.delta = 0
                 /\ Symbols[row.object.name] = VtableAt[object]
            /\ HasOther(object) =>
                 \A name \in DOMAIN Symbols : inside(name) =>
                   Symbols[name] <= Symbols[row.object.name]
                     /\ inside(row.object.name)
            /\ IsInline(object) => row.object.name = "continuation-inline"
=============================================================================
