---------------------------- MODULE MacosSymbols ----------------------------
(***************************************************************************)
(* scripts/macos/check-m14-symbols.py: what a host shows of the symbols of  *)
(* the seam, through the SDK's stub libraries, dlsym and dtrace.            *)
(*                                                                          *)
(* A host is a record: what each tool answers when it is run ("absent" when *)
(* there is no such program), which libraries have a stub in the SDK, which *)
(* names the stubs list and which symbols the loader resolves. Version      *)
(* strings and pointers are left out.                                       *)
(***************************************************************************)
EXTENDS Naturals

CONSTANTS
  Symbol,       \* SYMBOLS, by their name in C
  Library,      \* where they live
  LibraryOf     \* "library" and "sdk_relpath" of a symbol

ASSUME SymbolsAssumption == LibraryOf \in [Symbol -> Library]

\* The name a symbol has in the source and the one the linker gives it.
Spelling == {"source", "macho"}

Answer == {"absent", "fails", "empty", "works"}

HostType ==
  [xcrun: Answer, dtrace: Answer, xctrace: Answer,
   stubs: SUBSET Library, lists: SUBSET (Symbol \X Spelling),
   resolves: SUBSET Symbol]

-----------------------------------------------------------------------------
(* Mutated form, a plausible bug; nothing uses it.                          *)

\* The SDK asked before the loader.
classify_traceability_sdk_first(source, macho, resolvable, accessible) ==
  IF source \/ macho THEN "sdk_exported_but_not_runtime_resolved"
  ELSE IF resolvable /\ accessible
    THEN "runtime_resolvable_and_dtrace_accessible"
  ELSE IF resolvable
    THEN "runtime_resolvable_but_dtrace_blocked_or_unavailable"
  ELSE "not_exported_in_stock_sdk"

-----------------------------------------------------------------------------
\* A program that cannot be started has no return code.
run_command(answer) ==
  [rc |-> IF answer = "absent" THEN "none"
          ELSE IF answer = "fails" THEN "nonzero" ELSE "zero",
   prints |-> answer = "works"]

\* Whether an SDK path is known.
find_sdk_path(host) ==
  run_command(host.xcrun).rc = "zero" /\ run_command(host.xcrun).prints

\* The text of the stub library, as the set of names it lists: empty when
\* there is no SDK or no such file in it.
load_tbd(host, symbol) ==
  IF find_sdk_path(host) /\ LibraryOf[symbol] \in host.stubs
  THEN {name \in host.lists : LibraryOf[name[1]] = LibraryOf[symbol]}
  ELSE {}

\* A whole word of the text.
has_token(text, symbol, spelling) == <<symbol, spelling>> \in text

runtime_lookup(host, symbol) == symbol \in host.resolves

classify_traceability(source, macho, resolvable, accessible) ==
  IF resolvable /\ accessible THEN "runtime_resolvable_and_dtrace_accessible"
  ELSE IF resolvable
    THEN "runtime_resolvable_but_dtrace_blocked_or_unavailable"
  ELSE IF source \/ macho THEN "sdk_exported_but_not_runtime_resolved"
  ELSE "not_exported_in_stock_sdk"

\* Names are looked for in what both lists print, whatever their return codes.
collect_xctrace_support(host) ==
  [available |-> host.xctrace # "absent",
   names_found |-> run_command(host.xctrace).prints]

dtrace_accessible(host) == run_command(host.dtrace).rc = "zero"

\* The file stock-symbols.json.
check_symbols(host) ==
  [dtrace_accessible |-> dtrace_accessible(host),
   xctrace |-> collect_xctrace_support(host),
   sdk |-> find_sdk_path(host),
   traceability |->
     [symbol \in Symbol |->
        LET text == load_tbd(host, symbol) IN
        classify_traceability(has_token(text, symbol, "source"),
                              has_token(text, symbol, "macho"),
                              runtime_lookup(host, symbol),
                              dtrace_accessible(host))]]

-----------------------------------------------------------------------------
\* How far up a symbol can be followed, by its class.
Reach(class) ==
  [not_exported_in_stock_sdk |-> 0,
   sdk_exported_but_not_runtime_resolved |-> 1,
   runtime_resolvable_but_dtrace_blocked_or_unavailable |-> 2,
   runtime_resolvable_and_dtrace_accessible |-> 3][class]

\* What works on one host works on the other.
Offers(more, less) ==
  /\ find_sdk_path(less) => find_sdk_path(more)
  /\ dtrace_accessible(less) => dtrace_accessible(more)
  /\ less.stubs \subseteq more.stubs
  /\ less.lists \subseteq more.lists
  /\ less.resolves \subseteq more.resolves
=============================================================================
