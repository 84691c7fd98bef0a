------------------------------ MODULE MacosLog ------------------------------
(***************************************************************************)
(* The log of a macOS workload, as the two extractors of scripts/macos read *)
(* it: JSON lines, in the order they were written. A line is a record of    *)
(* the fields that are read; data maps the names of integer values to them. *)
(* A line that something else written to the same file has run into does    *)
(* not parse, and is skipped.                                               *)
(*                                                                          *)
(* A list made of some lines of a log is the set of their numbers, one made *)
(* from them a function on those numbers: both keep the order of the log.   *)
(***************************************************************************)
EXTENDS Integers, Sequences, FiniteSetsExt, Functions

Line(status, phase, data) ==
  [readable |-> TRUE, status |-> status, phase |-> phase, data |-> data]

\* An absent entry of a dictionary, or null.
Nothing == <<>>

\* A dictionary with more entries.
With(data, more) ==
  [key \in DOMAIN data \cup DOMAIN more |->
     IF key \in DOMAIN data THEN data[key] ELSE more[key]]

parse_json_lines(lines) == {i \in DOMAIN lines : lines[i].readable}

\* A lane writes its rounds in order, so sorting them by round changes nothing.
phase_index(lines, phase) ==
  {i \in parse_json_lines(lines) : lines[i].phase = phase}

\* The last line that is not progress.
terminal(lines) ==
  LET ends == {i \in parse_json_lines(lines) : lines[i].status # "progress"}
  IN IF ends = {} THEN Nothing ELSE lines[Max(ends)]

\* Mean (as a fraction), minimum and maximum of the values of a function.
Statistics(values) ==
  [mean |-> [n |-> SumFunction(values), d |-> Cardinality(DOMAIN values)],
   min |-> Min(Range(values)),
   max |-> Max(Range(values))]

Less(a, b) == a.n * b.d < b.n * a.d

AtMost(a, b) == ~Less(b, a)

Whole(n) == [n |-> n, d |-> 1]
=============================================================================
