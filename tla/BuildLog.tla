------------------------------ MODULE BuildLog ------------------------------
(***************************************************************************)
(* How workflows/build_metrics.py reads a job log: parse_log makes one     *)
(* entry per `bazel build' line, and parse_bazel_build_args takes the      *)
(* targets and the --config values from such a line.  Lines and arguments  *)
(* are known by their kind and their place, and what the code copies from  *)
(* one is known by the place it came from; 0 stands for nothing.           *)
(***************************************************************************)
EXTENDS Naturals, Sequences, FiniteSets, FiniteSetsExt, SequencesExt

-----------------------------------------------------------------------------
(* parse_log                                                               *)

LineKinds == {"build", "link", "info", "other"}

Finalized(builds, current) == IF current.build = 0 THEN builds ELSE Append(builds, current)

\* Mutant: the first cache-hit line counts.
CollectFirst(current, kind, n) ==
  IF current.build = 0 \/ current[kind] # 0 THEN current ELSE [current EXCEPT ![kind] = n]

\* Later links and cache-hit lines replace earlier ones.
Collect(current, kind, n) ==
  IF current.build = 0 THEN current ELSE [current EXCEPT ![kind] = n]

none == [build |-> 0, link |-> 0, info |-> 0]

\* One line.  A build line finalizes the entry before it.  (A line whose
\* arguments are refused ends the whole call with a ValueError.)
ReadLine(log, acc, n) ==
  CASE log[n] = "build" -> [builds |-> Finalized(acc.builds, acc.current),
                            current |-> [none EXCEPT !.build = n]]
    [] log[n] \in {"link", "info"} -> [acc EXCEPT !.current = Collect(@, log[n], n)]
    [] OTHER -> acc

parse_log(log) ==
  LET end == FoldLeft(LAMBDA acc, n : ReadLine(log, acc, n), [builds |-> <<>>, current |-> none],
                      [n \in 1..Len(log) |-> n])
  IN Finalized(end.builds, end.current)

\* The lines of a build go up to the next build line, whatever came between.
LinesOf(log, b) == {n \in b..Len(log) : \A m \in (b + 1)..n : log[m] # "build"}
LastOfKind(log, b, kind) == Max({n \in LinesOf(log, b) : log[n] = kind} \cup {0})

-----------------------------------------------------------------------------
(* parse_bazel_build_args                                                  *)

\* "--config" takes the next argument as its value, "--config=" has its own;
\* "file" and "file=" stand for the two forms of --target_pattern_file.
ArgKinds == {"--config", "--config=", "file", "file=", "target", "other"}

\* Mutant: the value of --config is looked at again.
TakeConfigOnce(args, s) ==
  [s EXCEPT !.configs = Append(@, s.i + 1), !.i = @ + 1]

TakeConfig(args, s) ==
  IF s.i = Len(args) THEN [s EXCEPT !.pc = "refused"]
  ELSE [s EXCEPT !.configs = Append(@, s.i + 1), !.i = @ + 2]

\* The file stands for all targets, and the function returns.
TakeFile(args, s) ==
  IF args[s.i] = "file=" THEN [s EXCEPT !.targets = <<s.i>>, !.pc = "returned"]
  ELSE IF s.i < Len(args) THEN [s EXCEPT !.targets = <<s.i + 1>>, !.pc = "returned"]
  ELSE [s EXCEPT !.pc = "refused"]

\* One turn of the loop.
Turn(args, s) ==
  IF s.pc # "parsing" THEN s
  ELSE IF s.i > Len(args) THEN [s EXCEPT !.pc = "returned"]
  ELSE CASE args[s.i] \in {"file", "file="} -> TakeFile(args, s)
         [] args[s.i] = "--config" -> TakeConfig(args, s)
         [] args[s.i] = "--config=" -> [s EXCEPT !.configs = Append(@, s.i), !.i = @ + 1]
         [] args[s.i] = "target" -> [s EXCEPT !.targets = Append(@, s.i), !.i = @ + 1]
         [] OTHER -> [s EXCEPT !.i = @ + 1]

parse_bazel_build_args(args) ==
  FoldLeft(LAMBDA s, n : Turn(args, s),
           [i |-> 1, targets |-> <<>>, configs |-> <<>>, pc |-> "parsing"],
           [n \in 1..(Len(args) + 1) |-> n])

\* The command line as Bazel splits it: an argument is the value of the one
\* before it if that is a flag that takes one, and no value itself.
IsValue(args) ==
  LET Value[n \in 0..Len(args)] ==
        n > 1 /\ args[n - 1] \in {"--config", "file"} /\ ~Value[n - 1]
  IN Value
OfKinds(args, K) == {n \in 1..Len(args) : args[n] \in K /\ ~IsValue(args)[n]}
ValuesOf(args, flag) == {n + 1 : n \in OfKinds(args, {flag})}
Configs(args) == OfKinds(args, {"--config="}) \cup ValuesOf(args, "--config")
Files(args) == OfKinds(args, {"file="}) \cup ValuesOf(args, "file")
=============================================================================
