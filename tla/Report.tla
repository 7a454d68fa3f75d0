------------------------------- MODULE Report -------------------------------
(***************************************************************************)
(* action-svc/report: the daily report, two files a day, one for the       *)
(* important entries and one for the others.                               *)
(*                                                                         *)
(* A file is a sequence of blocks [of, whole, newlines]: the request an    *)
(* entry is of, whether all of it is there, and the newlines it ends in,   *)
(* those written to separate it from the next one included.                *)
(***************************************************************************)
EXTENDS Naturals, SequencesExt

\* A mutant: nothing is truncated.
TruncatedNever(n) == n

\* separatorFor: what is more than two newlines is truncated ...
Truncated(n) == IF n > 2 THEN 2 ELSE n

\* ... and what is missing to two is written before the entry.
Separated(n) == Truncated(n) + (IF Truncated(n) < 2 THEN 2 - Truncated(n) ELSE 0)

SetNewlines(file, n) ==
  IF file = <<>> THEN file ELSE [file EXCEPT ![Len(file)].newlines = n]

Newlines(file) == IF file = <<>> THEN 0 ELSE Last(file).newlines

AppendEntry(file, entry) ==
  Append(SetNewlines(file, Separated(Newlines(file))), entry)

\* What Append may leave behind when it fails: nothing, the truncated file,
\* newlines, or a part of the entry.
PartialAppends(file, entry) ==
  {file} \cup {SetNewlines(file, n) : n \in Truncated(Newlines(file))..2}
    \cup {AppendEntry(file, [entry EXCEPT !.whole = FALSE, !.newlines = n]) :
            n \in 0..1}

\* An entry starts a file, or follows exactly one blank line.
WellSeparated(file) ==
  \A i \in 1..(Len(file) - 1) : file[i].newlines = 2
=============================================================================
