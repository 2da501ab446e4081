------------------------------ MODULE SensorLog ------------------------------
(***************************************************************************)
(* What the lab4 programs write to their output and to the log file, as     *)
(* sequences of entries, and the globals' record p that CommandReader       *)
(* describes.                                                              *)
(***************************************************************************)
EXTENDS Integers, SequencesExt

Running == -1

(* A text is a sequence of pieces: "ST" and "OP" make STOP, "ST" and "ART"  *)
(* make START, so that a read can end in the middle of a command.           *)
OFF == <<"OFF">>
STOP == <<"ST", "OP">>
START == <<"ST", "ART">>
SCALE(s) == <<"SCALE=", s>>

(* Log entries: a command, a report in a scale, and the final SHUTDOWN.     *)
Command(line) == [kind |-> "command", text |-> line]
Report(s) == [kind |-> "report", text |-> <<s>>]
Shutdown == [kind |-> "shutdown", text |-> <<>>]

(* A file with an entry appended.  A run of equal reports is kept once:     *)
(* the readings are left out, and so the files stay finite.                 *)
WithEntry(file, entry) ==
  IF entry.kind = "report" /\ file # <<>> /\ Last(file) = entry
    THEN file ELSE Append(file, entry)

just_log(p, entry) ==
  IF p.should_log THEN [p EXCEPT !.log = WithEntry(@, entry)] ELSE p

myexit(p, status) ==
  IF p.exit = Running THEN [p EXCEPT !.exit = status] ELSE p

-----------------------------------------------------------------------------
(* What the lab4 properties say about a log.                                *)

IsCommand(entry) == entry.kind = "command"

(* The members of S among 1..n, in order.                                   *)
InOrder(n, S) ==
  LET upTo[i \in 0..n] ==
        IF i = 0 THEN <<>>
        ELSE IF i \in S THEN Append(upTo[i - 1], i) ELSE upTo[i - 1]
  IN  upTo[n]

Commands(file) ==
  LET at == InOrder(Len(file), {i \in DOMAIN file : IsCommand(file[i])})
  IN  [k \in DOMAIN at |-> file[at[k]].text]

(* The last of the lines `choices' among the first n entries, or `default'. *)
LastOf(file, n, choices, default) ==
  LET at == SelectLastInSubSeq(file, 1, n,
                               LAMBDA e : IsCommand(e) /\ e.text \in choices)
  IN  IF at = 0 THEN default ELSE file[at].text

(* No report follows a STOP without a START between them, and each is in    *)
(* the scale that the last SCALE command asked for.                         *)
ReportsObey(file, scale) ==
  \A i \in DOMAIN file :
     file[i].kind = "report" =>
       /\ LastOf(file, i, {STOP, START}, START) = START
       /\ file[i].text = Tail(LastOf(file, i, {SCALE("C"), SCALE("F")},
                                     SCALE(scale)))
=============================================================================
