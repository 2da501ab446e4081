-------------------------------- MODULE Bash --------------------------------
(***************************************************************************)
(* The /bin/bash that lab1a.c and lab1b-server.c start, and the two pipes   *)
(* between it and its parent.  External: any shell that reads its input a   *)
(* character at a time, prints something for a line, and ends at the end    *)
(* of its input, at an exit command, when interrupted, or when nobody reads *)
(* what it prints.                                                         *)
(***************************************************************************)
EXTENDS Integers, Sequences, FiniteSets

CONSTANTS PIPESIZE,     \* what a pipe holds
          Output        \* what it prints, piece by piece; its length is a bound

ASSUME OutputAssumption == Output \in Seq(STRING)

VARIABLE shell          \* a record:
  \* alive, reaped: is it running, has it been waited for
  \* sigint: a SIGINT is pending
  \* in, eof: the pipe to the shell, and whether its writing end is closed
  \* out, served: the pipe from it, and whether its reading end is open
  \* todo: what the running command has still to print
  \* got, printed: all it has read and printed

NL == "\n"
ETX == "^C"
EOT == "^D"
NUL == "^@"

ShellInit ==
  shell = [alive |-> TRUE, reaped |-> FALSE, sigint |-> FALSE,
           in |-> <<>>, eof |-> FALSE, out |-> <<>>, served |-> TRUE,
           todo |-> <<>>, got |-> <<>>, printed |-> <<>>]

Ended(sh) == [sh EXCEPT !.alive = FALSE, !.todo = <<>>, !.in = <<>>]

Room(pipe) == Len(pipe) < PIPESIZE
Blocked == shell.alive /\ shell.todo # <<>> /\ ~Room(shell.out) /\ shell.served

(* A command prints the next pieces, with an EOT after them perhaps; exit   *)
(* ends the shell.                                                         *)
Outputs ==
  LET n == Cardinality({i \in DOMAIN shell.printed : shell.printed[i] # EOT})
      next == {SubSeq(Output, n + 1, m) : m \in n..Len(Output)}
  IN  next \cup {Append(out, EOT) : out \in next}

ShellReads ==
  /\ shell.alive /\ shell.todo = <<>> /\ shell.in # <<>>
  /\ LET after == [shell EXCEPT !.got = Append(@, Head(shell.in)),
                                !.in = Tail(@)]
     IN  IF Head(shell.in) = NL
           THEN \/ \E out \in Outputs : shell' = [after EXCEPT !.todo = out]
                \/ shell' = Ended(after)
           ELSE shell' = after

ShellPrints ==
  /\ shell.alive /\ shell.todo # <<>> /\ shell.served /\ Room(shell.out)
  /\ shell' = [shell EXCEPT !.out = Append(@, Head(shell.todo)),
                            !.printed = Append(@, Head(shell.todo)),
                            !.todo = Tail(@)]

ShellEnds ==
  /\ shell.alive
  /\ \/ shell.eof /\ shell.in = <<>> /\ shell.todo = <<>>
     \/ ~shell.served /\ shell.todo # <<>>
     \/ shell.sigint
  /\ shell' = Ended(shell)

ShellStep == ShellReads \/ ShellPrints \/ ShellEnds

(* What it can be relied on to do: an interrupt waits for the command that  *)
(* is running, if that command does not die of it.                         *)
ShellGoesOn == ShellStep /\ ~(ShellEnds /\ Blocked)
=============================================================================
