---------------------------- MODULE CommandReader ----------------------------
(***************************************************************************)
(* What lab4b.c, lab4c_tcp.c and lab4c_tls.c share: read_command() cuts     *)
(* what it read into lines and proc_cur_cmd() obeys each of them.  The      *)
(* functions are operators on the program's globals, kept in a record p:    *)
(*   cur_cmd      the line read so far          should_stop   after STOP    *)
(*   scale        "C" or "F"                    period        in seconds    *)
(*   should_log   --log given                   log           the log file  *)
(*   exit         status, Running until the program ends                   *)
(***************************************************************************)
EXTENDS SensorLog

CONSTANTS CMDSIZE,            \* size of the array cur_cmd, here in pieces
          print_and_log(_, _) \* the program's way to print an entry and log it

NUL == "nul"
Newline == "newline"
Blanks == {"blank"}

(* atoi() of the text after PERIOD=: 0 when it is no number.                *)
atoi(text) == CASE text[1] = "1" -> 1 [] text[1] = "2" -> 2 [] OTHER -> 0

report_temp(p) == print_and_log(p, Report(p.scale))

(* A mutated proc_cur_cmd that goes on after OFF.                           *)
proc_cur_cmd_stays(p) ==
  LET cmd == p.cur_cmd
      q == just_log(p, Command(cmd))
  IN  CASE cmd = OFF -> print_and_log(q, Shutdown)
        [] cmd = STOP -> [q EXCEPT !.should_stop = TRUE]
        [] cmd = START -> [q EXCEPT !.should_stop = FALSE]
        [] OTHER -> q

(* A LOG line, and every line that is no command, is logged and ignored.    *)
proc_cur_cmd(p) ==
  LET cmd == p.cur_cmd
      q == just_log(p, Command(cmd))
  IN  CASE cmd = OFF -> myexit(print_and_log(q, Shutdown), 0)
        [] cmd = STOP -> [q EXCEPT !.should_stop = TRUE]
        [] cmd = START -> [q EXCEPT !.should_stop = FALSE]
        [] cmd = SCALE("F") -> [q EXCEPT !.scale = "F"]
        [] cmd = SCALE("C") -> [q EXCEPT !.scale = "C"]
        [] Len(cmd) > 1 /\ cmd[1] = "PERIOD=" ->
             [q EXCEPT !.period = atoi(Tail(cmd))]
        [] OTHER -> q

(* A mutated read_char that lets a line fill all of cur_cmd.                *)
read_char_full(p, ch) ==
  IF p.exit # Running \/ (p.cur_cmd = <<>> /\ ch \in Blanks) THEN p
  ELSE IF ch = Newline THEN [proc_cur_cmd(p) EXCEPT !.cur_cmd = <<>>]
  ELSE IF Len(p.cur_cmd) > CMDSIZE - 1 THEN myexit(p, 1)
  ELSE [p EXCEPT !.cur_cmd = Append(@, ch)]

(* A mutated read_char that forgets to empty cur_cmd after a line.          *)
read_char_keeps(p, ch) ==
  IF p.exit # Running \/ (p.cur_cmd = <<>> /\ ch \in Blanks) THEN p
  ELSE IF ch = Newline THEN proc_cur_cmd(p)
  ELSE IF Len(p.cur_cmd) > CMDSIZE - 2 THEN myexit(p, 1)
  ELSE [p EXCEPT !.cur_cmd = Append(@, ch)]

(* One turn of the loop of read_command().                                 *)
read_char(p, ch) ==
  IF p.exit # Running \/ (p.cur_cmd = <<>> /\ ch \in Blanks) THEN p
  ELSE IF ch = Newline THEN [proc_cur_cmd(p) EXCEPT !.cur_cmd = <<>>]
  ELSE IF Len(p.cur_cmd) > CMDSIZE - 2 THEN myexit(p, 1)
  ELSE [p EXCEPT !.cur_cmd = Append(@, ch)]

(* read() overwrites the start of the buffer.  The rest is not written: it  *)
(* holds what an earlier call left there, unless other functions cleared    *)
(* that part of the stack.                                                 *)
Filled(buf, data) ==
  {data \o SubSeq(rest, Len(data) + 1, Len(buf)) :
     rest \in {buf, [i \in DOMAIN buf |-> NUL]}}

(* The loop runs to the first NUL of the buffer, wherever the data read     *)
(* end.  (A buffer with no NUL is not followed further.)                    *)
Text(buf) ==
  LET nul == SelectInSeq(buf, LAMBDA ch : ch = NUL)
  IN  IF nul = 0 THEN buf ELSE SubSeq(buf, 1, nul - 1)

(* The rest of read_command(), its buffer filled: one turn for each piece.  *)
(* (The one state after i turns stays in a set, which makes TLC compute it  *)
(* once.)                                                                  *)
obey(p, buf) ==
  LET text == Text(buf)
      after[i \in 0..Len(text)] ==
        IF i = 0 THEN {p} ELSE {read_char(q, text[i]) : q \in after[i-1]}
  IN  CHOOSE q \in after[Len(text)] : TRUE

-----------------------------------------------------------------------------
(* A reference definition: the complete lines of an input, without the      *)
(* blanks they start with.                                                 *)

Unindented(line) ==
  LET start == SelectInSeq(line, LAMBDA ch : ch \notin Blanks)
  IN  IF start = 0 THEN <<>> ELSE SubSeq(line, start, Len(line))

Lines(input) ==
  LET ends == InOrder(Len(input), {i \in DOMAIN input : input[i] = Newline})
      begin(k) == IF k = 1 THEN 1 ELSE ends[k - 1] + 1
  IN  [k \in DOMAIN ends |-> Unindented(SubSeq(input, begin(k), ends[k] - 1))]
=============================================================================
