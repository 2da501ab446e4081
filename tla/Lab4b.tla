-------------------------------- MODULE Lab4b --------------------------------
(***************************************************************************)
(* lab4b-sensor-communication/lab4b.c: a loop that reports the temperature  *)
(* every `period' seconds, obeys commands from the standard input, and      *)
(* ends on the command OFF or when the button is pressed.                   *)
(*                                                                         *)
(* The user types `script' piece by piece, presses and releases the button, *)
(* and time passes, all at any moment of the loop.                          *)
(***************************************************************************)
EXTENDS SensorLog

CONSTANTS CMDSIZE,      \* size of cur_cmd, in pieces
          BUFSIZ,       \* size of read_command()'s buffer, above any script
          MaxPeriod,    \* bound: the greatest period
          ScaleArgs, PeriodArgs, LogArgs, \* the options it may be given
          Scripts,      \* what the user may type
          Leftovers     \* what read_command()'s buffer may first contain

ASSUME SizesAssumption == CMDSIZE \in Nat \ {0} /\ BUFSIZ \in Nat \ {0}
ASSUME PeriodsAssumption ==     \* 2 is the greatest value that atoi() returns
  MaxPeriod \in Nat /\ 2 <= MaxPeriod /\ PeriodArgs \subseteq 0..MaxPeriod
ASSUME OptionsAssumption == ScaleArgs \subseteq {"C", "F"} /\ LogArgs \subseteq BOOLEAN
ASSUME TextsAssumption ==
  /\ \A text \in Scripts : text \in Seq(STRING)
  /\ \A text \in Leftovers : text \in Seq(STRING) /\ Len(text) = BUFSIZ

VARIABLES prog,         \* the globals: see CommandReader, and out, the output
          pc,           \* where main() is
          elapsed,      \* seconds since last_measure, at most MaxPeriod + 1
          buf,          \* the stack memory under read_command()'s buffer
          stale,        \* history: data not of the read were taken for input
          script, typed, taken, \* what is typed, and how much of it is read
          eof,          \* the user closed the standard input
          button        \* 1 while the button is pressed

vars == <<prog, pc, elapsed, buf, stale, script, typed, taken, eof, button>>
input == <<buf, stale, taken>>
user == <<script, typed, eof, button>>

(* A mutated print_and_log that does not log.                               *)
print_only(p, entry) == [p EXCEPT !.out = WithEntry(@, entry)]

print_and_log(p, entry) == just_log([p EXCEPT !.out = WithEntry(@, entry)], entry)

CR == INSTANCE CommandReader

ASSUME NoNULAssumption ==       \* what is typed is text
  \A text \in Scripts : \A i \in DOMAIN text : text[i] # CR!NUL

(* get_args(): the globals after the options.                              *)
Globals ==
  [cur_cmd : {<<>>}, should_stop : {FALSE}, scale : ScaleArgs,
   period : PeriodArgs, should_log : LogArgs, log : {<<>>}, out : {<<>>},
   exit : {Running}]

(* last_measure is 0: the first report is due at once.                      *)
Init ==
  /\ prog \in Globals
  /\ pc = "init"
  /\ elapsed = MaxPeriod + 1
  /\ buf \in Leftovers
  /\ stale = FALSE
  /\ script \in Scripts
  /\ typed = 0 /\ taken = 0
  /\ eof = FALSE
  /\ button = 0

-----------------------------------------------------------------------------
(* The program.                                                            *)

(* init_sensors(): the button, then the thermometer.                       *)
InitSensors ==
  /\ pc = "init"
  /\ \/ /\ pc' = "report" /\ UNCHANGED prog
     \/ /\ pc' = "done" /\ prog' = myexit(prog, 1)
  /\ UNCHANGED <<elapsed, input, user>>

ReportDue == elapsed >= prog.period /\ ~prog.should_stop

(* A mutated ReportTemperature that ignores should_stop.                    *)
ReportAnyway ==
  /\ pc = "report"
  /\ pc' = "poll"
  /\ IF elapsed >= prog.period
       THEN prog' = CR!report_temp(prog) /\ elapsed' = 0
       ELSE UNCHANGED <<prog, elapsed>>
  /\ UNCHANGED <<input, user>>

ReportTemperature ==
  /\ pc = "report"
  /\ pc' = "poll"
  /\ IF ReportDue
       THEN prog' = CR!report_temp(prog) /\ elapsed' = 0
       ELSE UNCHANGED <<prog, elapsed>>
  /\ UNCHANGED <<input, user>>

Passes(seconds) == elapsed' = Min({elapsed + seconds, MaxPeriod + 1})

(* poll() waits one second for input.                                      *)
PollTimesOut ==
  /\ pc = "poll" /\ taken = typed /\ ~eof
  /\ pc' = "button"
  /\ Passes(1)
  /\ UNCHANGED <<prog, input, user>>

read_command ==
  LET data == SubSeq(script, taken + 1, Min({typed, taken + BUFSIZ}))
  IN  /\ pc = "poll" /\ taken < typed
      /\ buf' \in CR!Filled(buf, data)
      /\ taken' = taken + Len(data)
      /\ stale' = (stale \/ Len(CR!Text(buf')) > Len(data))
      /\ prog' = CR!obey(prog, buf')
      /\ pc' = IF prog'.exit = Running THEN "button" ELSE "done"
      /\ UNCHANGED <<elapsed, user>>

(* At the end of the input poll() returns at once and read() returns 0.     *)
ReadNothing ==
  /\ pc = "poll" /\ taken = typed /\ eof
  /\ pc' = "button"
  /\ UNCHANGED <<prog, elapsed, input, user>>

CheckButton ==
  /\ pc = "button"
  /\ IF button = 1
       THEN /\ prog' = myexit(print_and_log(prog, Shutdown), 0)
            /\ pc' = "done"
       ELSE pc' = "report" /\ UNCHANGED prog
  /\ UNCHANGED <<elapsed, input, user>>

main == \/ InitSensors \/ ReportTemperature
        \/ PollTimesOut \/ read_command \/ ReadNothing
        \/ CheckButton

-----------------------------------------------------------------------------
(* Its surroundings.                                                       *)

Type == /\ typed < Len(script) /\ ~eof
        /\ typed' = typed + 1
        /\ UNCHANGED <<prog, pc, elapsed, input, script, eof, button>>

CloseInput == /\ typed = Len(script) /\ ~eof
              /\ eof' = TRUE
              /\ UNCHANGED <<prog, pc, elapsed, input, script, typed, button>>

Press == /\ button' = 1 - button
         /\ UNCHANGED <<prog, pc, elapsed, input, script, typed, eof>>

Tick == /\ elapsed <= MaxPeriod
        /\ Passes(1)
        /\ UNCHANGED <<prog, pc, input, user>>

Next == main \/ Type \/ CloseInput \/ Press \/ Tick

Spec == Init /\ [][Next]_vars

(* The program is scheduled and the clock runs; the user owes it nothing.   *)
FairSpec == Spec /\ WF_vars(main) /\ WF_vars(Tick)

-----------------------------------------------------------------------------
(* A line never outgrows cur_cmd, the final NUL included (lab4b.c:125).     *)
CommandFits ==
  /\ Len(prog.cur_cmd) < CMDSIZE
  /\ prog.period \in 0..MaxPeriod /\ prog.exit \in {Running, 0, 1}
  /\ DOMAIN buf = 1..BUFSIZ

(* The lines obeyed are the lines typed, in order, each once, however the   *)
(* reads cut the input - as the log shows.                                  *)
LinesAreTheTypedOnes ==
  LET typedLines == CR!Lines(SubSeq(script, 1, taken))
  IN  prog.should_log =>
        /\ IsPrefix(Commands(prog.log), typedLines)
        /\ prog.exit = Running => Commands(prog.log) = typedLines

(* So it is as long as no read takes the remains of an earlier one, or of   *)
(* other stack contents, for input (lab4b.c:117).                           *)
LinesAreTheTypedOnesUnlessStale == ~stale => LinesAreTheTypedOnes

(* The log never shows a report between a STOP and the next START, nor one  *)
(* in another scale than the last SCALE command's - whatever was obeyed.    *)
(* The first scale is that of the options, the one of any report before the *)
(* first SCALE command.                                                     *)
ReportsObeyCommands ==
  \E scale \in {"C", "F"} : ReportsObey(prog.log, scale)

(* Exit status 0 comes with SHUTDOWN, printed once and last; the log, if    *)
(* there is one, ends with it too.                                          *)
ShutdownIsLast ==
  LET ends(file) == /\ \A i \in DOMAIN file :
                          file[i].kind = "shutdown" => i = Len(file)
                    /\ (prog.exit = 0) <=>
                          \E i \in DOMAIN file : file[i].kind = "shutdown"
  IN  ends(prog.out) /\ (prog.should_log => ends(prog.log))

(* An OFF line that was typed ends the program, as a button that stays      *)
(* pressed does; only a stale read can make the program miss the OFF.       *)
OffIsObeyed ==
  /\ (LET typedLines == CR!Lines(SubSeq(script, 1, typed))
      IN  \E k \in DOMAIN typedLines : typedLines[k] = OFF)
       ~> (prog.exit # Running \/ stale)
  /\ <>[](button = 1) => <>(prog.exit # Running)
=============================================================================
