-------------------------------- MODULE Lab4c --------------------------------
(***************************************************************************)
(* lab4c-IoT-secure_communication/lab4c_tcp.c and lab4c_tls.c: the sensor   *)
(* of lab4b made a client.  It connects to a server, sends its ID, and then *)
(* sends its reports to the server and obeys the commands that come from    *)
(* there.  The two programs differ in what they do about a failed write.    *)
(*                                                                         *)
(* The server sends `script' piece by piece and may hang up at any moment.  *)
(***************************************************************************)
EXTENDS SensorLog

CONSTANTS CMDSIZE,      \* size of cur_cmd, in pieces
          BUFSIZ,       \* size of read_command()'s buffer, above any script
          MaxPeriod,    \* bound: the greatest period
          PeriodArgs,   \* the values of --period considered
          Scripts       \* what the server may send

ASSUME SizesAssumption == CMDSIZE \in Nat \ {0} /\ BUFSIZ \in Nat \ {0}
ASSUME PeriodsAssumption == MaxPeriod \in Nat /\ PeriodArgs \subseteq Nat
ASSUME TextsAssumption == \A text \in Scripts : text \in Seq(STRING)

VARIABLES tls,          \* TRUE: lab4c_tls, FALSE: lab4c_tcp
          prog,         \* the globals: see CommandReader; out, what was
                        \* written, and conn, the state of the socket
          pc,           \* where main() is
          revents,      \* poll() found the socket readable
          elapsed,      \* seconds since last_measure, at most MaxPeriod + 1
          buf,          \* the stack memory under read_command()'s buffer
          stale,        \* history: data not of the read were taken for input
          script, sent, taken   \* what the server sends; how much is read

vars == <<tls, prog, pc, revents, elapsed, buf, stale, script, sent, taken>>
input == <<buf, stale, taken>>
server == <<tls, script, sent>>

SIGSEGV == 139          \* statuses of a killed process
SIGPIPE == 141
Identity == [kind |-> "id", text |-> <<>>]      \* the line ID=...

(* conn is "open"; "closed" by the server; "written" when data were sent    *)
(* to it all the same, and "broken" once it has refused them: the next      *)
(* write raises SIGPIPE.  A server that goes away without reading what it   *)
(* was sent leaves the connection "reset": the next read or write fails,    *)
(* and only then is it "broken".                                           *)

(* The socket takes what is written to it until it has been refused.        *)
Accepts(p) == p.conn \in {"open", "closed", "written"}

written(p, entry) ==
  [p EXCEPT !.out = WithEntry(@, entry),
            !.conn = IF @ = "closed" THEN "written" ELSE @]

(* lab4c_tls looks at the result of SSL_write().                            *)
SSL_write(p, entry) ==
  CASE Accepts(p)         -> written(p, entry)
    [] p.conn = "reset"   -> myexit(p, 2)
    [] p.conn = "broken"  -> myexit(p, SIGPIPE)

(* A mutated dprintf for a program in which SIGPIPE is ignored.             *)
dprintf_no_signal(p, entry) ==
  IF Accepts(p) THEN written(p, entry) ELSE [p EXCEPT !.conn = "broken"]

(* lab4c_tcp does not look at the result of dprintf().                      *)
dprintf(p, entry) ==
  CASE Accepts(p)         -> written(p, entry)
    [] p.conn = "reset"   -> [p EXCEPT !.conn = "broken"]
    [] p.conn = "broken"  -> myexit(p, SIGPIPE)

put(p, entry) == IF tls THEN SSL_write(p, entry) ELSE dprintf(p, entry)

(* A mutated print_and_log that logs before it writes.                      *)
log_and_print(p, entry) == put(just_log(p, entry), entry)

(* A mutated print_and_log that does not look at the result of SSL_write(). *)
print_unchecked(p, entry) ==
  IF p.conn = "reset" THEN just_log([p EXCEPT !.conn = "broken"], entry)
  ELSE LET q == put(p, entry)
       IN  IF q.exit = Running THEN just_log(q, entry) ELSE q

print_and_log(p, entry) ==
  LET q == put(p, entry)
  IN  IF q.exit = Running THEN just_log(q, entry) ELSE q

CR == INSTANCE CommandReader

(* get_args(): the log file is required.                                   *)
Globals ==
  [cur_cmd : {<<>>}, should_stop : {FALSE}, scale : {"F"},
   period : PeriodArgs, should_log : {TRUE}, log : {<<>>}, out : {<<>>},
   conn : {"open"}, exit : {Running}]

Init ==
  /\ tls \in BOOLEAN
  /\ prog \in Globals
  /\ pc = "connect"
  /\ revents = FALSE
  /\ elapsed = MaxPeriod + 1
  /\ buf = [i \in 1..BUFSIZ |-> CR!NUL]
  /\ stale = FALSE
  /\ script \in Scripts
  /\ sent = 0 /\ taken = 0

-----------------------------------------------------------------------------
(* The program.                                                            *)

Continue(label) == pc' = IF prog'.exit = Running THEN label ELSE "done"

init_sensors(p) == {p, myexit(p, 2)}

client_connect(p) == {p, myexit(p, 2)}

(* The same, ssl_init(), attach_ssl_to_socket() and init_sensors().  When   *)
(* the connection fails lab4c_tls shuts down an SSL that is NULL.           *)
ssl_connect(p) == client_connect(p) \cup {myexit(p, SIGSEGV)}

Connect ==
  /\ pc = "connect"
  /\ prog' \in IF tls THEN ssl_connect(prog) ELSE client_connect(prog)
  /\ Continue("identify")
  /\ UNCHANGED <<revents, elapsed, input, server>>

(* The line ID=... is sent, and not logged; lab4c_tcp prepares its sensor   *)
(* only then.                                                              *)
Identify ==
  /\ pc = "identify"
  /\ prog' \in IF tls THEN {SSL_write(prog, Identity)}
               ELSE init_sensors(dprintf(prog, Identity))
  /\ Continue("poll")
  /\ UNCHANGED <<revents, elapsed, input, server>>

(* poll() with timeout 0.  A connection that is not open is readable.       *)
Poll ==
  /\ pc = "poll"
  /\ revents' = (taken < sent \/ prog.conn # "open")
  /\ pc' = "report"
  /\ UNCHANGED <<prog, elapsed, input, server>>

ReportTemperature ==
  /\ pc = "report"
  /\ IF elapsed >= prog.period /\ ~prog.should_stop
       THEN prog' = CR!report_temp(prog) /\ elapsed' = 0
       ELSE UNCHANGED <<prog, elapsed>>
  /\ Continue("read")
  /\ UNCHANGED <<revents, input, server>>

(* read_command(), if poll() said so - before the report was made.          *)
read_command ==
  LET data == SubSeq(script, taken + 1, Min({sent, taken + BUFSIZ}))
  IN  /\ pc = "read" /\ revents /\ taken < sent
      /\ buf' \in CR!Filled(buf, data)
      /\ taken' = taken + Len(data)
      /\ stale' = (stale \/ Len(CR!Text(buf')) > Len(data))
      /\ prog' = CR!obey(prog, buf')
      /\ Continue("poll")
      /\ UNCHANGED <<revents, elapsed, server>>

(* Nothing to read: not polled for, the end of the input, or an error,      *)
(* which read_command() ignores.                                           *)
ReadNothing ==
  /\ pc = "read" /\ (revents => taken = sent)
  /\ prog' = IF revents /\ prog.conn = "reset"
               THEN [prog EXCEPT !.conn = "broken"] ELSE prog
  /\ pc' = "poll"
  /\ UNCHANGED <<revents, elapsed, input, server>>

main == \/ Connect \/ Identify
        \/ Poll \/ ReportTemperature \/ read_command \/ ReadNothing

-----------------------------------------------------------------------------
(* The server, the network and the clock.                                  *)

Send == /\ sent < Len(script) /\ prog.conn = "open"
        /\ pc \notin {"connect", "done"}
        /\ sent' = sent + 1
        /\ UNCHANGED <<tls, prog, pc, revents, elapsed, input, script>>

HangUp == /\ prog.conn = "open" /\ pc \notin {"connect", "done"}
          /\ \E how \in {"closed", "reset"} : prog' = [prog EXCEPT !.conn = how]
          /\ UNCHANGED <<pc, revents, elapsed, input, server>>

(* The server's host answers data for a closed connection with a reset.     *)
Reset == /\ prog.conn = "written" /\ pc # "done"
         /\ prog' = [prog EXCEPT !.conn = "broken"]
         /\ UNCHANGED <<pc, revents, elapsed, input, server>>

Tick == /\ elapsed <= MaxPeriod /\ pc # "done"
        /\ elapsed' = elapsed + 1
        /\ UNCHANGED <<prog, pc, revents, input, server>>

Terminated == pc = "done" /\ UNCHANGED vars

Next == main \/ Send \/ HangUp \/ Reset \/ Tick \/ Terminated

Spec == Init /\ [][Next]_vars

(* The program never blocks (poll() returns at once), the clock runs, and   *)
(* resets arrive; the server owes it nothing.                              *)
FairSpec == Spec /\ WF_vars(main) /\ WF_vars(Reset) /\ WF_vars(Tick)

-----------------------------------------------------------------------------
(* What was written when these lines were logged: the ID, and every line    *)
(* but the commands.                                                       *)
Said(log) ==
  LET after[i \in 0..Len(log)] ==
        IF i = 0 THEN <<Identity>>
        ELSE IF IsCommand(log[i]) THEN after[i - 1] ELSE WithEntry(after[i - 1], log[i])
  IN  after[Len(log)]

(* lab4c_tls logs exactly what it wrote: a write that fails ends it before  *)
(* the log, and nothing is written without being logged - but for the ID.   *)
(* lab4c_tcp does not look, and may log one line it could not send: the     *)
(* next one raises SIGPIPE.                                                *)
LoggedIsWritten ==
  IF tls THEN prog.out # <<>> => prog.out = Said(prog.log)
  ELSE prog.out \in {Said(prog.log), Front(Said(prog.log))}

(* When lab4c_tls ends with status 0 it has identified itself first and     *)
(* SHUTDOWN was its last word, written and logged; the OFF that made it say *)
(* so is the last command it obeyed.                                       *)
ZeroMeansShutdownSent ==
  prog.exit = 0 =>
    /\ prog.log[Len(prog.log)] = Shutdown
    /\ prog.log[Len(prog.log) - 1] = Command(OFF)
    /\ tls => prog.out[1] = Identity /\ Last(prog.out) = Shutdown

(* A client that has lost its server ends, in either program, as long as it *)
(* is reporting: the reports are the only way it notices.  After a STOP it  *)
(* would loop for ever.                                                    *)
LostServerEndsReporter ==
  prog.conn # "open" ~> (prog.exit # Running \/ prog.should_stop)

(* An OFF line the server has sent ends the program, unless a stale read    *)
(* spoils it.                                                              *)
OffIsObeyed ==
  (LET lines == CR!Lines(SubSeq(script, 1, sent))
   IN  \E k \in DOMAIN lines : lines[k] = OFF)
    ~> (prog.exit # Running \/ stale)

-----------------------------------------------------------------------------
(* What P4C_check.sh requires of a successful session: ID= is in the log.   *)
IdIsLogged == prog.exit = 0 => Identity \in Range(prog.log)
=============================================================================
