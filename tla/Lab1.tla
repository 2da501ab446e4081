-------------------------------- MODULE Lab1 --------------------------------
(***************************************************************************)
(* A session of lab1: a user, lab1-IO/lab1b-client.c, the connection,       *)
(* lab1b-server.c and its shell; or, in mode "lab1a", the user in front of  *)
(* lab1a.c itself.  The user types the keys of a script at any speed, and   *)
(* may close the input at any moment.                                      *)
(***************************************************************************)
EXTENDS ShellServer

CONSTANTS Modes, Scripts

ASSUME SessionsAssumption ==
  /\ Modes \subseteq {"lab1a", "plain", "compress"}
  /\ \A keys \in Scripts : keys \in Seq(STRING \ {NUL})

VARIABLES cli,          \* the client, see Init
          script, typed \* what the user types, and how much of it is typed

vars == <<mode, shell, srv, conn, tty, hungup, shown, mangled, cli, script, typed>>

SIGPIPE == 141          \* the status of a process it has killed

Init ==
  /\ mode \in Modes
  /\ ShellInit /\ ServerInit
  /\ conn = Connected
  /\ tty = <<>> /\ hungup = FALSE /\ shown = <<>> /\ mangled = FALSE
  /\ cli = [pc |-> IF mode = "lab1a" THEN "absent" ELSE "loop",
            revents |-> {}, batch |-> <<>>, exit |-> Running]
  /\ script \in Scripts /\ typed = 0

-----------------------------------------------------------------------------
(* The client.                                                             *)

(* Its socket is closed when it ends, however it ends.                      *)
myexit(status) ==
  /\ cli' = [cli EXCEPT !.pc = "done", !.revents = {}, !.exit = status]
  /\ conn' = Closed(conn, "client", FALSE)

ClientEvents == {e \in {"socket", "socketHup", "stdin", "stdinHup"} :
                   CASE e = "socket"    -> Readable(conn, "client")
                     [] e = "socketHup" -> Lost(conn, "client")
                     [] e = "stdin"     -> tty # <<>>
                     [] e = "stdinHup"  -> hungup}

ClientPoll ==
  /\ cli.pc = "loop" /\ cli.revents = {} /\ ClientEvents # {}
  /\ cli' = [cli EXCEPT !.revents = ClientEvents]
  /\ UNCHANGED <<conn, tty, shown, mangled>>

ClientTurn(event) ==
  /\ cli.pc = "loop" /\ event \in cli.revents
  /\ event = "stdin" => "socket" \notin cli.revents

ClientSeen(event, label) ==
  cli' = [cli EXCEPT !.revents = @ \ {event}, !.pc = label]

(* read_socket() and read_batch_socket().                                   *)
ClientRead ==
  /\ ClientTurn("socket") /\ conn.queue["client"] # <<>>
  /\ \E n \in 1..Len(UpToBuffer(conn.queue["client"])) :
       LET chunk == Take(n, conn.queue["client"])
       IN  /\ conn' = Delivered(conn, "client", n)
           /\ IF mode = "plain"
                THEN /\ shown' = shown \o [i \in 1..n |-> chunk[i].data[1]]
                     /\ ClientSeen("socket", "loop") /\ UNCHANGED mangled
                ELSE /\ mangled' = (mangled \/ ~IsBatch(chunk))
                     /\ \E stuck \in StuckAfter(chunk) :
                          IF stuck THEN ClientSeen("socket", "inflate") /\ UNCHANGED shown
                          ELSE ClientSeen("socket", "loop") /\ shown' = shown \o Inflated(chunk)
  /\ UNCHANGED tty

(* A mutated read_socket() that takes the end of the file for no data.      *)
ClientReadNothing ==
  /\ ClientTurn("socket") /\ conn.queue["client"] = <<>>
  /\ ClientSeen("socket", "loop")
  /\ UNCHANGED <<conn, tty, shown, mangled>>

ClientReadEnd ==
  /\ ClientTurn("socket") /\ conn.queue["client"] = <<>>
  /\ myexit(IF conn.rst["client"] = "error" THEN 1 ELSE 0)
  /\ UNCHANGED <<tty, shown, mangled>>

(* read_batch_stdin(): it reads on until the batch holds an end of line, a  *)
(* ^C or a ^D, whatever comes from the server meanwhile; at the end of the  *)
(* input it reads on for ever.  The batch is sent by one write; a plain one *)
(* with the NUL behind it, whose length strlen() would not have counted.    *)
IsEnd(key) == key \in {NL, ETX, EOT}
ends(batch) == \E i \in DOMAIN batch : IsEnd(batch[i])
Singles(text) == [i \in DOMAIN text |-> Raw(text[i])]

(* A mutated write of strlen(batch) bytes, plain or not.                    *)
wired_strlen(batch) ==
  IF mode = "plain" THEN Singles(batch) ELSE <<Batch(batch)>>

wired(batch) ==
  IF mode = "plain" THEN Singles(Append(batch, NUL)) ELSE <<Batch(batch)>>

read_batch_stdin ==
  LET keys == UpToBuffer(tty)
      batch == cli.batch \o keys
  IN  /\ cli.pc = "line" \/ ClientTurn("stdin")
      /\ tty # <<>>
      /\ tty' = SubSeq(tty, Len(keys) + 1, Len(tty))
      /\ IF ~ends(batch)
           THEN /\ cli' = [cli EXCEPT !.revents = @ \ {"stdin"}, !.batch = batch, !.pc = "line"]
                /\ UNCHANGED conn
         ELSE IF Lost(conn, "client")
           THEN myexit(IF conn.rst["client"] = "error" THEN 1 ELSE SIGPIPE)
         ELSE /\ conn' = Written(conn, "client", wired(batch))
              /\ cli' = [cli EXCEPT !.revents = @ \ {"stdin"}, !.batch = <<>>, !.pc = "loop"]
      /\ UNCHANGED <<shown, mangled>>

ClientHangUp ==
  /\ cli.pc = "loop" /\ cli.revents # {}
  /\ cli.revents \subseteq {"socketHup", "stdinHup"}
  /\ myexit(0)
  /\ UNCHANGED <<tty, shown, mangled>>

ClientStep ==
  /\ \/ ClientPoll \/ ClientRead \/ ClientReadEnd
     \/ read_batch_stdin \/ ClientHangUp
  /\ UNCHANGED <<mode, shell, srv, hungup, script, typed>>

-----------------------------------------------------------------------------
(* The user and the network.                                               *)

Type ==
  /\ typed < Len(script) /\ ~hungup
  /\ typed' = typed + 1 /\ tty' = Append(tty, script[typed'])
  /\ UNCHANGED <<mode, shell, srv, conn, hungup, shown, mangled, cli, script>>

CloseInput ==
  /\ ~hungup /\ hungup' = TRUE
  /\ UNCHANGED <<mode, shell, srv, conn, tty, shown, mangled, cli, script, typed>>

Reset ==
  /\ \E s \in Sides : conn.rst[s] = "owed" /\ conn' = ResetArrived(conn, s)
  /\ UNCHANGED <<mode, shell, srv, tty, hungup, shown, mangled, cli, script, typed>>

Server == ServerStep /\ UNCHANGED <<cli, script, typed>>

rest == <<mode, srv, conn, tty, hungup, shown, mangled, cli, script, typed>>
Shell == ShellStep /\ UNCHANGED rest

Next == Server \/ ClientStep \/ Shell \/ Reset \/ Type \/ CloseInput

Spec == Init /\ [][Next]_vars

(* Every process runs, and resets arrive; the user owes nothing.            *)
FairSpec == /\ Spec
            /\ WF_vars(Server) /\ WF_vars(ClientStep) /\ WF_vars(Reset)
            /\ WF_vars(ShellGoesOn /\ UNCHANGED rest)

-----------------------------------------------------------------------------
(* Neither stream is lost, repeated or put out of order, however the reads  *)
(* cut it: the shell reads what was typed before a ^D (and the NULs behind  *)
(* the plain client's batches, which are set aside here, see below), and    *)
(* the user sees what it prints, all of it when server and client end with  *)
(* status 0 and the user has not closed the input.  (unzip() breaks this,   *)
(* and so does lab1a's ^C; a program that prints an EOT loses the rest.)    *)
Without(text, dropped) ==       \* the first n pieces of it, without dropped
  LET of[n \in 0..Len(text)] ==
        IF n = 0 THEN <<>>
        ELSE IF text[n] = dropped THEN of[n - 1]
        ELSE Append(of[n - 1], text[n])
  IN  of

(* What the shell should get of the first n keys, and what it got of them.  *)
Forwarded(n) ==
  IF mode = "lab1a" THEN Without(script, ETX)[n] ELSE Take(n, script)
Received ==
  IF mode = "plain" THEN Without(shell.got, NUL)[Len(shell.got)] ELSE shell.got

BeforeQuit(n) == \A i \in 1..n : script[i] # EOT

StreamsKept ==
  ~mangled /\ EOT \notin Range(shell.printed) =>
    /\ \E n \in 0..Len(script) : BeforeQuit(n) /\ IsPrefix(Received, Forwarded(n))
    /\ IsPrefix(shown, shell.printed)
    /\ srv.exit = 0 /\ (mode = "lab1a" \/ (cli.exit = 0 /\ ~hungup))
         /\ conn.rst["client"] = "no"
       => shown = shell.printed

(* The NULs are where the batches end, however the server's reads and the   *)
(* pipe cut them: each follows a key that ends a line, and the keys after   *)
(* such a one, fewer than a read takes, are followed by a NUL.              *)
NulAfterEachBatch ==
  LET got == shell.got
      Nul(i) == got[i] = NUL
  IN  /\ mode # "plain" => \A i \in DOMAIN got : ~Nul(i)
      /\ mode = "plain" => \A i \in DOMAIN got :
           /\ Nul(i) => \E k \in 1..(i - 1) :
                IsEnd(got[k]) /\ \A j \in k..(i - 1) : ~Nul(j)
           /\ IsEnd(got[i]) /\ i + BUFSIZE <= Len(got) =>
                \E j \in (i + 1)..(i + BUFSIZE) : Nul(j)

(* The server never leaves an unwaited-for shell behind, unless it has lost *)
(* the connection; then its status is 1.  lab1a never does.                *)
ShellCollected ==
  srv.exit # Running /\ ~shell.reaped =>
    mode # "lab1a" /\ srv.exit = 1 /\ Lost(conn, "server")

(* Server and shell wait for each other: the shell cannot print, and the    *)
(* server reads no output.                                                 *)
Jammed == Blocked /\ ((Writing /\ ~Room(shell.in)) \/ srv.pc = "wait")

(* A ^D that was typed ends the server, unless the two pipes fill up, the   *)
(* client is gone first, or unzip() spoils it.                             *)
QuitEndsServer ==
  (\E i \in 1..typed : script[i] = EOT)
    ~> (srv.exit # Running \/ Jammed \/ cli.exit # Running \/ mangled)

(* A shell that has ended, for whatever reason, ends the server, unless its *)
(* unzip() does not return from what a read has given it.                  *)
DeadShellEndsServer == ~shell.alive ~> (srv.exit # Running \/ srv.pc = "inflate")

(* The end of the server ends the client, unless the user has left a line   *)
(* unfinished or unzip() does not return.                                  *)
ServerEndReachesClient ==
  mode # "lab1a" /\ srv.exit # Running
    ~> (cli.exit # Running \/ cli.pc \in {"line", "inflate"})

(* lab1-IO/README: each batch is compressed and sent to the user.  So the   *)
(* client should be able to read it, at least when no EOT is among it.      *)
BatchesReachTheUser == cli.pc = "inflate" => EOT \in Range(shell.printed)
=============================================================================
