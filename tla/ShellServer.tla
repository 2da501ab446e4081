----------------------------- MODULE ShellServer -----------------------------
(***************************************************************************)
(* lab1-IO/lab1b-server.c, and lab1a.c with --shell, which has the same     *)
(* poll() loop around the same shell: what comes from the front - the       *)
(* socket, or lab1a's terminal - is forwarded to the shell, and what the    *)
(* shell prints is sent to the front.  Each read, each write and each       *)
(* system call that may wait is a step.                                    *)
(***************************************************************************)
EXTENDS Bash, Connection

VARIABLES mode,         \* "lab1a", or lab1b "plain" or with --"compress"
          srv,          \* see ServerInit
          conn,         \* the connection
          tty, hungup,  \* what was typed and not read; stdin has been closed
          shown,        \* what the user has been shown of the shell's output
          mangled       \* history: unzip() was given no batch, or lab1a
                        \* dropped what it had read with a ^C

Running == -1
ServerInit ==
  srv = [pc |-> "loop",         \* where fork_bash() is
         revents |-> {},        \* what poll() has found and is not yet seen to
         todo |-> <<>>,         \* the rest of the buffer in hand
         status |-> Running,    \* the argument of done()
         masked |-> FALSE,      \* in sigpipe_handler(): SIGPIPE is masked
         exit |-> Running]

(* The buffer in hand is worked off at label.                               *)
Handle(todo, label) ==
  srv' = [srv EXCEPT !.todo = todo, !.pc = IF todo = <<>> THEN "loop" ELSE label]

(* A mutated done() that does not close from_term.                          *)
DoneKeepsPipe(status, masked) ==
  /\ srv' = [srv EXCEPT !.pc = "last", !.todo = <<>>, !.revents = {},
                        !.status = status, !.masked = masked]
  /\ UNCHANGED shell

(* done(): from_term is closed, and what the shell has to say is sent.      *)
Done(status, masked) ==
  /\ srv' = [srv EXCEPT !.pc = "last", !.todo = <<>>, !.revents = {},
                        !.status = status, !.masked = masked]
  /\ shell' = [shell EXCEPT !.eof = TRUE]

Exit(status, collected) ==
  /\ srv' = [srv EXCEPT !.pc = "done", !.todo = <<>>, !.revents = {}, !.exit = status]
  /\ shell' = [shell EXCEPT !.eof = TRUE, !.served = FALSE, !.reaped = collected]

(* mywrite() to the front: then continues.  A terminal takes everything.    *)
Put(pieces, then) ==
  CASE mode = "lab1a" ->
         shown' = shown \o pieces[1].data /\ UNCHANGED conn /\ then
    [] mode # "lab1a" /\ ~Lost(conn, "server") ->
         conn' = Written(conn, "server", pieces) /\ UNCHANGED shown /\ then
    [] mode # "lab1a" /\ Lost(conn, "server") ->
         /\ conn' = ErrorDelivered(conn, "server") /\ UNCHANGED shown
         /\ IF conn.rst["server"] = "broken" /\ ~srv.masked
              THEN Done(0, TRUE) ELSE Exit(1, FALSE)

-----------------------------------------------------------------------------
(* The loop.                                                               *)

FrontReadable == IF mode = "lab1a" THEN tty # <<>> ELSE Readable(conn, "server")
FrontHungUp == IF mode = "lab1a" THEN hungup ELSE Lost(conn, "server")

Events == {e \in {"front", "frontHup", "shell", "shellHup"} :
             CASE e = "front"    -> FrontReadable
               [] e = "frontHup" -> FrontHungUp
               [] e = "shell"    -> shell.out # <<>>
               [] e = "shellHup" -> ~shell.alive}

Poll ==
  /\ srv.pc = "loop" /\ srv.revents = {} /\ Events # {}
  /\ srv' = [srv EXCEPT !.revents = Events]
  /\ UNCHANGED <<shell, conn, tty, shown, mangled>>

(* The loop's next event: the front, the shell, and then who has hung up.   *)
Turn(event) ==
  /\ srv.pc = "loop" /\ event \in srv.revents
  /\ event = "shell" => "front" \notin srv.revents
  /\ event = "frontHup" => srv.revents \cap {"front", "shell"} = {}
  /\ event = "shellHup" => srv.revents = {"shellHup"}

Seen(event, todo, label) ==
  srv' = [srv EXCEPT !.revents = @ \ {event}, !.todo = todo, !.pc = label]

read_stdin ==
  /\ Turn("front") /\ mode = "lab1a"
  /\ Seen("front", UpToBuffer(tty), "forward")
  /\ tty' = SubSeq(tty, Len(UpToBuffer(tty)) + 1, Len(tty))
  /\ UNCHANGED <<shell, conn, shown, mangled>>

(* read_socket() and read_batch_socket().  The end of the file is ignored.  *)
read_socket ==
  /\ Turn("front") /\ mode # "lab1a" /\ conn.queue["server"] # <<>>
  /\ \E n \in 1..Len(UpToBuffer(conn.queue["server"])) :
       LET chunk == Take(n, conn.queue["server"])
           data == Inflated(chunk)
       IN  /\ conn' = Delivered(conn, "server", n)
           /\ IF mode = "plain"
                THEN /\ Seen("front", [i \in 1..n |-> chunk[i].data[1]], "forward")
                     /\ UNCHANGED mangled
                ELSE /\ mangled' = (mangled \/ ~IsBatch(chunk))
                     /\ \E stuck \in StuckAfter(chunk) :
                          Seen("front", data, IF stuck THEN "inflate"
                                              ELSE IF data = <<>> THEN "loop" ELSE "forward")
  /\ UNCHANGED <<shell, tty, shown>>

ReadNothing ==
  /\ Turn("front") /\ mode # "lab1a" /\ conn.queue["server"] = <<>>
  /\ IF conn.rst["server"] = "error" THEN Exit(1, FALSE)
     ELSE Seen("front", <<>>, "loop") /\ UNCHANGED shell
  /\ UNCHANGED <<conn, tty, shown, mangled>>

(* A ^C interrupts the shell.  lab1a does not forward it, and loses what it *)
(* read with it: the result of kill() replaces the bound of its loop.       *)
Interrupt ==
  /\ srv.pc = "forward" /\ Head(srv.todo) = ETX
  /\ shell' = [shell EXCEPT !.sigint = shell.alive]
  /\ IF mode = "lab1a"
       THEN Handle(<<>>, "forward") /\ mangled' = (mangled \/ Len(srv.todo) > 1)
       ELSE Handle(srv.todo, "interrupted") /\ UNCHANGED mangled
  /\ UNCHANGED <<conn, tty, shown>>

Quit ==
  /\ srv.pc = "forward" /\ Head(srv.todo) = EOT
  /\ Done(0, srv.masked)
  /\ UNCHANGED <<conn, tty, shown, mangled>>

(* The write waits while the pipe is full, and raises SIGPIPE when the      *)
(* shell is gone.                                                          *)
Writing == \/ srv.pc = "forward" /\ Head(srv.todo) \notin {ETX, EOT}
           \/ srv.pc = "interrupted"

Forward ==
  /\ Writing /\ shell.alive /\ Room(shell.in)
  /\ shell' = [shell EXCEPT !.in = Append(@, Head(srv.todo))]
  /\ Handle(Tail(srv.todo), "forward")
  /\ UNCHANGED <<conn, tty, shown, mangled>>

(* A mutated server that has installed no handler.                          *)
sigpipe_default ==
  /\ Writing /\ ~shell.alive
  /\ Exit(141, FALSE)
  /\ UNCHANGED <<conn, tty, shown, mangled>>

sigpipe_handler ==
  /\ Writing /\ ~shell.alive
  /\ Done(IF mode = "lab1a" THEN 1 ELSE 0, TRUE)
  /\ UNCHANGED <<conn, tty, shown, mangled>>

(* read_bash() and read_batch_bash(): the buffer is read at once.           *)
read_bash ==
  /\ Turn("shell")
  /\ Seen("shell", UpToBuffer(shell.out), "reply")
  /\ shell' = [shell EXCEPT !.out = SubSeq(@, Len(srv'.todo) + 1, Len(@))]
  /\ UNCHANGED <<conn, tty, shown, mangled>>

(* An EOT in it is not sent, unless in a batch, and ends the program.       *)
Reply ==
  /\ srv.pc = "reply"
  /\ IF mode = "compress"
       THEN Put(<<Batch(srv.todo)>>,
                IF EOT \in Range(srv.todo) THEN Done(0, srv.masked)
                ELSE Handle(<<>>, "reply") /\ UNCHANGED shell)
     ELSE IF Head(srv.todo) = EOT THEN Done(0, srv.masked) /\ UNCHANGED <<conn, shown>>
     ELSE Put(<<Raw(Head(srv.todo))>>, Handle(Tail(srv.todo), "reply") /\ UNCHANGED shell)
  /\ UNCHANGED <<tty, mangled>>

FrontHangUp ==
  /\ Turn("frontHup")
  /\ Done(IF mode = "lab1a" THEN 1 ELSE 0, srv.masked)
  /\ UNCHANGED <<conn, tty, shown, mangled>>

(* A mutated loop that does not look at POLLHUP from the shell's pipe.      *)
ShellHangUpUnseen ==
  /\ Turn("shellHup")
  /\ Seen("shellHup", <<>>, "loop")
  /\ UNCHANGED <<shell, conn, tty, shown, mangled>>

ShellHangUp ==
  /\ Turn("shellHup")
  /\ Done(0, srv.masked)
  /\ UNCHANGED <<conn, tty, shown, mangled>>

-----------------------------------------------------------------------------
(* done(): last_read() until the shell has closed its output.  It sends raw *)
(* characters, with --compress too; an EOT is shown as ^D and ends it.      *)

last_read ==
  /\ srv.pc = "last" /\ srv.todo = <<>> /\ shell.out # <<>>
  /\ srv' = [srv EXCEPT !.todo = UpToBuffer(shell.out)]
  /\ shell' = [shell EXCEPT !.out = SubSeq(@, Len(srv'.todo) + 1, Len(@))]
  /\ UNCHANGED <<conn, tty, shown, mangled>>

LastWrite ==
  /\ srv.pc = "last" /\ srv.todo # <<>>
  /\ Put(<<Raw(Head(srv.todo))>>,
         /\ UNCHANGED shell
         /\ srv' = IF Head(srv.todo) = EOT THEN [srv EXCEPT !.pc = "wait", !.todo = <<>>]
                   ELSE [srv EXCEPT !.todo = Tail(@)])
  /\ UNCHANGED <<tty, mangled>>

WaitAfterEot ==
  /\ srv.pc = "wait" /\ ~shell.alive
  /\ Exit(srv.status, TRUE)
  /\ UNCHANGED <<conn, tty, shown, mangled>>

(* A mutated done() that does not call last_read().                         *)
FinishUnread ==
  /\ srv.pc = "last" /\ srv.todo = <<>> /\ ~shell.alive
  /\ Exit(srv.status, TRUE)
  /\ conn' = IF mode = "lab1a" THEN conn ELSE Closed(conn, "server", TRUE)
  /\ UNCHANGED <<tty, shown, mangled>>

(* shutdown(), which fails when the connection was lost, and waitpid().     *)
Finish ==
  /\ srv.pc = "last" /\ srv.todo = <<>> /\ shell.out = <<>> /\ ~shell.alive
  /\ CASE mode = "lab1a" -> Exit(srv.status, TRUE) /\ UNCHANGED conn
       [] mode # "lab1a" /\ Lost(conn, "server") -> Exit(1, FALSE) /\ UNCHANGED conn
       [] mode # "lab1a" /\ ~Lost(conn, "server") ->
            Exit(srv.status, TRUE) /\ conn' = Closed(conn, "server", TRUE)
  /\ UNCHANGED <<tty, shown, mangled>>

(* The shell has inherited the socket: it is closed when both have ended.   *)
LastClose ==
  /\ mode # "lab1a" /\ srv.exit # Running /\ ~shell.alive /\ ~conn.fin["server"]
  /\ conn' = Closed(conn, "server", FALSE)
  /\ UNCHANGED <<shell, srv, tty, shown, mangled>>

ServerStep ==
  /\ \/ Poll \/ read_stdin \/ read_socket \/ ReadNothing
     \/ Interrupt \/ Quit \/ Forward \/ sigpipe_handler
     \/ read_bash \/ Reply \/ FrontHangUp \/ ShellHangUp
     \/ last_read \/ LastWrite \/ WaitAfterEot \/ Finish \/ LastClose
  /\ UNCHANGED <<mode, hungup>>
=============================================================================
