----------------------------- MODULE Lab1_proof -----------------------------
(***************************************************************************)
(* Proofs about the sessions of lab1, for all scripts, outputs, sizes of    *)
(* buffers and pipes: the server collects its shell, and what is typed and  *)
(* printed arrives as it was sent.                                         *)
(*                                                                         *)
(* The second is the longer.  The keys typed (with the NULs that the plain  *)
(* client sends behind its batches), and what the shell prints, are each    *)
(* cut by a few places into what has arrived and what is in each buffer on  *)
(* the way, and every step moves these places (StreamsInv).                *)
(***************************************************************************)
EXTENDS Lab1, FiniteSetTheorems, NaturalsInduction, WellFoundedInduction, TLAPS

(* The fields the argument needs.  A connection once lost stays lost, so     *)
(* that ShellCollected needs only that an ended server takes no more steps. *)
ConnShape(c) == {"queue", "fin", "rst"} \subseteq DOMAIN c /\ DOMAIN c.rst = Sides
Shape == /\ {"pc", "exit"} \subseteq DOMAIN srv
         /\ "reaped" \in DOMAIN shell
         /\ ConnShape(conn)

EndedMeansDone == srv.exit # Running => srv.pc = "done"

Inv == Shape /\ EndedMeansDone /\ ShellCollected

-----------------------------------------------------------------------------
(* The connection: what each operation leaves of its shape, and that none   *)
(* makes it whole again.                                                   *)

StaysLost(c, d) == ConnShape(d) /\ (Lost(c, "server") => Lost(d, "server"))

LEMMA WrittenStays ==
  ASSUME NEW c, NEW s \in Sides, NEW pieces, ConnShape(c)
  PROVE  StaysLost(c, Written(c, s, pieces))
BY DEF StaysLost, ConnShape, Lost, Written, Sides, Peer

LEMMA DeliveredStays ==
  ASSUME NEW c, NEW s \in Sides, NEW n, ConnShape(c)
  PROVE  StaysLost(c, Delivered(c, s, n))
BY DEF StaysLost, ConnShape, Lost, Delivered, Sides

LEMMA ErrorDeliveredStays ==
  ASSUME NEW c, NEW s \in Sides, ConnShape(c)
  PROVE  StaysLost(c, ErrorDelivered(c, s))
BY DEF StaysLost, ConnShape, Lost, ErrorDelivered, Sides

LEMMA ResetArrivedStays ==
  ASSUME NEW c, NEW s \in Sides, ConnShape(c)
  PROVE  StaysLost(c, ResetArrived(c, s))
BY DEF StaysLost, ConnShape, Lost, ResetArrived, Sides

LEMMA ClosedStays ==
  ASSUME NEW c, NEW s \in Sides, NEW politely, ConnShape(c)
  PROVE  StaysLost(c, Closed(c, s, politely))
BY DEF StaysLost, ConnShape, Lost, Closed, Sides, Peer

LEMMA LostAfterError ==
  ASSUME NEW c, ConnShape(c)
  PROVE  Lost(ErrorDelivered(c, "server"), "server")
BY DEF ConnShape, Lost, ErrorDelivered, Sides

-----------------------------------------------------------------------------
(* A step of a server that has not ended is well done when it goes on, or   *)
(* ends with its shell collected or its connection lost.                   *)

Collects == \/ shell'.reaped
            \/ mode' # "lab1a" /\ srv'.exit = 1 /\ Lost(conn, "server")'
WellDone == /\ Shape'
            /\ srv'.exit = Running \/ (srv'.pc = "done" /\ Collects)

LEMMA WellDoneKeepsInv == WellDone => Inv'
BY DEF WellDone, Collects, Inv, EndedMeansDone, ShellCollected

(* The server goes on, whatever it does to its own variables.               *)
LEMMA GoingOn ==
  ASSUME Shape, srv.exit = Running, ConnShape(conn)',
         {"pc", "exit"} \subseteq DOMAIN srv', srv'.exit = srv.exit,
         "reaped" \in DOMAIN shell'
  PROVE  WellDone
BY DEF Shape, WellDone

LEMMA HandleGoesOn ==
  ASSUME Shape, NEW todo, NEW label, Handle(todo, label)
  PROVE  {"pc", "exit"} \subseteq DOMAIN srv' /\ srv'.exit = srv.exit
BY DEF Shape, Handle

LEMMA SeenGoesOn ==
  ASSUME Shape, NEW event, NEW todo, NEW label, Seen(event, todo, label)
  PROVE  {"pc", "exit"} \subseteq DOMAIN srv' /\ srv'.exit = srv.exit
BY DEF Shape, Seen

LEMMA DoneGoesOn ==
  ASSUME Shape, NEW status, NEW masked, Done(status, masked)
  PROVE  /\ {"pc", "exit"} \subseteq DOMAIN srv' /\ srv'.exit = srv.exit
         /\ "reaped" \in DOMAIN shell'
BY DEF Shape, Done

LEMMA ExitEnds ==
  ASSUME Shape, NEW status, NEW collected, Exit(status, collected)
  PROVE  /\ {"pc", "exit"} \subseteq DOMAIN srv'
         /\ srv'.pc = "done" /\ srv'.exit = status
         /\ "reaped" \in DOMAIN shell' /\ shell'.reaped = collected
BY DEF Shape, Exit

(* mywrite(): what follows it, or an end with the connection lost.          *)
LEMMA PutIsWellDone ==
  ASSUME Shape, srv.exit = Running, mode' = mode, NEW pieces, NEW then \in BOOLEAN,
         then => {"pc", "exit"} \subseteq DOMAIN srv' /\ srv'.exit = srv.exit
                 /\ "reaped" \in DOMAIN shell',
         Put(pieces, then)
  PROVE  WellDone
<1>1. CASE mode = "lab1a"
  BY <1>1, GoingOn DEF Put, Shape
<1>2. CASE mode # "lab1a" /\ ~Lost(conn, "server")
  <2>1. ConnShape(conn') /\ then
    BY <1>2, WrittenStays DEF Put, Shape, StaysLost, Sides
  <2>2. QED BY <2>1, GoingOn
<1>3. CASE mode # "lab1a" /\ Lost(conn, "server")
  <2>1. /\ conn' = ErrorDelivered(conn, "server")
        /\ Done(0, TRUE) \/ Exit(1, FALSE)
    BY <1>3 DEF Put
  <2>2. ConnShape(conn') /\ Lost(conn', "server")
    BY <2>1, ErrorDeliveredStays, LostAfterError DEF Shape, StaysLost, Sides
  <2>3. CASE Done(0, TRUE)
    BY <2>2, <2>3, DoneGoesOn, GoingOn
  <2>4. CASE Exit(1, FALSE)
    BY <1>3, <2>2, <2>4, ExitEnds DEF WellDone, Shape, Collects
  <2>5. QED BY <2>1, <2>3, <2>4
<1>4. QED BY <1>1, <1>2, <1>3

-----------------------------------------------------------------------------
(* The server's actions, those first that leave the connection alone.       *)

LEMMA QuietSteps ==
  ASSUME Inv, mode' = mode,
         \/ Poll \/ read_stdin \/ Interrupt \/ Quit \/ Forward \/ sigpipe_handler
         \/ read_bash \/ FrontHangUp \/ ShellHangUp \/ last_read
  PROVE  WellDone
<1>1. Shape /\ ConnShape(conn) /\ (srv.pc # "done" => srv.exit = Running)
  BY DEF Inv, Shape, EndedMeansDone
<1>2. ASSUME srv.exit = Running, conn' = conn, {"pc", "exit"} \subseteq DOMAIN srv',
             srv'.exit = srv.exit, "reaped" \in DOMAIN shell'
      PROVE  WellDone
  BY <1>1, <1>2, GoingOn
<1>3. CASE Poll
  BY <1>1, <1>2, <1>3 DEF Poll, Shape
<1>4. CASE read_stdin
  BY <1>1, <1>2, <1>4, SeenGoesOn DEF read_stdin, Turn, Shape
<1>5. CASE Interrupt
  BY <1>1, <1>2, <1>5, HandleGoesOn DEF Interrupt, Shape
<1>6. CASE Quit
  BY <1>1, <1>2, <1>6, DoneGoesOn DEF Quit
<1>7. CASE Forward
  BY <1>1, <1>2, <1>7, HandleGoesOn DEF Forward, Writing, Shape
<1>8. CASE sigpipe_handler
  BY <1>1, <1>2, <1>8, DoneGoesOn DEF sigpipe_handler, Writing
<1>9. CASE read_bash
  BY <1>1, <1>2, <1>9, SeenGoesOn DEF read_bash, Turn, Shape
<1>10. CASE FrontHangUp
  BY <1>1, <1>2, <1>10, DoneGoesOn DEF FrontHangUp, Turn
<1>11. CASE ShellHangUp
  BY <1>1, <1>2, <1>11, DoneGoesOn DEF ShellHangUp, Turn
<1>12. CASE last_read
  BY <1>1, <1>2, <1>12 DEF last_read, Shape
<1>13. QED
  BY <1>3, <1>4, <1>5, <1>6, <1>7, <1>8, <1>9, <1>10, <1>11, <1>12

LEMMA SocketSteps ==
  ASSUME Inv, mode' = mode, read_socket \/ ReadNothing
  PROVE  WellDone
<1>1. /\ Shape /\ ConnShape(conn) /\ srv.exit = Running /\ mode # "lab1a"
      /\ "server" \in Sides
  BY DEF Inv, Shape, EndedMeansDone, read_socket, ReadNothing, Turn, Sides
<1>2. CASE read_socket
  <2>1. PICK n : conn' = Delivered(conn, "server", n)
    BY <1>2 DEF read_socket
  <2>2. {"pc", "exit"} \subseteq DOMAIN srv' /\ srv'.exit = srv.exit
    BY <1>1, <1>2, SeenGoesOn DEF read_socket
  <2>3. shell' = shell
    BY <1>2 DEF read_socket
  <2>4. ConnShape(conn')
    BY <1>1, <2>1, DeliveredStays DEF StaysLost
  <2>5. QED BY <1>1, <2>2, <2>3, <2>4, GoingOn DEF Shape
<1>3. CASE ReadNothing
  <2>1. CASE conn.rst["server"] = "error"
    <3>1. Exit(1, FALSE) /\ conn' = conn
      BY <1>3, <2>1 DEF ReadNothing
    <3>2. Lost(conn, "server")'
      BY <2>1, <3>1 DEF Lost
    <3>3. QED BY <1>1, <3>1, <3>2, ExitEnds DEF WellDone, Shape, Collects
  <2>2. CASE conn.rst["server"] # "error"
    BY <1>1, <1>3, <2>2, SeenGoesOn, GoingOn DEF ReadNothing, Shape
  <2>3. QED BY <2>1, <2>2
<1>4. QED BY <1>2, <1>3

LEMMA WritingSteps ==
  ASSUME Inv, mode' = mode, Reply \/ LastWrite
  PROVE  WellDone
<1>1. Shape /\ ConnShape(conn) /\ srv.exit = Running
  BY DEF Inv, Shape, EndedMeansDone, Reply, LastWrite
<1>2. CASE Reply
  <2>1. CASE mode = "compress"
    <3> DEFINE then == IF EOT \in Range(srv.todo) THEN Done(0, srv.masked)
                       ELSE Handle(<<>>, "reply") /\ UNCHANGED shell
    <3>1. Put(<<Batch(srv.todo)>>, then)
      BY <1>2, <2>1 DEF Reply
    <3>2. then => /\ {"pc", "exit"} \subseteq DOMAIN srv' /\ srv'.exit = srv.exit
                  /\ "reaped" \in DOMAIN shell'
      BY <1>1, DoneGoesOn, HandleGoesOn DEF Shape
    <3>3. then \in BOOLEAN
      BY DEF Done, Handle
    <3>4. QED BY <1>1, <3>1, <3>2, <3>3, PutIsWellDone
  <2>2. CASE mode # "compress" /\ Head(srv.todo) = EOT
    BY <1>1, <1>2, <2>2, DoneGoesOn, GoingOn DEF Reply
  <2>3. CASE mode # "compress" /\ Head(srv.todo) # EOT
    <3> DEFINE then == Handle(Tail(srv.todo), "reply") /\ UNCHANGED shell
    <3>1. Put(<<Raw(Head(srv.todo))>>, then)
      BY <1>2, <2>3 DEF Reply
    <3>2. then => /\ {"pc", "exit"} \subseteq DOMAIN srv' /\ srv'.exit = srv.exit
                  /\ "reaped" \in DOMAIN shell'
      BY <1>1, HandleGoesOn DEF Shape
    <3>3. then \in BOOLEAN
      BY DEF Handle
    <3>4. QED BY <1>1, <3>1, <3>2, <3>3, PutIsWellDone
  <2>4. QED BY <2>1, <2>2, <2>3
<1>3. CASE LastWrite
  <2> DEFINE then == /\ UNCHANGED shell
                     /\ srv' = IF Head(srv.todo) = EOT
                                 THEN [srv EXCEPT !.pc = "wait", !.todo = <<>>]
                               ELSE [srv EXCEPT !.todo = Tail(@)]
  <2>1. Put(<<Raw(Head(srv.todo))>>, then)
    BY <1>3 DEF LastWrite
  <2>2. then => /\ {"pc", "exit"} \subseteq DOMAIN srv' /\ srv'.exit = srv.exit
                /\ "reaped" \in DOMAIN shell'
    BY <1>1 DEF Shape
  <2>3. then \in BOOLEAN
    OBVIOUS
  <2>4. QED BY <1>1, <2>1, <2>2, <2>3, PutIsWellDone
<1>4. QED BY <1>2, <1>3

LEMMA LastSteps ==
  ASSUME Inv, mode' = mode, WaitAfterEot \/ Finish
  PROVE  WellDone
<1>1. Shape /\ ConnShape(conn) /\ srv.exit = Running /\ "server" \in Sides
  BY DEF Inv, Shape, EndedMeansDone, WaitAfterEot, Finish, Sides
<1>2. CASE WaitAfterEot
  BY <1>1, <1>2, ExitEnds DEF WaitAfterEot, WellDone, Shape, Collects
<1>3. CASE Finish
  <2>1. CASE mode # "lab1a" /\ Lost(conn, "server")
    <3>1. Exit(1, FALSE) /\ conn' = conn
      BY <1>3, <2>1 DEF Finish
    <3>2. Lost(conn, "server")'
      BY <2>1, <3>1 DEF Lost
    <3>3. QED BY <1>1, <2>1, <3>1, <3>2, ExitEnds DEF WellDone, Shape, Collects
  <2>2. CASE mode = "lab1a" \/ ~Lost(conn, "server")
    <3>1. /\ Exit(srv.status, TRUE)
          /\ conn' = conn \/ conn' = Closed(conn, "server", TRUE)
      BY <1>3, <2>2 DEF Finish
    <3>2. ConnShape(conn')
      BY <1>1, <3>1, ClosedStays DEF StaysLost
    <3>3. QED BY <1>1, <3>1, <3>2, ExitEnds DEF WellDone, Shape, Collects
  <2>3. QED BY <2>1, <2>2
<1>4. QED BY <1>2, <1>3

-----------------------------------------------------------------------------
(* Everybody else leaves the server alone, and a lost connection lost.      *)

LEMMA OthersKeepInv ==
  ASSUME Inv, mode' = mode, srv' = srv, StaysLost(conn, conn'),
         "reaped" \in DOMAIN shell', shell'.reaped = shell.reaped
  PROVE  Inv'
<1>1. Shape' /\ EndedMeansDone'
  BY DEF Inv, Shape, EndedMeansDone, StaysLost
<1>2. ShellCollected'
  BY DEF Inv, ShellCollected, StaysLost, Lost
<1>3. QED BY <1>1, <1>2 DEF Inv

LEMMA ClientStays ==
  ASSUME Inv, ClientStep
  PROVE  StaysLost(conn, conn')
<1>1. ConnShape(conn) /\ "client" \in Sides
  BY DEF Inv, Shape, Sides
<1>2. CASE ClientPoll
  BY <1>1, <1>2 DEF ClientPoll, StaysLost
<1>3. CASE ClientRead
  BY <1>1, <1>3, DeliveredStays DEF ClientRead
<1>4. CASE ClientReadEnd \/ ClientHangUp
  <2>1. conn' = Closed(conn, "client", FALSE)
    BY <1>4 DEF ClientReadEnd, ClientHangUp, myexit
  <2>2. QED BY <1>1, <2>1, ClosedStays
<1>5. CASE read_batch_stdin
  <2>1. \/ conn' = conn
        \/ conn' = Closed(conn, "client", FALSE)
        \/ \E pieces : conn' = Written(conn, "client", pieces)
    BY <1>5 DEF read_batch_stdin, myexit
  <2>2. QED BY <1>1, <2>1, ClosedStays, WrittenStays DEF StaysLost
<1>6. QED BY <1>2, <1>3, <1>4, <1>5 DEF ClientStep

LEMMA ShellStays ==
  ASSUME Shape, ShellStep
  PROVE  "reaped" \in DOMAIN shell' /\ shell'.reaped = shell.reaped
<1>1. CASE ShellReads
  BY <1>1 DEF ShellReads, Ended, Shape
<1>2. CASE ShellPrints
  BY <1>2 DEF ShellPrints, Shape
<1>3. CASE ShellEnds
  BY <1>3 DEF ShellEnds, Ended, Shape
<1>4. QED BY <1>1, <1>2, <1>3 DEF ShellStep

LEMMA InitInv == Init => Inv
BY DEF Init, ShellInit, ServerInit, Connected, Sides, Inv, Shape, ConnShape,
       EndedMeansDone, ShellCollected

LEMMA ServerKeepsInv ==
  ASSUME Inv, Server
  PROVE  Inv'
<1>1. mode' = mode /\ ServerStep
  BY DEF Server, ServerStep
<1>2. CASE LastClose
  <2>1. /\ mode' = mode /\ srv' = srv /\ shell' = shell
        /\ conn' = Closed(conn, "server", FALSE)
    BY <1>1, <1>2 DEF LastClose
  <2>2. StaysLost(conn, conn')
    BY <2>1, ClosedStays DEF Inv, Shape, Sides
  <2>3. QED BY <2>1, <2>2, OthersKeepInv DEF Inv, Shape
<1>3. CASE ~LastClose
  BY <1>1, <1>3, QuietSteps, SocketSteps, WritingSteps, LastSteps, WellDoneKeepsInv
     DEF ServerStep
<1>4. QED BY <1>2, <1>3

LEMMA StepInv == Inv /\ [Next]_vars => Inv'
<1> SUFFICES ASSUME Inv, [Next]_vars
             PROVE  Inv'
  OBVIOUS
<1>1. Shape /\ ConnShape(conn) /\ StaysLost(conn, conn)
  BY DEF Inv, Shape, StaysLost
<1>2. CASE Server
  BY <1>2, ServerKeepsInv
<1>3. CASE ClientStep
  <2>1. mode' = mode /\ srv' = srv /\ shell' = shell
    BY <1>3 DEF ClientStep
  <2>2. QED BY <1>1, <1>3, <2>1, ClientStays, OthersKeepInv DEF Shape
<1>4. CASE Shell
  <2>1. mode' = mode /\ srv' = srv /\ conn' = conn
    BY <1>4 DEF Shell, rest
  <2>2. QED BY <1>1, <1>4, <2>1, ShellStays, OthersKeepInv DEF Shell
<1>5. CASE Reset
  <2>1. /\ mode' = mode /\ srv' = srv /\ shell' = shell
        /\ \E s \in Sides : conn' = ResetArrived(conn, s)
    BY <1>5 DEF Reset
  <2>2. StaysLost(conn, conn')
    BY <1>1, <2>1, ResetArrivedStays
  <2>3. QED BY <1>1, <2>1, <2>2, OthersKeepInv DEF Shape
<1>6. CASE Type \/ CloseInput \/ UNCHANGED vars
  <2>1. mode' = mode /\ srv' = srv /\ shell' = shell /\ conn' = conn
    BY <1>6 DEF Type, CloseInput, vars
  <2>2. QED BY <1>1, <2>1, OthersKeepInv DEF Shape
<1>7. QED BY <1>2, <1>3, <1>4, <1>5, <1>6 DEF Next

(* The server of lab1b ends with its shell waited for, or with status 1     *)
(* after losing the connection; lab1a always waits (ShellCollected).       *)
THEOREM Collected == Spec => []ShellCollected
<1>1. Inv => ShellCollected
  BY DEF Inv
<1>2. QED BY <1>1, InitInv, StepInv, PTL DEF Spec

-----------------------------------------------------------------------------
(* What is typed and printed.  (All pieces are strings; the provers do not  *)
(* know that a string constant is in STRING.)                              *)
Pieces == STRING \cup {EOT, NUL}
Texts == Seq(Pieces)

-----------------------------------------------------------------------------
(* Parts of a text: what follows its first a pieces, up to the b-th.        *)

Part(text, a, b) == SubSeq(text, a + 1, b)

LEMMA PartType ==
  ASSUME NEW text \in Texts, NEW a \in Nat, NEW b \in Nat, a <= b, b <= Len(text)
  PROVE  /\ Part(text, a, b) \in Texts
         /\ Len(Part(text, a, b)) = b - a
         /\ \A i \in 1..(b - a) : Part(text, a, b)[i] = text[a + i]
BY DEF Texts, Part

(* A text is known by its length and its pieces.                            *)
LEMMA SameText ==
  ASSUME NEW t \in Texts, NEW u \in Texts, Len(t) = Len(u),
         \A i \in 1..Len(t) : t[i] = u[i]
  PROVE  t = u
BY DEF Texts

LEMMA LenNat ==
  ASSUME NEW text \in Texts
  PROVE  /\ Len(text) \in Nat /\ (text = <<>> <=> Len(text) = 0)
         /\ \A i \in 1..Len(text) : text[i] \in Pieces
         /\ DOMAIN text = 1..Len(text)
BY DEF Texts

LEMMA NoText == <<>> \in Texts /\ Len(<<>>) = 0
BY DEF Texts

LEMMA PartEmpty ==
  ASSUME NEW text \in Texts, NEW a \in Nat, NEW b \in Nat, a <= b, b <= Len(text)
  PROVE  Part(text, a, b) = <<>> <=> a = b
<1>1. Part(text, a, b) \in Texts /\ Len(Part(text, a, b)) = b - a
  BY PartType
<1>2. Part(text, a, b) = <<>> <=> Len(Part(text, a, b)) = 0
  BY <1>1, LenNat
<1> QED BY <1>1, <1>2

(* A part of a part.                                                       *)
LEMMA PartOfPart ==
  ASSUME NEW text \in Texts, NEW a \in Nat, NEW b \in Nat, a <= b, b <= Len(text),
         NEW m \in Nat, NEW n \in Nat, m <= n, a + n <= b
  PROVE  Part(Part(text, a, b), m, n) = Part(text, a + m, a + n)
<1>0. Len(text) \in Nat
  BY LenNat
<1>1. PICK t \in Texts : /\ t = Part(text, a, b) /\ Len(t) = b - a
                         /\ \A i \in 1..(b - a) : t[i] = text[a + i]
  BY PartType
<1>2. PICK u \in Texts : /\ u = Part(t, m, n) /\ Len(u) = n - m
                         /\ \A i \in 1..(n - m) : u[i] = t[m + i]
  <2>1. n <= Len(t)
    BY <1>1
  <2> QED BY <2>1, PartType
<1>3. PICK v \in Texts : /\ v = Part(text, a + m, a + n) /\ Len(v) = (a + n) - (a + m)
                         /\ \A i \in 1..((a + n) - (a + m)) : v[i] = text[(a + m) + i]
  <2>1. PICK x \in Nat, y \in Nat : x = a + m /\ y = a + n
    OBVIOUS
  <2>2. x <= y /\ y <= Len(text)
    BY <1>0, <2>1
  <2>3. /\ Part(text, x, y) \in Texts /\ Len(Part(text, x, y)) = y - x
        /\ \A i \in 1..(y - x) : Part(text, x, y)[i] = text[x + i]
    BY <2>2, PartType, ZenonT(30)
  <2> QED BY <2>1, <2>3
<1>4. ASSUME NEW i \in 1..Len(u) PROVE u[i] = v[i]
  <2>1. i \in 1..(n - m) /\ m + i \in 1..(b - a) /\ i \in 1..((a + n) - (a + m))
    BY <1>2
  <2>2. a + (m + i) = (a + m) + i
    BY <2>1
  <2> QED BY <1>1, <1>2, <1>3, <2>1, <2>2
<1>5. Len(u) = Len(v)
  BY <1>2, <1>3
<1>6. u = v
  BY <1>4, <1>5, SameText
<1> QED BY <1>1, <1>2, <1>3, <1>6

(* Two parts, one after the other.                                         *)
LEMMA Joined ==
  ASSUME NEW t \in Texts, NEW u \in Texts
  PROVE  /\ t \o u \in Texts /\ Len(t \o u) = Len(t) + Len(u)
         /\ \A i \in 1..(Len(t) + Len(u)) :
               (t \o u)[i] = IF i <= Len(t) THEN t[i] ELSE u[i - Len(t)]
BY DEF Texts

LEMMA PartsJoined ==
  ASSUME NEW text \in Texts, NEW a \in Nat, NEW b \in Nat, NEW c \in Nat, a <= b, b <= c,
         c <= Len(text)
  PROVE  Part(text, a, b) \o Part(text, b, c) = Part(text, a, c)
<1>0. Len(text) \in Nat /\ a <= c /\ b <= Len(text)
  BY LenNat
<1>1. PICK t \in Texts : /\ t = Part(text, a, b) /\ Len(t) = b - a
                         /\ \A i \in 1..(b - a) : t[i] = text[a + i]
  <2>1. /\ Part(text, a, b) \in Texts /\ Len(Part(text, a, b)) = b - a
        /\ \A i \in 1..(b - a) : Part(text, a, b)[i] = text[a + i]
    BY <1>0, PartType
  <2> QED BY <2>1
<1>2. PICK u \in Texts : /\ u = Part(text, b, c) /\ Len(u) = c - b
                         /\ \A i \in 1..(c - b) : u[i] = text[b + i]
  <2>1. /\ Part(text, b, c) \in Texts /\ Len(Part(text, b, c)) = c - b
        /\ \A i \in 1..(c - b) : Part(text, b, c)[i] = text[b + i]
    BY <1>0, PartType
  <2> QED BY <2>1
<1>3. PICK v \in Texts : /\ v = Part(text, a, c) /\ Len(v) = c - a
                         /\ \A i \in 1..(c - a) : v[i] = text[a + i]
  <2>1. /\ Part(text, a, c) \in Texts /\ Len(Part(text, a, c)) = c - a
        /\ \A i \in 1..(c - a) : Part(text, a, c)[i] = text[a + i]
    BY <1>0, PartType
  <2> QED BY <2>1
<1>4. PICK w \in Texts : /\ w = t \o u /\ Len(w) = Len(t) + Len(u)
                         /\ \A i \in 1..(Len(t) + Len(u)) :
                               w[i] = IF i <= Len(t) THEN t[i] ELSE u[i - Len(t)]
  BY Joined
<1>5. Len(w) = c - a
  BY <1>1, <1>2, <1>4
<1>6. ASSUME NEW i \in 1..Len(w) PROVE w[i] = v[i]
  <2>1. i \in 1..(c - a) /\ i \in 1..(Len(t) + Len(u))
    BY <1>4, <1>5
  <2>2. CASE i <= Len(t)
    <3>1. i \in 1..(b - a)
      BY <1>1, <2>1, <2>2
    <3> QED BY <1>1, <1>3, <1>4, <2>1, <2>2, <3>1
  <2>3. CASE ~(i <= Len(t))
    <3>1. i - Len(t) \in 1..(c - b) /\ b + (i - Len(t)) = a + i
      BY <1>1, <2>1, <2>3
    <3> QED BY <1>2, <1>3, <1>4, <2>1, <2>3, <3>1
  <2> QED BY <2>2, <2>3
<1>7. Len(w) = Len(v)
  BY <1>3, <1>5
<1>8. w = v
  BY <1>6, <1>7, SameText
<1> QED BY <1>1, <1>2, <1>3, <1>4, <1>8

LEMMA PartHead ==
  ASSUME NEW text \in Texts, NEW a \in Nat, NEW b \in Nat, a < b, b <= Len(text)
  PROVE  /\ Part(text, a, b) # <<>>
         /\ Head(Part(text, a, b)) = text[a + 1] /\ text[a + 1] \in Pieces
         /\ Tail(Part(text, a, b)) = Part(text, a + 1, b)
<1>0. Len(text) \in Nat /\ a <= b
  BY LenNat
<1>1. PICK t \in Texts : /\ t = Part(text, a, b) /\ Len(t) = b - a
                         /\ \A i \in 1..(b - a) : t[i] = text[a + i]
  BY <1>0, PartType
<1>3. Len(t) > 0 /\ Len(t) \in Nat
  BY <1>1
<1>4. t # <<>> /\ Head(t) = t[1] /\ Tail(t) = SubSeq(t, 2, Len(t)) /\ Head(t) \in Pieces
  BY <1>3 DEF Texts
<1>a. PICK l \in Nat : l = b - a
  OBVIOUS
<1>5. Tail(t) = Part(t, 1, l)
  BY <1>1, <1>a, <1>4 DEF Part
<1>6. Part(Part(text, a, b), 1, l) = Part(text, a + 1, a + l)
  <2>1. 1 \in Nat /\ 1 <= l /\ a + l <= b
    BY <1>a
  <2> QED BY <1>0, <2>1, PartOfPart
<1>7. t[1] = text[a + 1]
  BY <1>1
<1>8. a + l = b
  BY <1>a
<1> QED BY <1>1, <1>4, <1>5, <1>6, <1>7, <1>8

(* Induction up to n, for a set.                                            *)
LEMMA UpTo ==
  ASSUME NEW n \in Nat, NEW S, 0 \in S, \A i \in 1..n : i - 1 \in S => i \in S
  PROVE  \A i \in 0..n : i \in S
<1> DEFINE X == {i \in 0..n : i \notin S}
<1>1. SUFFICES ASSUME X # {} PROVE FALSE
  OBVIOUS
<1>2. PICK k \in X : \A j \in X : ~(<<j, k>> \in OpToRel(<, Nat))
  <2>1. X \subseteq Nat
    OBVIOUS
  <2> HIDE DEF X
  <2> QED BY <1>1, <2>1, NatLessThanWellFounded, WFMin
<1>3. k \in 0..n /\ k \notin S
  OBVIOUS
<1>4. k \in 1..n /\ k - 1 \in 0..n /\ k - 1 < k /\ k - 1 \in Nat /\ k \in Nat
  BY <1>3
<1>5. k - 1 \notin X
  <2>1. <<k - 1, k>> \in OpToRel(<, Nat)
    BY <1>4 DEF OpToRel
  <2> HIDE DEF X
  <2> QED BY <1>2, <2>1
<1> QED BY <1>3, <1>4, <1>5

(* A text that has grown.                                                  *)
LEMMA Grown ==
  ASSUME NEW text \in Texts, NEW x \in Pieces
  PROVE  /\ Append(text, x) \in Texts /\ Len(Append(text, x)) = Len(text) + 1
         /\ Append(text, x)[Len(text) + 1] = x
         /\ \A i \in 1..Len(text) : Append(text, x)[i] = text[i]
BY DEF Texts

LEMMA PartOfLonger ==
  ASSUME NEW text \in Texts, NEW more \in Texts, Len(text) <= Len(more),
         \A i \in 1..Len(text) : more[i] = text[i],
         NEW a \in Nat, NEW b \in Nat, a <= b, b <= Len(text)
  PROVE  Part(more, a, b) = Part(text, a, b)
<1>0. Len(text) \in Nat /\ Len(more) \in Nat
  BY LenNat
<1>1. PICK t \in Texts : /\ t = Part(text, a, b) /\ Len(t) = b - a
                         /\ \A i \in 1..(b - a) : t[i] = text[a + i]
  BY PartType
<1>2. PICK u \in Texts : /\ u = Part(more, a, b) /\ Len(u) = b - a
                         /\ \A i \in 1..(b - a) : u[i] = more[a + i]
  <2>1. b <= Len(more)
    BY <1>0
  <2> QED BY <2>1, PartType
<1>3. ASSUME NEW i \in 1..Len(t) PROVE t[i] = u[i]
  <2>1. i \in 1..(b - a) /\ a + i \in 1..Len(text)
    BY <1>0, <1>1
  <2> QED BY <1>1, <1>2, <2>1
<1>4. t = u
  BY <1>1, <1>2, <1>3, SameText
<1> QED BY <1>1, <1>2, <1>4

LEMMA PartOfGrown ==
  ASSUME NEW text \in Texts, NEW x \in Pieces, NEW a \in Nat, NEW b \in Nat, a <= b,
         b <= Len(text)
  PROVE  Part(Append(text, x), a, b) = Part(text, a, b)
<1>1. PICK m \in Texts : /\ m = Append(text, x) /\ Len(m) = Len(text) + 1
                         /\ \A i \in 1..Len(text) : m[i] = text[i]
  BY Grown
<1>2. Len(text) <= Len(m)
  BY <1>1, LenNat
<1>3. Part(m, a, b) = Part(text, a, b)
  BY <1>1, <1>2, PartOfLonger
<1> QED BY <1>1, <1>3

(* The parts of two texts joined.                                           *)
LEMMA JoinedIsLonger ==
  ASSUME NEW t \in Texts, NEW u \in Texts
  PROVE  /\ t \o u \in Texts /\ Len(t \o u) = Len(t) + Len(u) /\ Len(t) <= Len(t \o u)
         /\ \A i \in 1..Len(t) : (t \o u)[i] = t[i]
         /\ \A i \in 1..Len(u) : (t \o u)[Len(t) + i] = u[i]
<1>1. Len(t) \in Nat /\ Len(u) \in Nat
  BY LenNat
<1>2. PICK v \in Texts : /\ v = t \o u /\ Len(v) = Len(t) + Len(u)
                         /\ \A i \in 1..(Len(t) + Len(u)) :
                               v[i] = IF i <= Len(t) THEN t[i] ELSE u[i - Len(t)]
  BY Joined
<1>3. PICK m \in Nat, n \in Nat : m = Len(t) /\ n = Len(u)
  BY <1>1
<1>4. ASSUME NEW i \in 1..n PROVE v[m + i] = u[i]
  <2>1. m + i \in 1..(m + n) /\ ~(m + i <= m) /\ (m + i) - m = i
    OBVIOUS
  <2> QED BY <1>2, <1>3, <2>1
<1>5. \A i \in 1..m : i \in 1..(m + n) /\ i <= m
  OBVIOUS
<1> QED BY <1>2, <1>3, <1>4, <1>5

LEMMA SecondPart ==
  ASSUME NEW t \in Texts, NEW u \in Texts
  PROVE  Part(t \o u, Len(t), Len(t) + Len(u)) = u
<1>1. PICK m \in Nat, n \in Nat : m = Len(t) /\ n = Len(u)
  BY LenNat
<1>2. PICK v \in Texts : /\ v = t \o u /\ Len(v) = m + n
                         /\ \A i \in 1..n : v[m + i] = u[i]
  <2>1. /\ t \o u \in Texts /\ Len(t \o u) = Len(t) + Len(u)
        /\ \A i \in 1..Len(u) : (t \o u)[Len(t) + i] = u[i]
    BY JoinedIsLonger
  <2> QED BY <1>1, <2>1
<1>3. PICK l \in Nat : l = m + n
  OBVIOUS
<1>4. PICK w \in Texts : /\ w = Part(v, m, l) /\ Len(w) = l - m
                         /\ \A i \in 1..(l - m) : w[i] = v[m + i]
  <2>1. m <= l /\ l <= Len(v)
    BY <1>2, <1>3
  <2> QED BY <2>1, PartType
<1>5. l - m = n
  BY <1>3
<1>6. w = u
  <2>1. Len(w) = Len(u) /\ \A i \in 1..Len(w) : w[i] = u[i]
    BY <1>1, <1>2, <1>4, <1>5
  <2> QED BY <2>1, SameText
<1> QED BY <1>1, <1>2, <1>3, <1>4, <1>6

LEMMA LastPart ==
  ASSUME NEW text \in Texts, NEW x \in Pieces, NEW a \in Nat, a <= Len(text)
  PROVE  Append(Part(text, a, Len(text)), x) = Part(Append(text, x), a, Len(text) + 1)
<1>0. Len(text) \in Nat
  BY LenNat
<1>1. PICK m \in Texts : /\ m = Append(text, x) /\ Len(m) = Len(text) + 1
                         /\ m[Len(text) + 1] = x
                         /\ \A i \in 1..Len(text) : m[i] = text[i]
  BY Grown
<1>2. PICK t \in Texts : /\ t = Part(text, a, Len(text)) /\ Len(t) = Len(text) - a
                         /\ \A i \in 1..(Len(text) - a) : t[i] = text[a + i]
  <2>1. PICK l \in Nat : l = Len(text)
    BY <1>0
  <2>2. a <= l /\ l <= Len(text)
    BY <2>1
  <2>3. \E t \in Texts : /\ t = Part(text, a, l) /\ Len(t) = l - a
                         /\ \A i \in 1..(l - a) : t[i] = text[a + i]
    BY <2>2, PartType
  <2> QED BY <2>1, <2>3
<1>3. PICK u \in Texts : /\ u = Part(m, a, Len(text) + 1) /\ Len(u) = (Len(text) + 1) - a
                         /\ \A i \in 1..((Len(text) + 1) - a) : u[i] = m[a + i]
  <2>1. PICK l \in Nat : l = Len(text) + 1
    BY <1>0
  <2>2. l <= Len(m) /\ a <= l
    BY <1>0, <1>1, <2>1
  <2>3. \E u \in Texts : /\ u = Part(m, a, l) /\ Len(u) = l - a
                         /\ \A i \in 1..(l - a) : u[i] = m[a + i]
    BY <2>2, PartType
  <2> QED BY <2>1, <2>3
<1>4. PICK v \in Texts : /\ v = Append(t, x) /\ Len(v) = Len(t) + 1 /\ v[Len(t) + 1] = x
                         /\ \A i \in 1..Len(t) : v[i] = t[i]
  BY Grown
<1>5. ASSUME NEW i \in 1..Len(v) PROVE v[i] = u[i]
  <2>1. i \in 1..((Len(text) + 1) - a)
    BY <1>0, <1>2, <1>4
  <2>2. CASE i <= Len(t)
    <3>1. i \in 1..Len(t) /\ i \in 1..(Len(text) - a) /\ a + i \in 1..Len(text)
      BY <1>0, <1>2, <2>1, <2>2
    <3> QED BY <1>1, <1>2, <1>3, <1>4, <2>1, <3>1
  <2>3. CASE ~(i <= Len(t))
    <3>1. i = Len(t) + 1 /\ a + i = Len(text) + 1
      <4>1. Len(t) \in Nat /\ i \in 1..(Len(t) + 1) /\ ~(i <= Len(t)) /\ Len(t) + a = Len(text)
        BY <1>0, <1>2, <1>4, <2>1, <2>3
      <4> QED BY <4>1
    <3> QED BY <1>1, <1>3, <1>4, <2>1, <3>1
  <2> QED BY <2>2, <2>3
<1>6. Len(u) = Len(v)
  BY <1>0, <1>2, <1>3, <1>4
<1>7. v = u
  BY <1>5, <1>6, SameText
<1> QED BY <1>1, <1>2, <1>3, <1>4, <1>7

(* A part that grows at its end.                                            *)
LEMMA PartGrows ==
  ASSUME NEW text \in Texts, NEW a \in Nat, NEW b \in Nat, a <= b, b < Len(text)
  PROVE  Append(Part(text, a, b), text[b + 1]) = Part(text, a, b + 1)
<1>0. Len(text) \in Nat /\ b <= Len(text) /\ b + 1 <= Len(text) /\ a <= b + 1
      /\ b + 1 \in Nat /\ text[b + 1] \in Pieces
  BY LenNat
<1>1. PICK t \in Texts : /\ t = Part(text, a, b) /\ Len(t) = b - a
                         /\ \A i \in 1..(b - a) : t[i] = text[a + i]
  BY <1>0, PartType
<1>a. PICK l \in Nat : l = b + 1
  OBVIOUS
<1>2. PICK u \in Texts : /\ u = Part(text, a, l) /\ Len(u) = l - a
                         /\ \A i \in 1..(l - a) : u[i] = text[a + i]
  <2>1. a <= l /\ l <= Len(text)
    BY <1>0, <1>a
  <2> QED BY <2>1, PartType
<1>3. PICK v \in Texts : /\ v = Append(t, text[b + 1]) /\ Len(v) = Len(t) + 1
                         /\ v[Len(t) + 1] = text[b + 1]
                         /\ \A i \in 1..Len(t) : v[i] = t[i]
  BY <1>0, Grown
<1>4. Len(v) = (b - a) + 1 /\ Len(u) = (b - a) + 1 /\ Len(t) = b - a
  BY <1>1, <1>a, <1>2, <1>3
<1>5. ASSUME NEW i \in 1..Len(v) PROVE v[i] = u[i]
  <2>1. i \in 1..((b - a) + 1) /\ i \in 1..(l - a)
    BY <1>4, <1>a
  <2>2. CASE i = (b - a) + 1
    <3>1. a + i = b + 1 /\ i = Len(t) + 1
      BY <2>2, <1>4
    <3> QED BY <1>2, <1>3, <2>1, <3>1
  <2>3. CASE i # (b - a) + 1
    <3>1. i \in 1..(b - a) /\ i \in 1..Len(t)
      BY <2>1, <2>3, <1>4
    <3> QED BY <1>1, <1>2, <1>3, <2>1, <3>1
  <2> QED BY <2>2, <2>3
<1>6. Len(v) = Len(u)
  BY <1>4
<1>7. v = u
  BY <1>5, <1>6, SameText
<1> QED BY <1>1, <1>a, <1>2, <1>3, <1>7

LEMMA FirstPart ==
  ASSUME NEW text \in Texts, NEW n \in Nat, n <= Len(text)
  PROVE  /\ Part(text, 0, n) \in Texts /\ Len(Part(text, 0, n)) = n
         /\ \A i \in 1..n : Part(text, 0, n)[i] = text[i]
<1>1. 0 \in Nat /\ 0 <= n
  OBVIOUS
<1>2. /\ Part(text, 0, n) \in Texts /\ Len(Part(text, 0, n)) = n - 0
      /\ \A i \in 1..(n - 0) : Part(text, 0, n)[i] = text[0 + i]
  BY <1>1, PartType
<1>3. n - 0 = n /\ \A i \in 1..n : 0 + i = i
  OBVIOUS
<1> QED BY <1>2, <1>3

LEMMA WholePart ==
  ASSUME NEW text \in Texts
  PROVE  Part(text, 0, Len(text)) = text
<1>1. PICK n \in Nat : n = Len(text)
  BY LenNat
<1>2. PICK t \in Texts : /\ t = Part(text, 0, n) /\ Len(t) = n
                         /\ \A i \in 1..n : t[i] = text[i]
  BY <1>1, FirstPart
<1>3. Len(t) = Len(text)
  BY <1>1, <1>2
<1>4. ASSUME NEW i \in 1..Len(t) PROVE t[i] = text[i]
  BY <1>1, <1>2, <1>3
<1>5. t = text
  BY <1>3, <1>4, SameText
<1> QED BY <1>1, <1>2, <1>5

LEMMA NoMore ==
  ASSUME NEW text \in Texts
  PROVE  text \o <<>> = text /\ <<>> \o text = text
BY DEF Texts

(* What one read takes.                                                    *)
LEMMA OneRead ==
  ASSUME NEW s, Len(s) \in Nat
  PROVE  \E n \in Nat : /\ n <= Len(s) /\ (n = 0 <=> Len(s) = 0)
                        /\ UpToBuffer(s) = Part(s, 0, n)
<1> DEFINE n == Min({BUFSIZE, Len(s)})
<1>1. BUFSIZE \in Nat \ {0}
  BY BufferAssumption
<1>2. \E x \in {BUFSIZE, Len(s)} : \A y \in {BUFSIZE, Len(s)} : x <= y
  <2>1. CASE BUFSIZE <= Len(s)
    BY <1>1, <2>1
  <2>2. CASE ~(BUFSIZE <= Len(s))
    BY <1>1, <2>2
  <2> QED BY <2>1, <2>2
<1>3. n \in {BUFSIZE, Len(s)} /\ \A y \in {BUFSIZE, Len(s)} : n <= y
  BY <1>2 DEF Min
<1>4. UpToBuffer(s) = Part(s, 0, n)
  BY DEF UpToBuffer, Take, Part
<1> HIDE DEF n
<1>5. n \in Nat /\ n <= Len(s) /\ (n = 0 <=> Len(s) = 0)
  BY <1>1, <1>3
<1> QED BY <1>4, <1>5

(* One read of a text that is itself a part.                                *)
LEMMA OneReadOfText ==
  ASSUME NEW text \in Texts, NEW a \in Nat, NEW b \in Nat, a <= b, b <= Len(text)
  PROVE  \E e \in Nat :
           /\ a <= e /\ e <= b /\ (e = a <=> Part(text, a, b) = <<>>)
           /\ UpToBuffer(Part(text, a, b)) = Part(text, a, e)
           /\ SubSeq(Part(text, a, b), Len(UpToBuffer(Part(text, a, b))) + 1, Len(Part(text, a, b)))
                = Part(text, e, b)
<1>0. Len(text) \in Nat
  BY LenNat
<1>1. PICK t : t = Part(text, a, b) /\ t \in Texts /\ Len(t) = b - a /\ Len(t) \in Nat /\ (t = <<>> <=> a = b)
  <2>1. Part(text, a, b) \in Texts /\ Len(Part(text, a, b)) = b - a
    BY PartType
  <2>2. Part(text, a, b) = <<>> <=> a = b
    BY PartEmpty
  <2> QED BY <2>1, <2>2
<1>2. PICK n \in Nat : /\ n <= Len(t) /\ (n = 0 <=> Len(t) = 0)
                       /\ UpToBuffer(t) = Part(t, 0, n)
  BY <1>1, OneRead
<1>3. PICK e \in Nat : e = a + n
  OBVIOUS
<1>4. a <= e /\ e <= b /\ n <= b - a /\ e <= Len(text) /\ n = e - a
  BY <1>0, <1>1, <1>2, <1>3
<1>5. UpToBuffer(t) = Part(text, a, e)
  <2>1. 0 \in Nat /\ 0 <= n /\ a + n <= b
    BY <1>3, <1>4
  <2>2. Part(Part(text, a, b), 0, n) = Part(text, a + 0, a + n)
    BY <2>1, PartOfPart
  <2>3. a + 0 = a
    OBVIOUS
  <2> QED BY <1>1, <1>2, <1>3, <2>2, <2>3
<1>6. Len(UpToBuffer(t)) = n
  BY <1>4, <1>5, PartType
<1>7. SubSeq(t, n + 1, Len(t)) = Part(text, e, b)
  <2>1. PICK l \in Nat : l = b - a
    BY <1>1
  <2>2. n <= l /\ a + l <= b /\ a + l = b
    BY <1>4, <2>1
  <2>3. Part(Part(text, a, b), n, l) = Part(text, a + n, a + l)
    BY <2>2, PartOfPart
  <2>4. Part(t, n, l) = Part(text, e, b)
    BY <1>1, <1>3, <2>2, <2>3
  <2> QED BY <1>1, <2>1, <2>4 DEF Part
<1>8. e = a <=> t = <<>>
  BY <1>1, <1>2, <1>3, <1>4
<1> QED BY <1>1, <1>4, <1>5, <1>6, <1>7, <1>8

LEMMA ReadTexts ==
  ASSUME NEW t \in Texts
  PROVE  /\ UpToBuffer(t) \in Texts /\ (UpToBuffer(t) = <<>> <=> t = <<>>)
         /\ SubSeq(t, Len(UpToBuffer(t)) + 1, Len(t)) \in Texts
<1>1. PICK b \in Nat : b = Len(t)
  BY LenNat
<1>2. PICK n \in Nat : n <= Len(t) /\ (n = 0 <=> Len(t) = 0) /\ UpToBuffer(t) = Part(t, 0, n)
  BY <1>1, OneRead
<1>3. PICK u \in Texts : u = Part(t, 0, n) /\ Len(u) = n
  BY <1>2, FirstPart
<1>4. Part(t, n, b) \in Texts
  BY <1>1, <1>2, PartType
<1>5. u = <<>> <=> t = <<>>
  BY <1>2, <1>3, LenNat
<1> QED BY <1>1, <1>2, <1>3, <1>4, <1>5 DEF Part

-----------------------------------------------------------------------------
(* Beginnings of a text.                                                   *)

LEMMA PrefixIs ==
  ASSUME NEW t \in Texts, NEW u \in Texts
  PROVE  IsPrefix(t, u) <=> /\ Len(t) <= Len(u)
                            /\ \A i \in 1..Len(t) : t[i] = u[i]
<1>1. Len(t) \in Nat /\ Len(u) \in Nat
  BY LenNat
<1>2. SubSeq(t, 1, Len(t)) = t
  BY DEF Texts
<1>3. ASSUME Len(t) <= Len(u)
      PROVE  t = SubSeq(u, 1, Len(t)) <=> \A i \in 1..Len(t) : t[i] = u[i]
  <2>1. PICK n \in Nat : n = Len(t)
    BY <1>1
  <2>2. PICK v \in Texts : /\ v = Part(u, 0, n) /\ Len(v) = n
                           /\ \A i \in 1..n : v[i] = u[i]
    BY <1>3, <2>1, FirstPart
  <2>3. Len(v) = Len(t) /\ \A i \in 1..Len(t) : v[i] = u[i]
    BY <2>1, <2>2
  <2>4. v = SubSeq(u, 1, Len(t))
    BY <2>1, <2>2 DEF Part
  <2>5. t = v <=> \A i \in 1..Len(t) : t[i] = v[i]
    BY <2>3, SameText
  <2> QED BY <2>3, <2>4, <2>5
<1> QED BY <1>1, <1>2, <1>3 DEF IsPrefix

LEMMA PrefixOfPrefix ==
  ASSUME NEW t \in Texts, NEW u \in Texts, NEW v \in Texts, IsPrefix(t, u), IsPrefix(u, v)
  PROVE  IsPrefix(t, v)
<1>0. Len(t) \in Nat /\ Len(u) \in Nat /\ Len(v) \in Nat
  BY LenNat
<1>1. Len(t) <= Len(u) /\ \A i \in 1..Len(t) : t[i] = u[i]
  BY PrefixIs
<1>2. Len(u) <= Len(v) /\ \A i \in 1..Len(u) : u[i] = v[i]
  BY PrefixIs
<1>3. Len(t) <= Len(v) /\ \A i \in 1..Len(t) : t[i] = v[i]
  BY <1>0, <1>1, <1>2
<1> QED BY <1>3, PrefixIs

LEMMA PrefixOfJoined ==
  ASSUME NEW t \in Texts, NEW u \in Texts
  PROVE  t \o u \in Texts /\ IsPrefix(t, t \o u)
<1>0. Len(t) \in Nat /\ Len(u) \in Nat
  BY LenNat
<1>1. PICK v \in Texts : /\ v = t \o u /\ Len(v) = Len(t) + Len(u)
                         /\ \A i \in 1..(Len(t) + Len(u)) :
                               v[i] = IF i <= Len(t) THEN t[i] ELSE u[i - Len(t)]
  BY Joined
<1>2. Len(t) <= Len(v) /\ \A i \in 1..Len(t) : t[i] = v[i]
  BY <1>0, <1>1
<1>3. IsPrefix(t, v)
  BY <1>2, PrefixIs
<1> QED BY <1>1, <1>3

LEMMA PrefixOfItself ==
  ASSUME NEW t \in Texts
  PROVE  IsPrefix(t, t)
<1>1. Len(t) \in Nat /\ Len(t) <= Len(t) /\ \A i \in 1..Len(t) : t[i] = t[i]
  BY LenNat
<1> QED BY <1>1, PrefixIs

LEMMA PartIsPrefix ==
  ASSUME NEW text \in Texts, NEW a \in Nat, a <= Len(text)
  PROVE  IsPrefix(Part(text, 0, a), text)
<1>1. PICK t \in Texts : /\ t = Part(text, 0, a) /\ Len(t) = a
                         /\ \A i \in 1..a : t[i] = text[i]
  BY FirstPart
<1>2. Len(t) <= Len(text) /\ \A i \in 1..Len(t) : t[i] = text[i]
  BY <1>1
<1>3. IsPrefix(t, text)
  BY <1>2, PrefixIs
<1> QED BY <1>1, <1>3

(* The shell takes the first piece of its input.                            *)
LEMMA PieceTaken ==
  ASSUME NEW t \in Texts, NEW u \in Texts, u # <<>>
  PROVE  /\ Head(u) \in Pieces /\ Tail(u) \in Texts /\ Append(t, Head(u)) \in Texts
         /\ Append(t, Head(u)) \o Tail(u) = t \o u
BY DEF Texts

(* The server gives it one.                                                *)
LEMMA PieceGiven ==
  ASSUME NEW t \in Texts, NEW u \in Texts, NEW x \in Pieces
  PROVE  t \o Append(u, x) = Append(t \o u, x)
BY DEF Texts

Packets == [zip : BOOLEAN, data : Texts \ {<<>>}]
Queues == Seq(Packets)

(* The packets of a queue carry the part of a text from one place to        *)
(* another: each what lies between two cuts, and, sent one by one, a piece. *)
Cuts(cut, q, text, from, to, single) ==
  /\ cut \in [0..Len(q) -> 0..Len(text)]
  /\ cut[0] = from /\ cut[Len(q)] = to
  /\ \A i, j \in 0..Len(q) : i <= j => cut[i] <= cut[j]
  /\ \A i \in 1..Len(q) : /\ single => cut[i] = from + i
                          /\ q[i].data = Part(text, cut[i - 1], cut[i])

Stream(q, text, from, to, single) ==
  \E cut \in [0..Len(q) -> 0..Len(text)] : Cuts(cut, q, text, from, to, single)

LEMMA QueueIs ==
  ASSUME NEW q \in Queues
  PROVE  /\ Len(q) \in Nat /\ (q = <<>> <=> Len(q) = 0) /\ DOMAIN q = 1..Len(q)
         /\ \A i \in 1..Len(q) : q[i] \in Packets
         /\ \A n \in Nat : n <= Len(q) =>
              /\ SubSeq(q, n + 1, Len(q)) \in Queues
              /\ Len(SubSeq(q, n + 1, Len(q))) = Len(q) - n
              /\ \A i \in 1..(Len(q) - n) : SubSeq(q, n + 1, Len(q))[i] = q[n + i]
BY DEF Queues

LEMMA QueuesJoined ==
  ASSUME NEW q \in Queues, NEW p \in Queues
  PROVE  /\ q \o p \in Queues /\ Len(q \o p) = Len(q) + Len(p)
         /\ \A i \in 1..Len(q) : (q \o p)[i] = q[i]
         /\ \A i \in 1..Len(p) : (q \o p)[Len(q) + i] = p[i]
BY DEF Queues

LEMMA StreamBounds ==
  ASSUME NEW q \in Queues, NEW text \in Texts, NEW a, NEW b, NEW s \in BOOLEAN,
         Stream(q, text, a, b, s)
  PROVE  a \in Nat /\ b \in Nat /\ a <= b /\ b <= Len(text)
<1>1. PICK cut : Cuts(cut, q, text, a, b, s)
  BY DEF Stream
<1>2. Len(q) \in Nat /\ Len(text) \in Nat
  BY QueueIs, LenNat
<1>3. 0 \in 0..Len(q) /\ Len(q) \in 0..Len(q) /\ 0 <= Len(q)
  BY <1>2
<1>4. a \in 0..Len(text) /\ b \in 0..Len(text) /\ a <= b
  BY <1>1, <1>3 DEF Cuts
<1> QED BY <1>2, <1>4

LEMMA NothingQueued ==
  ASSUME NEW text \in Texts, NEW a \in Nat, NEW b \in Nat, b <= Len(text), NEW s \in BOOLEAN
  PROVE  Stream(<<>>, text, a, b, s) <=> a = b
<1>0. Len(text) \in Nat
  BY LenNat
<1>n. PICK q : q = <<>> /\ Len(q) = 0
  OBVIOUS
<1>1. ASSUME Stream(q, text, a, b, s) PROVE a = b
  BY <1>n, <1>1 DEF Stream, Cuts
<1>2. ASSUME a = b PROVE Stream(q, text, a, b, s)
  <2>1. PICK cut : cut = [i \in 0..Len(q) |-> a]
    OBVIOUS
  <2>2. cut \in [0..Len(q) -> 0..Len(text)]
    BY <1>0, <1>2, <2>1
  <2>3. cut[0] = a /\ cut[Len(q)] = b
    BY <1>2, <1>n, <2>1
  <2>4. \A i, j \in 0..Len(q) : i <= j => cut[i] <= cut[j]
    BY <2>1
  <2>5. \A i \in 1..Len(q) : FALSE
    BY <1>n
  <2> QED BY <2>2, <2>3, <2>4, <2>5 DEF Stream, Cuts
<1> QED BY <1>n, <1>1, <1>2

LEMMA StreamRead ==
  ASSUME NEW q \in Queues, NEW text \in Texts, NEW a, NEW b, NEW s \in BOOLEAN,
         Stream(q, text, a, b, s), NEW n \in Nat, n <= Len(q)
  PROVE  \E e \in Nat :
           /\ a <= e /\ e <= b
           /\ Stream(SubSeq(q, n + 1, Len(q)), text, e, b, s)
           /\ n = 1 => q[1].data = Part(text, a, e)
           /\ s => /\ e = a + n
                   /\ \A i \in 1..n : q[i].data = Part(text, (a + i) - 1, a + i)
<1>1. PICK cut : Cuts(cut, q, text, a, b, s)
  BY DEF Stream
<1>2. Len(q) \in Nat /\ Len(text) \in Nat /\ a \in Nat /\ b \in Nat /\ b <= Len(text)
  BY QueueIs, LenNat, StreamBounds
<1>a. /\ cut \in [0..Len(q) -> 0..Len(text)]
      /\ cut[0] = a /\ cut[Len(q)] = b
      /\ \A i, j \in 0..Len(q) : i <= j => cut[i] <= cut[j]
      /\ \A i \in 1..Len(q) : /\ s => cut[i] = a + i
                              /\ q[i].data = Part(text, cut[i - 1], cut[i])
  BY <1>1 DEF Cuts
<1>3. 0 \in 0..Len(q) /\ Len(q) \in 0..Len(q) /\ n \in 0..Len(q) /\ 0 <= n
  BY <1>2
<1>4. PICK e : e = cut[n]
  OBVIOUS
<1>5. e \in Nat /\ a <= e /\ e <= b
  BY <1>a, <1>2, <1>3, <1>4
<1>6. PICK r \in Queues : /\ r = SubSeq(q, n + 1, Len(q)) /\ Len(r) = Len(q) - n
                          /\ \A i \in 1..(Len(q) - n) : r[i] = q[n + i]
  BY QueueIs
<1>7. s => e = a + n
  <2>1. CASE n = 0
    BY <1>a, <1>4, <1>2, <2>1
  <2>2. CASE n # 0
    BY <1>a, <1>3, <1>4, <2>2
  <2> QED BY <2>1, <2>2
<1>8. Stream(r, text, e, b, s)
  <2>0. Len(r) \in Nat /\ Len(r) + n = Len(q)
    BY <1>6, <1>2
  <2>1. PICK c : c = [i \in 0..Len(r) |-> cut[n + i]]
    OBVIOUS
  <2>2. \A i \in 0..Len(r) : n + i \in 0..Len(q) /\ c[i] = cut[n + i]
    BY <2>0, <2>1, <1>2
  <2>3. c \in [0..Len(r) -> 0..Len(text)]
    BY <1>a, <2>1, <2>2
  <2>4. c[0] = e /\ c[Len(r)] = b
    <3>1. 0 \in 0..Len(r) /\ Len(r) \in 0..Len(r) /\ n + 0 = n /\ n + Len(r) = Len(q)
      BY <2>0
    <3> QED BY <1>a, <1>4, <2>2, <3>1
  <2>5. \A i, j \in 0..Len(r) : i <= j => c[i] <= c[j]
    <3> SUFFICES ASSUME NEW i \in 0..Len(r), NEW j \in 0..Len(r), i <= j
                 PROVE  c[i] <= c[j]
      OBVIOUS
    <3>1. n + i <= n + j
      OBVIOUS
    <3> QED BY <1>a, <2>2, <3>1
  <2>6. ASSUME NEW i \in 1..Len(r)
        PROVE  /\ s => c[i] = e + i
               /\ r[i].data = Part(text, c[i - 1], c[i])
    <3>1. /\ i \in 0..Len(r) /\ i - 1 \in 0..Len(r) /\ n + i \in 1..Len(q) /\ i \in 1..(Len(q) - n)
          /\ n + (i - 1) = (n + i) - 1
      BY <2>0, <1>2
    <3>2. c[i] = cut[n + i] /\ c[i - 1] = cut[(n + i) - 1]
      BY <2>2, <3>1
    <3>3. s => c[i] = e + i
      <4>1. ASSUME s PROVE c[i] = e + i
        <5>1. cut[n + i] = a + (n + i) /\ e = a + n
          BY <1>a, <1>7, <3>1, <4>1
        <5> QED BY <3>2, <5>1, <1>2
      <4> QED BY <4>1
    <3>4. r[i].data = Part(text, c[i - 1], c[i])
      <4>1. r[i] = q[n + i]
        BY <1>6, <3>1
      <4>2. q[n + i].data = Part(text, cut[(n + i) - 1], cut[n + i])
        BY <1>a, <3>1
      <4> QED BY <3>2, <4>1, <4>2
    <3> QED BY <3>3, <3>4
  <2>7. Cuts(c, r, text, e, b, s)
    BY <2>3, <2>4, <2>5, <2>6 DEF Cuts
  <2> QED BY <2>3, <2>7 DEF Stream
<1>9. n = 1 => q[1].data = Part(text, a, e)
  <2> SUFFICES ASSUME n = 1 PROVE q[1].data = Part(text, a, e)
    OBVIOUS
  <2>1. 1 \in 1..Len(q) /\ 1 - 1 = 0
    BY <1>2
  <2>2. q[1].data = Part(text, cut[1 - 1], cut[1])
    BY <1>a, <2>1
  <2> QED BY <1>a, <1>4, <2>1, <2>2
<1>10. ASSUME s, NEW i \in 1..n PROVE q[i].data = Part(text, (a + i) - 1, a + i)
  <2>1. i \in 1..Len(q) /\ cut[i] = a + i
    BY <1>a, <1>2, <1>10
  <2>2. cut[i - 1] = (a + i) - 1
    <3>1. CASE i = 1
      <4>1. i - 1 = 0 /\ (a + i) - 1 = a
        BY <3>1, <1>2
      <4> QED BY <1>a, <4>1
    <3>2. CASE i # 1
      <4>1. i - 1 \in 1..Len(q) /\ a + (i - 1) = (a + i) - 1
        BY <2>1, <3>2, <1>2
      <4> QED BY <1>a, <1>10, <4>1
    <3> QED BY <3>1, <3>2
  <2> QED BY <1>a, <2>1, <2>2
<1> QED BY <1>5, <1>6, <1>7, <1>8, <1>9, <1>10

LEMMA StreamsJoined ==
  ASSUME NEW q \in Queues, NEW p \in Queues, NEW text \in Texts, NEW a, NEW b, NEW d,
         NEW s \in BOOLEAN, Stream(q, text, a, b, s), Stream(p, text, b, d, s)
  PROVE  Stream(q \o p, text, a, d, s)
<1>1. PICK cut : Cuts(cut, q, text, a, b, s)
  BY DEF Stream
<1>2. PICK dut : Cuts(dut, p, text, b, d, s)
  BY DEF Stream
<1>3. /\ Len(q) \in Nat /\ Len(p) \in Nat /\ Len(text) \in Nat
      /\ a \in Nat /\ b \in Nat /\ d \in Nat /\ a <= b /\ b <= d /\ d <= Len(text)
  BY QueueIs, LenNat, StreamBounds
<1>a. /\ cut \in [0..Len(q) -> 0..Len(text)]
      /\ cut[0] = a /\ cut[Len(q)] = b
      /\ \A i, j \in 0..Len(q) : i <= j => cut[i] <= cut[j]
      /\ \A i \in 1..Len(q) : /\ s => cut[i] = a + i
                              /\ q[i].data = Part(text, cut[i - 1], cut[i])
  BY <1>1 DEF Cuts
<1>b. /\ dut \in [0..Len(p) -> 0..Len(text)]
      /\ dut[0] = b /\ dut[Len(p)] = d
      /\ \A i, j \in 0..Len(p) : i <= j => dut[i] <= dut[j]
      /\ \A i \in 1..Len(p) : /\ s => dut[i] = b + i
                              /\ p[i].data = Part(text, dut[i - 1], dut[i])
  BY <1>2 DEF Cuts
<1>4. PICK r \in Queues : /\ r = q \o p /\ Len(r) = Len(q) + Len(p)
                          /\ \A i \in 1..Len(q) : r[i] = q[i]
                          /\ \A i \in 1..Len(p) : r[Len(q) + i] = p[i]
  BY QueuesJoined
<1>5. PICK c : c = [i \in 0..Len(r) |-> IF i <= Len(q) THEN cut[i] ELSE dut[i - Len(q)]]
  OBVIOUS
<1>6. ASSUME NEW i \in 0..Len(q)
      PROVE  i \in 0..Len(r) /\ c[i] = cut[i] /\ cut[i] \in 0..Len(text) /\ cut[i] <= b
  <2>1. i \in 0..Len(r) /\ i <= Len(q) /\ Len(q) \in 0..Len(q)
    BY <1>3, <1>4
  <2> QED BY <1>a, <1>5, <2>1
<1>7. ASSUME NEW i \in 0..Len(p)
      PROVE  /\ Len(q) + i \in 0..Len(r) /\ c[Len(q) + i] = dut[i]
             /\ dut[i] \in 0..Len(text) /\ b <= dut[i]
  <2>1. Len(q) + i \in 0..Len(r) /\ 0 \in 0..Len(p) /\ 0 <= i
    BY <1>3, <1>4
  <2>2. CASE i = 0
    <3>1. Len(q) + i = Len(q) /\ Len(q) \in 0..Len(q)
      BY <1>3, <2>2
    <3> QED BY <1>a, <1>b, <1>6, <2>1, <2>2, <3>1
  <2>3. CASE i # 0
    <3>1. ~(Len(q) + i <= Len(q)) /\ (Len(q) + i) - Len(q) = i
      BY <1>3, <2>3
    <3> QED BY <1>b, <1>5, <2>1, <3>1
  <2> QED BY <2>2, <2>3
<1>8. ASSUME NEW i \in 0..Len(r), ~(i \in 0..Len(q))
      PROVE  \E l \in 0..Len(p) : i = Len(q) + l
  <2>1. i - Len(q) \in 0..Len(p) /\ i = Len(q) + (i - Len(q))
    BY <1>3, <1>4, <1>8
  <2> QED BY <2>1
<1>9. c \in [0..Len(r) -> 0..Len(text)]
  <2>1. ASSUME NEW i \in 0..Len(r) PROVE c[i] \in 0..Len(text)
    <3>1. CASE i \in 0..Len(q)
      BY <1>6, <3>1
    <3>2. CASE ~(i \in 0..Len(q))
      <4>1. PICK j \in 0..Len(p) : i = Len(q) + j
        BY <1>8, <3>2
      <4> QED BY <1>7, <4>1
    <3> QED BY <3>1, <3>2
  <2> QED BY <1>5, <2>1
<1>10. c[0] = a /\ c[Len(r)] = d
  <2>1. 0 \in 0..Len(q) /\ Len(p) \in 0..Len(p) /\ Len(r) = Len(q) + Len(p)
    BY <1>3, <1>4
  <2> QED BY <1>a, <1>b, <1>6, <1>7, <2>1
<1>11. ASSUME NEW i \in 0..Len(r), NEW j \in 0..Len(r), i <= j
       PROVE  c[i] <= c[j]
  <2>1. CASE i \in 0..Len(q) /\ j \in 0..Len(q)
    BY <1>a, <1>6, <1>11, <2>1
  <2>2. CASE i \in 0..Len(q) /\ ~(j \in 0..Len(q))
    <3>1. PICK l \in 0..Len(p) : j = Len(q) + l
      BY <1>8, <2>2
    <3>2. cut[i] \in Nat /\ dut[l] \in Nat /\ cut[i] <= b /\ b <= dut[l]
      BY <1>3, <1>6, <1>7, <2>2
    <3> QED BY <1>3, <1>6, <1>7, <2>2, <3>1, <3>2
  <2>3. CASE ~(i \in 0..Len(q))
    <3>1. ~(j \in 0..Len(q))
      BY <1>3, <1>4, <1>11, <2>3
    <3>2. PICK l \in 0..Len(p) : j = Len(q) + l
      BY <1>8, <3>1
    <3>3. PICK k \in 0..Len(p) : i = Len(q) + k
      BY <1>8, <2>3
    <3>4. k <= l
      BY <1>3, <1>11, <3>2, <3>3
    <3> QED BY <1>b, <1>7, <3>2, <3>3, <3>4
  <2> QED BY <2>1, <2>2, <2>3
<1>12. ASSUME NEW i \in 1..Len(r)
       PROVE  /\ s => c[i] = a + i
              /\ r[i].data = Part(text, c[i - 1], c[i])
  <2>1. CASE i \in 1..Len(q)
    <3>1. i \in 0..Len(q) /\ i - 1 \in 0..Len(q)
      BY <1>3, <2>1
    <3>2. c[i] = cut[i] /\ c[i - 1] = cut[i - 1] /\ r[i] = q[i]
      BY <1>4, <1>6, <2>1, <3>1
    <3> QED BY <1>a, <2>1, <3>2
  <2>2. CASE ~(i \in 1..Len(q))
    <3>1. PICK j \in 1..Len(p) : i = Len(q) + j
      <4>1. i - Len(q) \in 1..Len(p) /\ i = Len(q) + (i - Len(q))
        BY <1>3, <1>4, <2>2
      <4> QED BY <4>1
    <3>2. j \in 0..Len(p) /\ j - 1 \in 0..Len(p) /\ i - 1 = Len(q) + (j - 1)
      BY <1>3, <3>1
    <3>3. c[i] = dut[j] /\ c[i - 1] = dut[j - 1] /\ r[i] = p[j]
      BY <1>4, <1>7, <3>1, <3>2
    <3>4. s => c[i] = a + i
      <4> SUFFICES ASSUME s PROVE c[i] = a + i
        OBVIOUS
      <4>1. b = a + Len(q)
        <5>1. CASE Len(q) = 0
          BY <1>a, <1>3, <5>1
        <5>2. CASE Len(q) # 0
          <6>1. Len(q) \in 1..Len(q)
            BY <1>3, <5>2
          <6> QED BY <1>a, <6>1
        <5> QED BY <5>1, <5>2
      <4>2. dut[j] = b + j
        BY <1>b
      <4> QED BY <1>3, <3>1, <3>3, <4>1, <4>2
    <3>5. p[j].data = Part(text, dut[j - 1], dut[j])
      BY <1>b
    <3> QED BY <3>3, <3>4, <3>5
  <2> QED BY <2>1, <2>2
<1>13. Cuts(c, r, text, a, d, s)
  BY <1>9, <1>10, <1>11, <1>12 DEF Cuts
<1> QED BY <1>4, <1>9, <1>13 DEF Stream

(* One packet more.                                                        *)
LEMMA OnePacket ==
  ASSUME NEW p \in Packets, NEW text \in Texts, NEW b \in Nat, NEW d \in Nat,
         b <= d, d <= Len(text), NEW s \in BOOLEAN, p.data = Part(text, b, d), s => d = b + 1
  PROVE  <<p>> \in Queues /\ Stream(<<p>>, text, b, d, s)
<1>0. Len(text) \in Nat
  BY LenNat
<1>1. PICK q \in Queues : q = <<p>> /\ Len(q) = 1 /\ q[1] = p
  <2>1. <<p>> \in Queues
    BY DEF Queues
  <2>2. Len(<<p>>) = 1 /\ <<p>>[1] = p
    OBVIOUS
  <2> QED BY <2>1, <2>2
<1>2. PICK c : c = [i \in 0..Len(q) |-> IF i = 0 THEN b ELSE d]
  OBVIOUS
<1>3. c \in [0..Len(q) -> 0..Len(text)] /\ c[0] = b /\ c[Len(q)] = d /\ c[1] = d
  BY <1>0, <1>1, <1>2
<1>4. \A i, j \in 0..Len(q) : i <= j => c[i] <= c[j]
  BY <1>1, <1>2
<1>5. ASSUME NEW i \in 1..Len(q)
      PROVE  /\ s => c[i] = b + i
             /\ q[i].data = Part(text, c[i - 1], c[i])
  <2>1. i = 1 /\ i - 1 = 0
    BY <1>1
  <2> QED BY <1>1, <1>3, <2>1
<1>6. Cuts(c, q, text, b, d, s)
  BY <1>3, <1>4, <1>5 DEF Cuts
<1> QED BY <1>1, <1>3, <1>6 DEF Stream

(* A line sent key by key.                                                 *)
LEMMA ManyPackets ==
  ASSUME NEW text \in Texts, NEW b \in Nat, NEW d \in Nat, b <= d, d <= Len(text),
         NEW u \in Texts, u = Part(text, b, d), NEW s \in BOOLEAN,
         NEW p, p = Singles(u)
  PROVE  p \in Queues /\ Stream(p, text, b, d, s)
<1>0. Len(text) \in Nat /\ Len(u) \in Nat /\ DOMAIN u = 1..Len(u)
      /\ \A i \in 1..Len(text) : text[i] \in Pieces
  BY LenNat
<1>1. Len(u) = d - b /\ \A i \in 1..(d - b) : u[i] = text[b + i]
  BY PartType
<1>2. ASSUME NEW i \in 1..(d - b)
      PROVE  Raw(u[i]) \in Packets /\ Raw(u[i]).data = Part(text, (b + i) - 1, b + i)
  <2>1. u[i] \in Pieces /\ u[i] = text[b + i]
    BY <1>0, <1>1
  <2>2. <<u[i]>> \in Texts \ {<<>>}
    BY <2>1 DEF Texts
  <2>3. Raw(u[i]) \in Packets /\ Raw(u[i]).data = <<u[i]>>
    BY <2>2 DEF Raw, Packets
  <2>4. PICK e \in Nat, f \in Nat : e = (b + i) - 1 /\ f = b + i
    OBVIOUS
  <2>5. PICK t \in Texts : /\ t = Part(text, e, f) /\ Len(t) = f - e
                           /\ \A j \in 1..(f - e) : t[j] = text[e + j]
    <3>1. e <= f /\ f <= Len(text)
      BY <1>0, <2>4
    <3>2. /\ Part(text, e, f) \in Texts /\ Len(Part(text, e, f)) = f - e
          /\ \A j \in 1..(f - e) : Part(text, e, f)[j] = text[e + j]
      BY <3>1, PartType
    <3> QED BY <3>2
  <2>6. Len(t) = 1 /\ t[1] = text[b + i]
    <3>1. f - e = 1 /\ e + 1 = b + i /\ 1 \in 1..(f - e)
      BY <2>4
    <3> QED BY <2>5, <3>1
  <2>7. t = <<u[i]>>
    BY <2>1, <2>6 DEF Texts
  <2> QED BY <2>3, <2>4, <2>5, <2>7
<1>3. p \in Queues /\ Len(p) = d - b /\ \A i \in 1..(d - b) : p[i] = Raw(u[i])
  BY <1>0, <1>1, <1>2 DEF Queues, Singles
<1>4. PICK q \in Queues : q = p
  BY <1>3
<1>5. PICK c : c = [i \in 0..Len(q) |-> b + i]
  OBVIOUS
<1>l. Len(q) = d - b /\ Len(q) \in Nat
  BY <1>3, <1>4
<1>6. c \in [0..Len(q) -> 0..Len(text)] /\ c[0] = b /\ c[Len(q)] = d
  <2>1. \A i \in 0..Len(q) : b + i \in 0..Len(text)
    BY <1>0, <1>l
  <2>2. 0 \in 0..Len(q) /\ Len(q) \in 0..Len(q) /\ b + 0 = b /\ b + Len(q) = d
    BY <1>l
  <2> QED BY <1>5, <2>1, <2>2
<1>7. \A i, j \in 0..Len(q) : i <= j => c[i] <= c[j]
  BY <1>5, <1>l
<1>8. ASSUME NEW i \in 1..Len(q)
      PROVE  /\ s => c[i] = b + i
             /\ q[i].data = Part(text, c[i - 1], c[i])
  <2>1. i \in 1..(d - b) /\ i \in 0..Len(q) /\ i - 1 \in 0..Len(q) /\ b + (i - 1) = (b + i) - 1
    BY <1>l
  <2>2. c[i] = b + i /\ c[i - 1] = (b + i) - 1
    BY <1>5, <2>1
  <2>3. q[i].data = Part(text, (b + i) - 1, b + i)
    BY <1>2, <1>3, <1>4, <2>1
  <2> QED BY <2>2, <2>3
<1>9. Cuts(c, q, text, b, d, s)
  BY <1>6, <1>7, <1>8 DEF Cuts
<1>10. Stream(q, text, b, d, s)
  BY <1>6, <1>9 DEF Stream
<1> QED BY <1>3, <1>4, <1>10

(* A text that grows behind a queue.                                       *)
LEMMA StreamOfLonger ==
  ASSUME NEW q \in Queues, NEW text \in Texts, NEW a, NEW b, NEW s \in BOOLEAN,
         Stream(q, text, a, b, s),
         NEW t \in Texts, Len(text) <= Len(t), \A i \in 1..Len(text) : t[i] = text[i]
  PROVE  Stream(q, t, a, b, s)
<1>1. PICK cut : Cuts(cut, q, text, a, b, s)
  BY DEF Stream
<1>3. Len(text) \in Nat /\ Len(q) \in Nat /\ Len(t) \in Nat
  BY LenNat, QueueIs
<1>4. cut \in [0..Len(q) -> 0..Len(text)]
  BY <1>1 DEF Cuts
<1>5. cut \in [0..Len(q) -> 0..Len(t)]
  <2>1. 0..Len(text) \subseteq 0..Len(t)
    BY <1>3
  <2> QED BY <1>4, <2>1
<1>6. ASSUME NEW i \in 1..Len(q)
      PROVE  Part(t, cut[i - 1], cut[i]) = Part(text, cut[i - 1], cut[i])
  <2>1. i \in 0..Len(q) /\ i - 1 \in 0..Len(q) /\ i - 1 <= i
    BY <1>3
  <2>2. cut[i - 1] <= cut[i]
    BY <1>1, <2>1 DEF Cuts
  <2>3. PICK e \in Nat, f \in Nat : e = cut[i - 1] /\ f = cut[i] /\ e <= f /\ f <= Len(text)
    BY <1>3, <1>4, <2>1, <2>2
  <2>4. Part(t, e, f) = Part(text, e, f)
    BY <2>3, PartOfLonger
  <2> QED BY <2>3, <2>4
<1>7. Cuts(cut, q, t, a, b, s)
  BY <1>1, <1>5, <1>6 DEF Cuts
<1> QED BY <1>5, <1>7 DEF Stream

LEMMA StreamOfGrown ==
  ASSUME NEW q \in Queues, NEW text \in Texts, NEW a, NEW b, NEW s \in BOOLEAN,
         Stream(q, text, a, b, s), NEW x \in Pieces
  PROVE  Stream(q, Append(text, x), a, b, s)
<1>1. PICK t \in Texts : /\ t = Append(text, x) /\ Len(t) = Len(text) + 1
                         /\ \A i \in 1..Len(text) : t[i] = text[i]
  BY Grown
<1>2. Len(text) <= Len(t)
  BY <1>1, LenNat
<1>3. Stream(q, t, a, b, s)
  BY <1>1, <1>2, StreamOfLonger
<1> QED BY <1>1, <1>3

(* What a read finds in a queue sent piece by piece.                        *)
PiecesOf(q, n) == [i \in 1..n |-> Take(n, q)[i].data[1]]

LEMMA PiecesRead ==
  ASSUME NEW q \in Queues, NEW text \in Texts, NEW a \in Nat, NEW n \in Nat, n <= Len(q),
         a + n <= Len(text),
         \A i \in 1..n : q[i].data = Part(text, (a + i) - 1, a + i)
  PROVE  PiecesOf(q, n) = Part(text, a, a + n)
<1>0. Len(text) \in Nat /\ Len(q) \in Nat
  BY LenNat, QueueIs
<1>1. PICK c : c = Take(n, q) /\ \A i \in 1..n : c[i] = q[i]
  <2>1. \A i \in 1..n : Take(n, q)[i] = q[i]
    BY <1>0 DEF Take, Queues
  <2> QED BY <2>1
<1>2. ASSUME NEW i \in 1..n PROVE c[i].data[1] = text[a + i]
  <2>1. PICK e \in Nat, f \in Nat : e = (a + i) - 1 /\ f = a + i
    OBVIOUS
  <2>2. PICK t \in Texts : /\ t = Part(text, e, f) /\ Len(t) = f - e
                           /\ \A j \in 1..(f - e) : t[j] = text[e + j]
    <3>1. e <= f /\ f <= Len(text)
      BY <1>0, <2>1
    <3> QED BY <3>1, PartType
  <2>3. f - e = 1 /\ e + 1 = a + i /\ 1 \in 1..(f - e)
    BY <2>1
  <2>4. t[1] = text[a + i]
    BY <2>2, <2>3
  <2>5. c[i].data = t
    BY <1>1, <2>1, <2>2
  <2> QED BY <2>4, <2>5
<1>3. PICK f \in Nat : f = a + n
  OBVIOUS
<1>4. PICK t \in Texts : /\ t = Part(text, a, f) /\ Len(t) = f - a
                         /\ \A j \in 1..(f - a) : t[j] = text[a + j]
  <2>1. a <= f /\ f <= Len(text)
    BY <1>3
  <2> QED BY <2>1, PartType
<1>5. PICK v : v = PiecesOf(q, n)
  OBVIOUS
<1>6. v = [i \in 1..n |-> text[a + i]]
  <2>1. ASSUME NEW i \in 1..n PROVE v[i] = text[a + i]
    <3>1. v[i] = Take(n, q)[i].data[1]
      BY <1>5 DEF PiecesOf
    <3>2. Take(n, q)[i] = c[i]
      BY <1>1
    <3> QED BY <1>2, <3>1, <3>2
  <2>2. v = [i \in 1..n |-> v[i]]
    BY <1>5 DEF PiecesOf
  <2> QED BY <2>1, <2>2
<1>7. v \in Texts /\ Len(v) = n /\ \A i \in 1..n : v[i] = text[a + i]
  <2>1. \A i \in 1..n : text[a + i] \in Pieces
    <3>1. \A i \in 1..n : a + i \in 1..Len(text)
      BY <1>0
    <3> QED BY <3>1, LenNat
  <2> QED BY <1>6, <2>1 DEF Texts
<1>8. Len(v) = Len(t) /\ \A i \in 1..Len(v) : v[i] = t[i]
  <2>1. f - a = n
    BY <1>3
  <2> QED BY <1>4, <1>7, <2>1
<1>9. v = t
  BY <1>4, <1>7, <1>8, SameText
<1> QED BY <1>3, <1>4, <1>5, <1>9

-----------------------------------------------------------------------------
(* The states of a session.                                                *)

ServerLabels == {"loop", "forward", "interrupted", "reply", "inflate", "last", "wait", "done"}
ClientLabels == {"loop", "line", "inflate", "done", "absent"}
Statuses == {Running, 0, 1}

ShellStates ==
  [alive : BOOLEAN, reaped : BOOLEAN, sigint : BOOLEAN, in : Texts, eof : BOOLEAN,
   out : Texts, served : BOOLEAN, todo : Texts, got : Texts, printed : Texts]
ServerStates ==
  [pc : ServerLabels, revents : SUBSET {"front", "frontHup", "shell", "shellHup"},
   todo : Texts, status : Statuses, masked : BOOLEAN, exit : Statuses]
ClientStates ==
  [pc : ClientLabels, revents : SUBSET {"socket", "socketHup", "stdin", "stdinHup"},
   batch : Texts, exit : Statuses \cup {SIGPIPE}]
Connections ==
  [queue : [Sides -> Queues], fin : [Sides -> BOOLEAN],
   rst : [Sides -> {"no", "owed", "error", "broken"}]]

(* What can be typed.                                                       *)
NoNul(text) == \A i \in 1..Len(text) : text[i] # NUL

Types ==
  /\ mode \in {"lab1a", "plain", "compress"}
  /\ shell \in ShellStates /\ srv \in ServerStates
  /\ conn \in Connections /\ cli \in ClientStates
  /\ tty \in Texts /\ hungup \in BOOLEAN /\ shown \in Texts /\ mangled \in BOOLEAN
  /\ script \in Texts /\ NoNul(script) /\ typed \in Nat /\ typed <= Len(script)

Going == srv.pc \in {"loop", "forward", "interrupted", "reply"}
Reading == cli.pc \in {"loop", "line"}

(* How the places of the two programs agree with the world.                 *)
Places ==
  /\ srv.pc = "loop" => srv.todo = <<>>
  /\ srv.pc \in {"forward", "interrupted", "reply"} => srv.todo # <<>>
  /\ srv.pc = "interrupted" => mode # "lab1a" /\ Head(srv.todo) = ETX
  /\ Going => /\ "front" \in srv.revents /\ mode = "lab1a" => tty # <<>>
              /\ "shell" \in srv.revents => shell.out # <<>>
  /\ srv.pc \in {"last", "wait"} => srv.status # Running
  /\ srv.exit # Running => srv.pc = "done"
  /\ srv.exit = 0 => ~shell.alive
  /\ conn.fin["server"] => srv.exit # Running
  /\ mode = "lab1a" <=> cli.pc = "absent"
  /\ cli.exit # Running => cli.pc = "done"
  /\ Reading => /\ ~conn.fin["client"]
                /\ "socket" \in cli.revents => Readable(conn, "client")
                /\ "socketHup" \in cli.revents => Lost(conn, "client")
                /\ "stdinHup" \in cli.revents => hungup

World == Types /\ Places

(* Without its NULs w is the first c keys of a text.                        *)
Carries(w, text, c) == Without(w, NUL)[Len(w)] = Part(text, 0, c)

(* The input goes over a wire, which carries the first c of the keys typed: *)
(* in plain mode with a NUL after each batch, otherwise nothing else; of     *)
(* lab1a the keys are the wire.                                            *)
Wire(w, c) ==
  /\ mode = "lab1a" => w = script
  /\ mode = "plain" => Carries(w, script, c)
  /\ mode = "compress" => w = Part(script, 0, c)

(* What should be in the pipe to the shell, or have come out of it, of the  *)
(* first n pieces: all, but for those that lab1a keeps.                     *)
Through(w, n) == IF mode = "lab1a" THEN Without(w, ETX)[n] ELSE Part(w, 0, n)

Clean(w, n) == \A i \in 1..n : w[i] # EOT

(* Of what has gone over the wire the first k pieces have gone into the     *)
(* pipe, the next up to m are in the server's hand, the rest on their way   *)
(* to it; the keys up to d are in the line the client is collecting.  Once   *)
(* the shell or the server has ended only the first part counts.            *)
Open == shell.alive /\ Going
InHand == IF srv.pc \in {"forward", "interrupted"} THEN srv.todo ELSE <<>>
Passed == shell.got \o shell.in

Singly == mode = "plain"       \* each packet is one piece

InputAt(w, k, m, c, d) ==
  /\ Wire(w, c) /\ k <= m /\ m <= Len(w) /\ c <= d /\ d <= typed
  /\ mode = "lab1a" => m <= typed
  /\ Clean(w, k) /\ IsPrefix(Passed, Through(w, k))
  /\ Open =>
       /\ Passed = Through(w, k) /\ InHand = Part(w, k, m)
       /\ mode = "lab1a" => tty = Part(script, m, typed)
       /\ mode # "lab1a" =>
            /\ Stream(conn.queue["server"], w, m, Len(w), Singly)
            /\ Reading => cli.batch = Part(script, c, d) /\ tty = Part(script, d, typed)

InputKept == ~mangled => \E w \in Texts, k, m, c, d \in Nat : InputAt(w, k, m, c, d)

(* A step that does nothing to the input.                                   *)
InputStill ==
  /\ script' = script /\ typed' = typed /\ mode' = mode /\ (mangled => mangled')
  /\ Passed' = Passed \/ (~shell'.alive /\ IsPrefix(Passed', Passed))
  /\ Open' => /\ Open /\ InHand' = InHand
              /\ mode = "lab1a" => tty' = tty
              /\ mode # "lab1a" => /\ conn'.queue["server"] = conn.queue["server"]
                                   /\ Reading' => Reading /\ cli'.batch = cli.batch /\ tty' = tty

(* The output: of what the shell has printed the user has been shown a      *)
(* pieces, the next up to b are on their way to the client, the next up to   *)
(* c in the server's hand, the rest in the pipe.                            *)
Sending == (mode = "lab1a" \/ ~Lost(conn, "server")) /\ srv.pc \notin {"inflate", "done"}
ToSend == IF srv.pc \in {"reply", "last"} THEN srv.todo ELSE <<>>
Satisfied == cli.exit = 0 /\ ~hungup /\ conn.rst["client"] = "no"

OutputAt(a, b, c) ==
  /\ a <= b /\ b <= c /\ c <= Len(shell.printed)
  /\ shown = Part(shell.printed, 0, a)
  /\ shell.out = Part(shell.printed, c, Len(shell.printed))
  /\ mode = "lab1a" => a = b
  /\ mode # "lab1a" /\ Reading =>
       Stream(conn.queue["client"], shell.printed, a, b, Singly)
  /\ srv.pc # "wait"
  /\ Sending => ToSend = Part(shell.printed, b, c)
  /\ srv.exit = 0 => b = Len(shell.printed)
  /\ Satisfied => a = b /\ srv.exit # Running

OutputKept == ~mangled /\ EOT \notin Range(shell.printed) =>
                \E a, b, c \in Nat : OutputAt(a, b, c)

(* A step that does nothing to the output.                                  *)
OutputStill ==
  /\ mode' = mode /\ (mangled => mangled') /\ shown' = shown
  /\ shell'.printed = shell.printed /\ shell'.out = shell.out
  /\ mode # "lab1a" /\ Reading' => Reading /\ conn'.queue["client"] = conn.queue["client"]
  /\ srv'.pc = "wait" => srv.pc = "wait"
  /\ Sending' => Sending /\ ToSend' = ToSend
  /\ srv'.exit = 0 => srv.exit = 0
  /\ srv.exit # Running => srv'.exit # Running
  /\ Satisfied' => Satisfied

LEMMA NamesAre ==
  /\ <<>> \in Texts /\ EOT \in Pieces /\ NUL \in Pieces /\ Running = -1 /\ SIGPIPE = 141
  /\ "client" \in Sides /\ "server" \in Sides /\ "client" # "server"
  /\ Peer("client") = "server" /\ Peer("server") = "client"
BY DEF Texts, Pieces, Running, SIGPIPE, Sides, Peer

(* What the operations on the connection do to it.                          *)
Worse(c, d) == \A s \in Sides : /\ d.rst[s] = "no" => c.rst[s] = "no"
                                /\ Lost(c, s) => Lost(d, s)
                                /\ c.fin[s] => d.fin[s]

LEMMA WrittenIs ==
  ASSUME NEW c \in Connections, NEW s \in Sides, NEW pieces \in Queues,
         NEW d, d = Written(c, s, pieces)
  PROVE  /\ d \in Connections /\ Worse(c, d) /\ d.fin = c.fin
         /\ d.queue[s] = c.queue[s]
         /\ c.fin[Peer(s)] => d.queue = c.queue
         /\ ~c.fin[Peer(s)] => d.queue[Peer(s)] = c.queue[Peer(s)] \o pieces /\ d.rst = c.rst
         /\ \A t \in Sides : Lost(d, t) <=> Lost(c, t)
<1>1. c.queue[Peer(s)] \o pieces \in Queues
  <2>1. c.queue[Peer(s)] \in Queues
    BY DEF Connections, Sides, Peer
  <2> QED BY <2>1, QueuesJoined
<1>2. Peer(s) \in Sides /\ Peer(s) # s
  BY DEF Sides, Peer
<1> QED BY <1>1, <1>2 DEF Written, Connections, Worse, Lost

LEMMA DeliveredIs ==
  ASSUME NEW c \in Connections, NEW s \in Sides, NEW n \in Nat, n <= Len(c.queue[s]),
         NEW d, d = Delivered(c, s, n)
  PROVE  /\ d \in Connections /\ Worse(c, d) /\ d.fin = c.fin /\ d.rst = c.rst
         /\ d.queue[s] = SubSeq(c.queue[s], n + 1, Len(c.queue[s]))
         /\ \A t \in Sides : t # s => d.queue[t] = c.queue[t]
<1>1. SubSeq(c.queue[s], n + 1, Len(c.queue[s])) \in Queues
  <2>1. c.queue[s] \in Queues
    BY DEF Connections
  <2> QED BY <2>1, QueueIs
<1> QED BY <1>1 DEF Delivered, Connections, Worse, Lost

LEMMA ErrorDeliveredIs ==
  ASSUME NEW c \in Connections, NEW s \in Sides, NEW d, d = ErrorDelivered(c, s)
  PROVE  /\ d \in Connections /\ Worse(c, d) /\ d.fin = c.fin /\ d.queue = c.queue
         /\ Lost(d, s)
BY DEF ErrorDelivered, Connections, Worse, Lost

LEMMA ResetArrivedIs ==
  ASSUME NEW c \in Connections, NEW s \in Sides, c.rst[s] = "owed", NEW d, d = ResetArrived(c, s)
  PROVE  d \in Connections /\ Worse(c, d) /\ d.fin = c.fin /\ d.queue = c.queue
BY DEF ResetArrived, Connections, Worse, Lost

LEMMA ClosedIs ==
  ASSUME NEW c \in Connections, NEW s \in Sides, NEW politely \in BOOLEAN,
         NEW d, d = Closed(c, s, politely)
  PROVE  /\ d \in Connections /\ Worse(c, d) /\ d.fin[s] /\ d.fin[Peer(s)] = c.fin[Peer(s)]
         /\ d.queue[Peer(s)] = c.queue[Peer(s)]
<1>1. Peer(s) \in Sides /\ Peer(s) # s
  BY DEF Sides, Peer
<1>2. <<>> \in Queues
  BY DEF Queues
<1> QED BY <1>1, <1>2 DEF Closed, Connections, Worse, Lost

-----------------------------------------------------------------------------
(* What the operations on the programs do to them.                          *)

LEMMA HandleIs ==
  ASSUME srv \in ServerStates, NEW todo \in Texts, NEW label \in ServerLabels,
         Handle(todo, label)
  PROVE  /\ srv' \in ServerStates /\ srv'.todo = todo
         /\ todo = <<>> => srv'.pc = "loop"
         /\ todo # <<>> => srv'.pc = label
         /\ srv'.revents = srv.revents /\ srv'.status = srv.status /\ srv'.exit = srv.exit
BY DEF Handle, ServerStates, ServerLabels

LEMMA SeenIs ==
  ASSUME srv \in ServerStates, NEW todo \in Texts, NEW label \in ServerLabels, NEW event,
         Seen(event, todo, label)
  PROVE  /\ srv' \in ServerStates /\ srv'.todo = todo /\ srv'.pc = label
         /\ srv'.revents = srv.revents \ {event}
         /\ srv'.status = srv.status /\ srv'.exit = srv.exit
BY DEF Seen, ServerStates

LEMMA DoneIs ==
  ASSUME srv \in ServerStates, shell \in ShellStates, NEW status \in {0, 1},
         NEW masked \in BOOLEAN, Done(status, masked)
  PROVE  /\ srv' \in ServerStates /\ srv'.todo = <<>> /\ srv'.pc = "last"
         /\ srv'.revents = {} /\ srv'.status = status /\ srv'.exit = srv.exit
         /\ shell' \in ShellStates
         /\ shell'.alive = shell.alive /\ shell'.out = shell.out /\ shell'.printed = shell.printed
         /\ shell'.got = shell.got /\ shell'.in = shell.in
BY NamesAre DEF Done, ServerStates, ServerLabels, ShellStates, Statuses

LEMMA ExitIs ==
  ASSUME srv \in ServerStates, shell \in ShellStates, NEW status \in Statuses,
         NEW collected \in BOOLEAN, Exit(status, collected)
  PROVE  /\ srv' \in ServerStates /\ srv'.todo = <<>> /\ srv'.pc = "done"
         /\ srv'.revents = {} /\ srv'.exit = status
         /\ shell' \in ShellStates
         /\ shell'.alive = shell.alive /\ shell'.out = shell.out /\ shell'.printed = shell.printed
         /\ shell'.got = shell.got /\ shell'.in = shell.in
BY NamesAre DEF Exit, ServerStates, ServerLabels, ShellStates, Statuses

LEMMA MyexitIs ==
  ASSUME cli \in ClientStates, conn \in Connections, NEW status \in {0, 1, SIGPIPE},
         myexit(status)
  PROVE  /\ cli' \in ClientStates /\ cli'.pc = "done" /\ cli'.exit = status
         /\ cli'.revents = {} /\ conn' \in Connections /\ Worse(conn, conn')
         /\ conn'.queue["server"] = conn.queue["server"]
         /\ conn'.fin["server"] = conn.fin["server"] /\ conn'.fin["client"]
<1>1. /\ cli' \in ClientStates /\ cli'.pc = "done" /\ cli'.exit = status
      /\ cli'.revents = {}
  BY NamesAre, ZenonT(30) DEF myexit, ClientStates, ClientLabels, Statuses
<1>2. conn' = Closed(conn, "client", FALSE)
  BY DEF myexit
<1>3. "client" \in Sides /\ FALSE \in BOOLEAN
  BY NamesAre
<1>4. /\ conn' \in Connections /\ Worse(conn, conn') /\ conn'.fin["client"]
      /\ conn'.fin[Peer("client")] = conn.fin[Peer("client")]
      /\ conn'.queue[Peer("client")] = conn.queue[Peer("client")]
  BY <1>2, <1>3, ClosedIs
<1> QED BY <1>1, <1>4, NamesAre

LEMMA ClientSeenIs ==
  ASSUME cli \in ClientStates, NEW event, NEW label \in ClientLabels, ClientSeen(event, label)
  PROVE  /\ cli' \in ClientStates /\ cli'.pc = label /\ cli'.exit = cli.exit
         /\ cli'.batch = cli.batch /\ cli'.revents = cli.revents \ {event}
BY DEF ClientSeen, ClientStates

(* mywrite() to the front.                                                 *)
LEMMA PutIs ==
  ASSUME Types, NEW pieces \in Queues, NEW then, Put(pieces, then)
  PROVE  \/ /\ mode = "lab1a" /\ conn' = conn /\ shown' = shown \o pieces[1].data /\ then
         \/ /\ mode # "lab1a" /\ ~Lost(conn, "server") /\ shown' = shown /\ then
            /\ conn' = Written(conn, "server", pieces)
         \/ /\ mode # "lab1a" /\ Lost(conn, "server") /\ shown' = shown
            /\ conn' = ErrorDelivered(conn, "server")
            /\ Done(0, TRUE) \/ Exit(1, FALSE)
BY DEF Put

-----------------------------------------------------------------------------
(* What the steps keep, one action after the other.                         *)

LEMMA InitWorld == Init => World
<1> SUFFICES ASSUME Init PROVE World
  OBVIOUS
<1>1. /\ mode \in {"lab1a", "plain", "compress"} /\ script \in Texts /\ NoNul(script)
      /\ <<>> \in Texts /\ <<>> \in Queues
  <2>1. script \in Seq(STRING \ {NUL})
    BY SessionsAssumption DEF Init
  <2>2. script \in Texts /\ NoNul(script)
    BY <2>1 DEF Texts, Pieces, NoNul
  <2> QED BY <2>2, SessionsAssumption, NamesAre DEF Init, Queues
<1>2. shell \in ShellStates /\ srv \in ServerStates /\ conn \in Connections /\ cli \in ClientStates
  BY <1>1 DEF Init, ShellInit, ServerInit, Connected, ShellStates, ServerStates, Connections,
              ClientStates, ServerLabels, ClientLabels, Statuses
<1>3. Types
  <2>1. Len(script) \in Nat /\ typed = 0
    BY <1>1, LenNat DEF Init
  <2>2. typed \in Nat /\ typed <= Len(script)
    BY <2>1
  <2>3. tty \in Texts /\ shown \in Texts
    BY <1>1 DEF Init
  <2>4. hungup \in BOOLEAN /\ mangled \in BOOLEAN
    BY DEF Init
  <2> QED BY <1>1, <1>2, <2>2, <2>3, <2>4 DEF Types
<1>4. Places
  BY <1>1, NamesAre DEF Init, ShellInit, ServerInit, Connected, Places, Going, Reading
<1> QED BY <1>3, <1>4 DEF World

ServerFrame == UNCHANGED <<mode, hungup, cli, script, typed>>

LEMMA PollKeeps ==
  ASSUME World, ServerFrame, Poll
  PROVE  World' /\ InputStill /\ OutputStill
<1>1. /\ srv' \in ServerStates /\ srv'.pc = srv.pc /\ srv'.todo = srv.todo
      /\ srv'.status = srv.status /\ srv'.exit = srv.exit /\ srv'.revents = Events
      /\ srv.pc = "loop"
  BY DEF World, Types, Poll, ServerStates, Events
<1>2. /\ "front" \in Events /\ mode = "lab1a" => tty # <<>>
      /\ "shell" \in Events => shell.out # <<>>
  BY DEF Events, FrontReadable
<1>3. UNCHANGED <<shell, conn, tty, shown, mangled, mode, hungup, cli, script, typed>>
  BY DEF Poll, ServerFrame
<1>4. Types'
  BY <1>1, <1>3 DEF World, Types
<1>5. Places'
  BY <1>1, <1>2, <1>3 DEF World, Places, Going, Reading, Readable, Lost
<1>6. InputStill
  BY <1>1, <1>3 DEF InputStill, Passed, Open, Going, InHand, Reading
<1>7. OutputStill
  BY <1>1, <1>3 DEF OutputStill, Sending, ToSend, Satisfied, Reading
<1> QED BY <1>4, <1>5, <1>6, <1>7 DEF World

LEMMA read_stdinKeeps ==
  ASSUME World, ServerFrame, read_stdin
  PROVE  World' /\ OutputStill
<1>0. tty \in Texts /\ tty # <<>> /\ mode = "lab1a" /\ srv.pc = "loop" /\ srv \in ServerStates
      /\ srv.exit = Running
  BY NamesAre DEF World, Types, Places, read_stdin, Turn, Going
<1>1. /\ UpToBuffer(tty) \in Texts /\ UpToBuffer(tty) # <<>> /\ tty' \in Texts
  BY <1>0, ReadTexts DEF read_stdin
<1>2. /\ srv' \in ServerStates /\ srv'.todo = UpToBuffer(tty) /\ srv'.pc = "forward"
      /\ srv'.revents = srv.revents \ {"front"}
      /\ srv'.status = srv.status /\ srv'.exit = srv.exit
  BY <1>0, <1>1, SeenIs DEF read_stdin, ServerLabels
<1>3. UNCHANGED <<shell, conn, shown, mangled, mode, hungup, cli, script, typed>>
  BY DEF read_stdin, ServerFrame
<1>4. Types'
  BY <1>1, <1>2, <1>3 DEF World, Types
<1>5. Places'
  BY <1>0, <1>1, <1>2, <1>3 DEF World, Places, Going, Reading, Readable, Lost
<1>6. OutputStill
  BY <1>0, <1>2, <1>3 DEF OutputStill, Sending, ToSend, Satisfied, Reading
<1> QED BY <1>4, <1>5, <1>6 DEF World

(* The packets of one read.                                                *)
LEMMA ReadPackets ==
  ASSUME NEW q \in Queues, NEW n \in 1..Len(UpToBuffer(q))
  PROVE  /\ n \in Nat /\ 1 <= n /\ n <= Len(q) /\ Len(Take(n, q)) = n
         /\ \A i \in 1..n : Take(n, q)[i] = q[i] /\ Take(n, q)[i] \in Packets
         /\ Inflated(Take(n, q)) \in Texts
         /\ [i \in 1..n |-> Take(n, q)[i].data[1]] \in Texts \ {<<>>}
<1>1. Len(q) \in Nat /\ \A i \in 1..Len(q) : q[i] \in Packets
  BY QueueIs
<1>2. PICK m \in Nat : m <= Len(q) /\ UpToBuffer(q) = Part(q, 0, m)
  BY <1>1, OneRead
<1>3. Len(UpToBuffer(q)) = m
  BY <1>1, <1>2 DEF Part, Queues
<1>4. n \in Nat /\ 1 <= n /\ n <= Len(q)
  BY <1>1, <1>2, <1>3
<1>5. PICK c : c = Take(n, q)
  OBVIOUS
<1>6. Len(c) = n /\ \A i \in 1..n : c[i] = q[i]
  BY <1>1, <1>4, <1>5 DEF Take, Queues
<1>7. \A i \in 1..n : c[i] \in Packets
  BY <1>1, <1>4, <1>6
<1>8. Inflated(c) \in Texts
  <2>1. c[1] \in Packets
    BY <1>4, <1>7
  <2>2. c[1].data \in Texts
    BY <2>1 DEF Packets
  <2> QED BY <2>2, NamesAre DEF Inflated
<1>9. [i \in 1..n |-> c[i].data[1]] \in Texts \ {<<>>}
  <2>1. ASSUME NEW i \in 1..n PROVE c[i].data[1] \in Pieces
    <3>1. c[i].data \in Texts /\ c[i].data # <<>>
      BY <1>7 DEF Packets
    <3>2. Len(c[i].data) \in Nat /\ Len(c[i].data) # 0
      BY <3>1, LenNat
    <3>3. 1 \in 1..Len(c[i].data)
      BY <3>2
    <3> QED BY <3>1, <3>3, LenNat
  <2>2. PICK u : u = [i \in 1..n |-> c[i].data[1]]
    OBVIOUS
  <2>3. u \in Texts /\ Len(u) = n
    BY <1>4, <2>1, <2>2 DEF Texts
  <2>4. u # <<>>
    BY <1>4, <2>3
  <2> QED BY <2>2, <2>3, <2>4
<1> QED BY <1>4, <1>5, <1>6, <1>7, <1>8, <1>9

(* The server has read the first n packets of its queue.                    *)
ReadsPackets(n) ==
  /\ n \in 1..Len(UpToBuffer(conn.queue["server"]))
  /\ conn'.queue["server"] = SubSeq(conn.queue["server"], n + 1, Len(conn.queue["server"]))
  /\ mode = "plain" =>
       srv'.todo = PiecesOf(conn.queue["server"], n)
  /\ mode # "plain" /\ ~mangled' => n = 1 /\ srv'.todo = conn.queue["server"][1].data
  /\ ~mangled' => srv'.pc \in {"loop", "forward"}
  /\ srv'.pc = "loop" => srv'.todo = <<>>
  /\ mangled => mangled'

LEMMA read_socketKeeps ==
  ASSUME World, ServerFrame, read_socket
  PROVE  World' /\ OutputStill /\ \E n \in Nat : ReadsPackets(n)
<1>0. /\ mode # "lab1a" /\ srv.pc = "loop" /\ srv \in ServerStates /\ conn \in Connections
      /\ srv.exit = Running /\ srv.todo = <<>> /\ mangled \in BOOLEAN
      /\ conn.queue["server"] \in Queues
  BY NamesAre DEF World, Types, Places, read_socket, Turn, Going, Connections
<1>1. PICK n \in 1..Len(UpToBuffer(conn.queue["server"])) :
        LET chunk == Take(n, conn.queue["server"])
            data == Inflated(chunk)
        IN  /\ conn' = Delivered(conn, "server", n)
            /\ IF mode = "plain"
                 THEN /\ Seen("front", [i \in 1..n |-> chunk[i].data[1]], "forward")
                      /\ UNCHANGED mangled
                 ELSE /\ mangled' = (mangled \/ ~IsBatch(chunk))
                      /\ \E stuck \in StuckAfter(chunk) :
                           Seen("front", data, IF stuck THEN "inflate"
                                               ELSE IF data = <<>> THEN "loop" ELSE "forward")
  BY DEF read_socket
<1>2. PICK chunk : chunk = Take(n, conn.queue["server"])
  OBVIOUS
<1>3. /\ n \in Nat /\ n <= Len(conn.queue["server"])
      /\ Inflated(chunk) \in Texts
      /\ [i \in 1..n |-> chunk[i].data[1]] \in Texts \ {<<>>}
      /\ Len(chunk) = n /\ chunk[1] = conn.queue["server"][1]
  <2>1. /\ n \in Nat /\ 1 <= n /\ n <= Len(conn.queue["server"]) /\ Len(chunk) = n
        /\ Inflated(chunk) \in Texts
        /\ [i \in 1..n |-> chunk[i].data[1]] \in Texts \ {<<>>}
        /\ \A i \in 1..n : chunk[i] = conn.queue["server"][i]
    BY <1>0, <1>2, ReadPackets
  <2> QED BY <2>1
<1>4. /\ conn' \in Connections /\ Worse(conn, conn') /\ conn'.fin = conn.fin /\ conn'.rst = conn.rst
      /\ conn'.queue["client"] = conn.queue["client"]
      /\ conn'.queue["server"] = SubSeq(conn.queue["server"], n + 1, Len(conn.queue["server"]))
  <2>1. conn' = Delivered(conn, "server", n)
    BY <1>1
  <2>2. /\ "server" \in Sides /\ conn \in Connections /\ n \in Nat
        /\ n <= Len(conn.queue["server"])
    BY <1>0, <1>3, NamesAre
  <2>3. /\ conn' \in Connections /\ Worse(conn, conn') /\ conn'.fin = conn.fin
        /\ conn'.rst = conn.rst
        /\ conn'.queue["server"] = SubSeq(conn.queue["server"], n + 1, Len(conn.queue["server"]))
        /\ \A t \in Sides : t # "server" => conn'.queue[t] = conn.queue[t]
    BY <2>1, <2>2, DeliveredIs
  <2> QED BY <2>3, NamesAre
<1>5. /\ srv' \in ServerStates /\ srv'.pc \in {"inflate", "loop", "forward"}
      /\ srv'.pc = "loop" => srv'.todo = <<>>
      /\ srv'.pc = "forward" => srv'.todo # <<>>
      /\ srv'.revents = srv.revents \ {"front"}
      /\ srv'.status = srv.status /\ srv'.exit = srv.exit
      /\ mangled' \in BOOLEAN /\ (mangled => mangled')
      /\ mode = "plain" => srv'.todo = [i \in 1..n |-> chunk[i].data[1]] /\ srv'.pc = "forward"
      /\ mode # "plain" /\ ~mangled' =>
           n = 1 /\ srv'.todo = chunk[1].data /\ srv'.pc \in {"loop", "forward"}
  <2>1. CASE mode = "plain"
    <3>1. Seen("front", [i \in 1..n |-> chunk[i].data[1]], "forward") /\ mangled' = mangled
      BY <1>1, <1>2, <2>1
    <3> QED BY <1>0, <1>3, <2>1, <3>1, SeenIs DEF ServerLabels
  <2>2. CASE mode # "plain"
    <3>1. mangled' = (mangled \/ ~IsBatch(chunk))
      BY <1>1, <1>2, <2>2
    <3>2. PICK stuck \in StuckAfter(chunk) : Seen("front", Inflated(chunk), IF stuck THEN "inflate"
                                       ELSE IF Inflated(chunk) = <<>> THEN "loop" ELSE "forward")
      BY <1>1, <1>2, <2>2
    <3>3. PICK label : label = IF stuck THEN "inflate"
                                ELSE IF Inflated(chunk) = <<>> THEN "loop" ELSE "forward"
      OBVIOUS
    <3>4. label \in {"inflate", "loop", "forward"} /\ (label = "loop" => Inflated(chunk) = <<>>)
          /\ (label = "forward" => Inflated(chunk) # <<>>)
      BY <3>3
    <3>5. label \in ServerLabels
      BY <3>4 DEF ServerLabels
    <3>6. Seen("front", Inflated(chunk), label)
      BY <3>2, <3>3
    <3>7. mangled' \in BOOLEAN /\ (mangled => mangled')
      BY <1>0, <3>1 DEF IsBatch
    <3>8. /\ srv' \in ServerStates /\ srv'.todo = Inflated(chunk) /\ srv'.pc = label
          /\ srv'.revents = srv.revents \ {"front"}
          /\ srv'.status = srv.status /\ srv'.exit = srv.exit
      BY <1>0, <1>3, <3>5, <3>6, SeenIs
    <3>9. ~mangled' => n = 1 /\ Inflated(chunk) = chunk[1].data /\ label \in {"loop", "forward"}
      <4>1. SUFFICES ASSUME IsBatch(chunk)
                     PROVE n = 1 /\ Inflated(chunk) = chunk[1].data /\ label \in {"loop", "forward"}
        BY <3>1
      <4>2. n = 1 /\ Inflated(chunk) = chunk[1].data /\ stuck = FALSE
        BY <1>3, <4>1 DEF IsBatch, Inflated, StuckAfter
      <4> QED BY <3>3, <4>2
    <3> QED BY <2>2, <3>4, <3>7, <3>8, <3>9
  <2> QED BY <2>1, <2>2
<1>6. UNCHANGED <<shell, tty, shown, mode, hungup, cli, script, typed>>
  BY DEF read_socket, ServerFrame
<1>7. Types'
  BY <1>4, <1>5, <1>6 DEF World, Types
<1>8. Places'
  BY <1>0, <1>4, <1>5, <1>6 DEF World, Places, Going, Reading, Readable, Lost, Peer
<1>9. OutputStill
  BY <1>0, <1>4, <1>5, <1>6 DEF OutputStill, Sending, ToSend, Satisfied, Reading, Lost
<1>10. ReadsPackets(n)
  BY <1>1, <1>2, <1>3, <1>4, <1>5 DEF ReadsPackets, PiecesOf
<1> QED BY <1>3, <1>7, <1>8, <1>9, <1>10 DEF World

LEMMA OneRaw ==
  ASSUME NEW x \in Pieces
  PROVE  /\ <<Raw(x)>> \in Queues /\ Raw(x) \in Packets
         /\ Raw(x).data = <<x>> /\ <<x>> \in Texts /\ <<Raw(x)>>[1] = Raw(x)
<1>1. <<x>> \in Texts \ {<<>>}
  BY DEF Texts
<1>2. Raw(x) \in Packets /\ Raw(x).data = <<x>>
  BY <1>1 DEF Raw, Packets
<1>3. <<Raw(x)>> \in Queues /\ <<Raw(x)>>[1] = Raw(x)
  BY <1>2 DEF Queues
<1> QED BY <1>1, <1>2, <1>3

LEMMA OneBatch ==
  ASSUME NEW t \in Texts, t # <<>>
  PROVE  <<Batch(t)>> \in Queues /\ Batch(t) \in Packets /\ Batch(t).data = t
<1>2. Batch(t) \in Packets /\ Batch(t).data = t
  BY DEF Batch, Packets
<1>3. <<Batch(t)>> \in Queues
  BY <1>2 DEF Queues
<1> QED BY <1>2, <1>3

LEMMA ReadNothingKeeps ==
  ASSUME World, ServerFrame, ReadNothing
  PROVE  World' /\ InputStill /\ OutputStill
<1>0. /\ srv.pc = "loop" /\ srv \in ServerStates /\ shell \in ShellStates
      /\ srv.exit = Running /\ srv.todo = <<>> /\ mode # "lab1a"
  BY NamesAre DEF World, Types, Places, ReadNothing, Turn, Going
<1>1. UNCHANGED <<conn, tty, shown, mangled, mode, hungup, cli, script, typed>>
  BY DEF ReadNothing, ServerFrame
<1>2. CASE Exit(1, FALSE)
  <2>1. /\ srv' \in ServerStates /\ srv'.todo = <<>> /\ srv'.pc = "done"
        /\ srv'.revents = {} /\ srv'.exit = 1 /\ shell' \in ShellStates
    BY <1>0, <1>2, ExitIs DEF Statuses
  <2>2. /\ shell'.alive = shell.alive /\ shell'.out = shell.out /\ shell'.printed = shell.printed
        /\ shell'.got = shell.got /\ shell'.in = shell.in
    BY <1>0, <1>2, ExitIs DEF Statuses
  <2>3. Types'
    BY <1>1, <2>1 DEF World, Types
  <2>4. Places'
    BY <1>1, <2>1, <2>2 DEF World, Places, Going, Reading, Readable, Lost, Running
  <2>5. InputStill
    BY <1>1, <2>1, <2>2 DEF InputStill, Passed, Open, Going, InHand, Reading
  <2>6. OutputStill
    BY <1>0, <1>1, <2>1, <2>2 DEF OutputStill, Sending, ToSend, Satisfied, Reading
  <2> QED BY <2>3, <2>4, <2>5, <2>6 DEF World
<1>3. CASE Seen("front", <<>>, "loop") /\ UNCHANGED shell
  <2>1. /\ srv' \in ServerStates /\ srv'.todo = <<>> /\ srv'.pc = "loop"
        /\ srv'.revents = srv.revents \ {"front"}
        /\ srv'.status = srv.status /\ srv'.exit = srv.exit
    BY <1>0, <1>3, NamesAre, SeenIs DEF ServerLabels
  <2>3. Types'
    BY <1>1, <1>3, <2>1 DEF World, Types
  <2>4. Places'
    BY <1>0, <1>1, <1>3, <2>1 DEF World, Places, Going, Reading, Readable, Lost
  <2>5. InputStill
    BY <1>0, <1>1, <1>3, <2>1 DEF InputStill, Passed, Open, Going, InHand, Reading
  <2>6. OutputStill
    BY <1>0, <1>1, <1>3, <2>1 DEF OutputStill, Sending, ToSend, Satisfied, Reading
  <2> QED BY <2>3, <2>4, <2>5, <2>6 DEF World
<1> QED BY <1>2, <1>3 DEF ReadNothing

LEMMA InterruptKeeps ==
  ASSUME World, ServerFrame, Interrupt
  PROVE  World' /\ OutputStill /\ (mode # "lab1a" => InputStill)
<1>0. /\ srv.pc = "forward" /\ srv \in ServerStates /\ shell \in ShellStates
      /\ srv.exit = Running /\ srv.todo # <<>> /\ srv.todo \in Texts
      /\ Head(srv.todo) = ETX /\ Len(srv.todo) \in Nat /\ mangled \in BOOLEAN
  <2>1. srv.todo \in Texts
    BY DEF World, Types, ServerStates
  <2> QED BY <2>1, LenNat, NamesAre DEF World, Types, Places, Interrupt, Going
<1>1. UNCHANGED <<conn, tty, shown, mode, hungup, cli, script, typed>>
  BY DEF Interrupt, ServerFrame
<1>2. /\ shell' \in ShellStates
      /\ shell'.alive = shell.alive /\ shell'.out = shell.out /\ shell'.printed = shell.printed
      /\ shell'.got = shell.got /\ shell'.in = shell.in
  <2>1. shell' = [shell EXCEPT !.sigint = shell.alive]
    BY DEF Interrupt
  <2> QED BY <1>0, <2>1 DEF ShellStates
<1>3. CASE mode = "lab1a"
  <2>1. Handle(<<>>, "forward") /\ mangled' = (mangled \/ Len(srv.todo) > 1)
    BY <1>3 DEF Interrupt
  <2>2. /\ srv' \in ServerStates /\ srv'.todo = <<>> /\ srv'.pc = "loop"
        /\ srv'.revents = srv.revents /\ srv'.status = srv.status /\ srv'.exit = srv.exit
    BY <1>0, <2>1, NamesAre, HandleIs DEF ServerLabels
  <2>3. mangled' \in BOOLEAN /\ (mangled => mangled')
    BY <1>0, <2>1
  <2>4. Types'
    BY <1>1, <1>2, <2>2, <2>3 DEF World, Types
  <2>5. Places'
    BY <1>0, <1>1, <1>2, <2>2 DEF World, Places, Going, Reading, Readable, Lost
  <2>6. OutputStill
    BY <1>0, <1>1, <1>2, <2>2, <2>3 DEF OutputStill, Sending, ToSend, Satisfied, Reading
  <2> QED BY <1>3, <2>4, <2>5, <2>6 DEF World
<1>4. CASE mode # "lab1a"
  <2>1. Handle(srv.todo, "interrupted") /\ mangled' = mangled
    BY <1>4 DEF Interrupt
  <2>2. /\ srv' \in ServerStates /\ srv'.todo = srv.todo /\ srv'.pc = "interrupted"
        /\ srv'.revents = srv.revents /\ srv'.status = srv.status /\ srv'.exit = srv.exit
    BY <1>0, <2>1, HandleIs DEF ServerLabels
  <2>4. Types'
    BY <1>1, <1>2, <2>1, <2>2 DEF World, Types
  <2>5. Places'
    BY <1>0, <1>1, <1>2, <1>4, <2>2 DEF World, Places, Going, Reading, Readable, Lost
  <2>6. OutputStill
    BY <1>0, <1>1, <1>2, <2>1, <2>2 DEF OutputStill, Sending, ToSend, Satisfied, Reading
  <2>7. InputStill
    BY <1>0, <1>1, <1>2, <2>1, <2>2 DEF InputStill, Passed, Open, Going, InHand, Reading
  <2> QED BY <2>4, <2>5, <2>6, <2>7 DEF World
<1> QED BY <1>3, <1>4

(* done() called from the loop or out of a buffer for the shell.            *)
LEMMA DoneKeeps ==
  ASSUME World, ServerFrame, UNCHANGED <<conn, tty, shown, mangled>>,
         srv.pc \in {"loop", "forward", "interrupted"}, NEW status \in {0, 1},
         NEW masked \in BOOLEAN, Done(status, masked)
  PROVE  World' /\ InputStill /\ OutputStill
<1>0. srv \in ServerStates /\ shell \in ShellStates /\ srv.exit = Running
  BY NamesAre DEF World, Types, Places
<1>1. UNCHANGED <<conn, tty, shown, mangled, mode, hungup, cli, script, typed>>
  BY DEF ServerFrame
<1>2. /\ srv' \in ServerStates /\ srv'.todo = <<>> /\ srv'.pc = "last"
      /\ srv'.revents = {} /\ srv'.status = status /\ srv'.exit = srv.exit
      /\ shell' \in ShellStates
  BY <1>0, DoneIs
<1>3. /\ shell'.alive = shell.alive /\ shell'.out = shell.out /\ shell'.printed = shell.printed
      /\ shell'.got = shell.got /\ shell'.in = shell.in
  BY <1>0, DoneIs
<1>4. Types'
  BY <1>1, <1>2 DEF World, Types
<1>5. Places'
  BY <1>0, <1>1, <1>2, <1>3 DEF World, Places, Going, Reading, Readable, Lost, Running
<1>6. InputStill
  BY <1>1, <1>2, <1>3 DEF InputStill, Passed, Open, Going, InHand, Reading
<1>7. OutputStill
  BY <1>0, <1>1, <1>2, <1>3 DEF OutputStill, Sending, ToSend, Satisfied, Reading
<1> QED BY <1>4, <1>5, <1>6, <1>7 DEF World

LEMMA EndsKeep ==
  ASSUME World, ServerFrame, Quit \/ sigpipe_handler \/ FrontHangUp \/ ShellHangUp
  PROVE  World' /\ InputStill /\ OutputStill
<1>0. srv.masked \in BOOLEAN
  BY DEF World, Types, ServerStates
<1>1. UNCHANGED <<conn, tty, shown, mangled>>
  BY DEF Quit, sigpipe_handler, FrontHangUp, ShellHangUp
<1>2. srv.pc \in {"loop", "forward", "interrupted"}
  BY DEF Quit, sigpipe_handler, FrontHangUp, ShellHangUp, Turn, Writing
<1>3. PICK status \in {0, 1}, masked \in BOOLEAN : Done(status, masked)
  BY <1>0 DEF Quit, sigpipe_handler, FrontHangUp, ShellHangUp
<1> QED BY <1>1, <1>2, <1>3, DoneKeeps

LEMMA ForwardKeeps ==
  ASSUME World, ServerFrame, Forward
  PROVE  World' /\ OutputStill
<1>0. /\ srv.pc \in {"forward", "interrupted"} /\ srv \in ServerStates /\ shell \in ShellStates
      /\ srv.exit = Running /\ srv.todo # <<>> /\ srv.todo \in Texts
  BY NamesAre DEF World, Types, Places, Forward, Writing, ServerStates
<1>1. UNCHANGED <<conn, tty, shown, mangled, mode, hungup, cli, script, typed>>
  BY DEF Forward, ServerFrame
<1>2. Head(srv.todo) \in Pieces /\ Tail(srv.todo) \in Texts
  BY <1>0 DEF Texts
<1>3. /\ shell' \in ShellStates
      /\ shell'.alive = shell.alive /\ shell'.out = shell.out /\ shell'.printed = shell.printed
  <2>1. shell' = [shell EXCEPT !.in = Append(@, Head(srv.todo))]
    BY DEF Forward
  <2>2. shell.in \in Texts
    BY <1>0 DEF ShellStates
  <2>3. Append(shell.in, Head(srv.todo)) \in Texts
    BY <1>2, <2>2, Grown
  <2> QED BY <1>0, <2>1, <2>3 DEF ShellStates
<1>4. /\ srv' \in ServerStates /\ srv'.todo = Tail(srv.todo) /\ srv'.pc \in {"loop", "forward"}
      /\ (srv'.pc = "loop" <=> srv'.todo = <<>>)
      /\ srv'.revents = srv.revents /\ srv'.status = srv.status /\ srv'.exit = srv.exit
  <2>1. Handle(Tail(srv.todo), "forward")
    BY DEF Forward
  <2>2. "forward" \in ServerLabels
    BY DEF ServerLabels
  <2>3. /\ srv' \in ServerStates /\ srv'.todo = Tail(srv.todo)
        /\ Tail(srv.todo) = <<>> => srv'.pc = "loop"
        /\ Tail(srv.todo) # <<>> => srv'.pc = "forward"
        /\ srv'.revents = srv.revents /\ srv'.status = srv.status /\ srv'.exit = srv.exit
    BY <1>0, <1>2, <2>1, <2>2, HandleIs
  <2> QED BY <2>3
<1>5. Types'
  BY <1>1, <1>3, <1>4 DEF World, Types
<1>6. Places'
  BY <1>0, <1>1, <1>3, <1>4 DEF World, Places, Going, Reading, Readable, Lost
<1>7. OutputStill
  BY <1>0, <1>1, <1>3, <1>4 DEF OutputStill, Sending, ToSend, Satisfied, Reading
<1> QED BY <1>5, <1>6, <1>7 DEF World

LEMMA read_bashKeeps ==
  ASSUME World, ServerFrame, read_bash
  PROVE  World' /\ InputStill
<1>0. /\ srv.pc = "loop" /\ srv \in ServerStates /\ shell \in ShellStates
      /\ srv.exit = Running /\ shell.out \in Texts /\ shell.out # <<>>
  BY NamesAre DEF World, Types, Places, Going, read_bash, Turn, ShellStates
<1>1. UNCHANGED <<conn, tty, shown, mangled, mode, hungup, cli, script, typed>>
  BY DEF read_bash, ServerFrame
<1>2. /\ UpToBuffer(shell.out) \in Texts /\ UpToBuffer(shell.out) # <<>>
      /\ SubSeq(shell.out, Len(UpToBuffer(shell.out)) + 1, Len(shell.out)) \in Texts
  BY <1>0, ReadTexts
<1>3. /\ srv' \in ServerStates /\ srv'.todo = UpToBuffer(shell.out) /\ srv'.pc = "reply"
      /\ srv'.revents = srv.revents \ {"shell"}
      /\ srv'.status = srv.status /\ srv'.exit = srv.exit
  BY <1>0, <1>2, SeenIs DEF read_bash, ServerLabels
<1>4. /\ shell' \in ShellStates
      /\ shell'.alive = shell.alive /\ shell'.got = shell.got /\ shell'.in = shell.in
  <2>1. shell' = [shell EXCEPT !.out = SubSeq(@, Len(UpToBuffer(shell.out)) + 1, Len(@))]
    BY <1>3 DEF read_bash
  <2> QED BY <1>0, <1>2, <2>1 DEF ShellStates
<1>5. Types'
  BY <1>1, <1>3, <1>4 DEF World, Types
<1>6. Places'
  BY <1>0, <1>1, <1>2, <1>3, <1>4 DEF World, Places, Going, Reading, Readable, Lost
<1>7. InputStill
  BY <1>0, <1>1, <1>3, <1>4 DEF InputStill, Passed, Open, Going, InHand, Reading
<1> QED BY <1>5, <1>6, <1>7 DEF World

LEMMA last_readKeeps ==
  ASSUME World, ServerFrame, last_read
  PROVE  World' /\ InputStill
<1>0. /\ srv.pc = "last" /\ srv \in ServerStates /\ shell \in ShellStates
      /\ srv.exit = Running /\ shell.out \in Texts
  BY NamesAre DEF World, Types, Places, Going, last_read, ShellStates
<1>1. UNCHANGED <<conn, tty, shown, mangled, mode, hungup, cli, script, typed>>
  BY DEF last_read, ServerFrame
<1>2. /\ UpToBuffer(shell.out) \in Texts
      /\ SubSeq(shell.out, Len(UpToBuffer(shell.out)) + 1, Len(shell.out)) \in Texts
  BY <1>0, ReadTexts
<1>3. /\ srv' \in ServerStates /\ srv'.todo = UpToBuffer(shell.out) /\ srv'.pc = "last"
      /\ srv'.revents = srv.revents
      /\ srv'.status = srv.status /\ srv'.exit = srv.exit
  BY <1>0, <1>2 DEF last_read, ServerStates
<1>4. /\ shell' \in ShellStates
      /\ shell'.alive = shell.alive /\ shell'.got = shell.got /\ shell'.in = shell.in
  <2>1. shell' = [shell EXCEPT !.out = SubSeq(@, Len(UpToBuffer(shell.out)) + 1, Len(@))]
    BY <1>3 DEF last_read
  <2> QED BY <1>0, <1>2, <2>1 DEF ShellStates
<1>5. Types'
  BY <1>1, <1>3, <1>4 DEF World, Types
<1>6. Places'
  BY <1>0, <1>1, <1>2, <1>3, <1>4 DEF World, Places, Going, Reading, Readable, Lost
<1>7. InputStill
  BY <1>0, <1>1, <1>3, <1>4 DEF InputStill, Passed, Open, Going, Reading
<1> QED BY <1>5, <1>6, <1>7 DEF World

(* What the client can tell of a connection that has received more.         *)
LEMMA StaysReadable ==
  ASSUME NEW c \in Connections, NEW pieces \in Queues, NEW d,
         NEW side \in Sides, side = "server", d = Written(c, side, pieces)
  PROVE  /\ d \in Connections /\ Worse(c, d) /\ d.fin = c.fin
         /\ d.queue["server"] = c.queue["server"]
         /\ Readable(c, "client") => Readable(d, "client")
         /\ c.fin["client"] => d.queue["client"] = c.queue["client"]
         /\ ~c.fin["client"] => d.queue["client"] = c.queue["client"] \o pieces
         /\ Lost(d, "server") <=> Lost(c, "server")
<1>0. "server" \in Sides /\ "client" \in Sides /\ Peer("server") = "client" /\ Peer("client") = "server"
  BY NamesAre
<1>1. /\ d \in Connections /\ Worse(c, d) /\ d.fin = c.fin
      /\ d.queue["server"] = c.queue["server"]
      /\ c.fin["client"] => d.queue = c.queue
      /\ ~c.fin["client"] => d.queue["client"] = c.queue["client"] \o pieces
      /\ \A t \in Sides : Lost(d, t) <=> Lost(c, t)
  <2>1. \A s \in Sides : d = Written(c, s, pieces) =>
          /\ d \in Connections /\ Worse(c, d) /\ d.fin = c.fin
          /\ d.queue[s] = c.queue[s]
          /\ c.fin[Peer(s)] => d.queue = c.queue
          /\ ~c.fin[Peer(s)] => d.queue[Peer(s)] = c.queue[Peer(s)] \o pieces
          /\ \A t \in Sides : Lost(d, t) <=> Lost(c, t)
    BY WrittenIs
  <2>2. side = "server" /\ Peer(side) = "client"
    BY NamesAre
  <2> QED BY <2>1, <2>2
<1>2. c.queue["client"] \in Queues
  BY <1>0 DEF Connections
<1>3. c.queue["client"] # <<>> => c.queue["client"] \o pieces # <<>>
  <2>1. /\ c.queue["client"] \o pieces \in Queues
        /\ Len(c.queue["client"] \o pieces) = Len(c.queue["client"]) + Len(pieces)
    BY <1>2, QueuesJoined
  <2>2. /\ Len(pieces) \in Nat /\ Len(c.queue["client"]) \in Nat
        /\ c.queue["client"] # <<>> => Len(c.queue["client"]) # 0
    BY <1>2, QueueIs
  <2>3. c.queue["client"] \o pieces = <<>> => Len(c.queue["client"] \o pieces) = 0
    BY <2>1, QueueIs
  <2> QED BY <2>1, <2>2, <2>3
<1>4. Lost(c, "client") => Lost(d, "client")
  BY <1>0, <1>1
<1>5. /\ c.fin["client"] => d.queue["client"] = c.queue["client"]
      /\ ~c.fin["client"] => d.queue["client"] = c.queue["client"] \o pieces
  BY <1>0, <1>1
<1>6. Readable(c, "client") => Readable(d, "client")
  BY <1>0, <1>1, <1>3, <1>4, <1>5 DEF Readable
<1> QED BY <1>0, <1>1, <1>5, <1>6

(* The front takes what the server writes.                                 *)
Arrives(pieces) ==
  \/ mode = "lab1a" /\ conn' = conn /\ shown' = shown \o pieces[1].data
  \/ /\ mode # "lab1a" /\ ~Lost(conn, "server") /\ shown' = shown
     /\ conn' = Written(conn, "server", pieces)

(* The server goes on after that.                                          *)
GoesOn ==
  /\ srv' \in ServerStates /\ shell' \in ShellStates /\ srv'.exit = srv.exit
  /\ shell'.alive = shell.alive /\ shell'.out = shell.out /\ shell'.printed = shell.printed
  /\ shell'.got = shell.got /\ shell'.in = shell.in
  /\ \/ srv.pc = "reply" /\ srv'.pc = "loop" /\ srv'.todo = <<>> /\ srv'.revents = srv.revents
     \/ srv.pc = "reply" /\ srv'.pc = "reply" /\ srv'.todo # <<>> /\ srv'.revents = srv.revents
     \/ srv'.pc = "last" /\ srv'.status # Running
     \/ srv.pc = "last" /\ srv'.pc = "wait" /\ srv'.status # Running

LEMMA ArrivesKeeps ==
  ASSUME World, ServerFrame, UNCHANGED <<tty, mangled>>, srv.exit = Running,
         NEW pieces \in Queues, pieces[1].data \in Texts, Arrives(pieces), GoesOn
  PROVE  World' /\ InputStill
<1>1. UNCHANGED <<tty, mangled, mode, hungup, cli, script, typed>>
  BY DEF ServerFrame
<1>2. /\ conn' \in Connections /\ conn'.fin = conn.fin
      /\ conn'.queue["server"] = conn.queue["server"]
      /\ Readable(conn, "client") => Readable(conn', "client")
      /\ Lost(conn, "client") => Lost(conn', "client")
  <2>1. CASE conn' = conn
    BY <2>1 DEF World, Types
  <2>2. CASE conn' = Written(conn, "server", pieces)
    <3>1. conn \in Connections
      BY DEF World, Types
    <3> QED BY <2>2, <3>1, StaysReadable, NamesAre DEF Worse
  <2> QED BY <2>1, <2>2 DEF Arrives
<1>3. shown' \in Texts
  <2>1. shown \in Texts
    BY DEF World, Types
  <2>2. shown \o pieces[1].data \in Texts
    BY <2>1, Joined
  <2> QED BY <2>1, <2>2 DEF Arrives
<1>4. Types'
  BY <1>1, <1>2, <1>3 DEF World, Types, GoesOn
<1>5. Places'
  BY <1>1, <1>2, NamesAre DEF World, Places, Going, Reading, GoesOn
<1>6. InputStill
  BY <1>1, <1>2 DEF InputStill, Passed, Open, Going, InHand, Reading, GoesOn
<1> QED BY <1>4, <1>5, <1>6 DEF World

(* The front refuses it.                                                   *)
Refused ==
  /\ mode # "lab1a" /\ Lost(conn, "server") /\ shown' = shown
  /\ conn' = ErrorDelivered(conn, "server")
  /\ Done(0, TRUE) \/ Exit(1, FALSE)

LEMMA RefusedKeeps ==
  ASSUME World, ServerFrame, UNCHANGED <<tty, mangled>>, srv.exit = Running, Refused
  PROVE  World' /\ InputStill /\ OutputStill
<1>0. srv \in ServerStates /\ shell \in ShellStates /\ conn \in Connections
  BY DEF World, Types
<1>1. UNCHANGED <<shown, tty, mangled, mode, hungup, cli, script, typed>>
  BY DEF ServerFrame, Refused
<1>2. /\ conn' \in Connections /\ Worse(conn, conn') /\ conn'.fin = conn.fin
      /\ conn'.queue = conn.queue /\ Lost(conn', "server")
  BY <1>0, NamesAre, ErrorDeliveredIs DEF Refused
<1>3. /\ Readable(conn, "client") => Readable(conn', "client")
      /\ Lost(conn, "client") => Lost(conn', "client")
      /\ conn'.rst["client"] = "no" => conn.rst["client"] = "no"
  BY <1>2, NamesAre DEF Worse, Readable
<1>4. /\ srv' \in ServerStates /\ shell' \in ShellStates
      /\ srv'.pc \in {"last", "done"} /\ srv'.revents = {} /\ srv'.todo = <<>>
      /\ srv'.pc = "last" => srv'.status # Running /\ srv'.exit = Running
      /\ srv'.pc = "done" => srv'.exit = 1
      /\ shell'.alive = shell.alive /\ shell'.out = shell.out /\ shell'.printed = shell.printed
      /\ shell'.got = shell.got /\ shell'.in = shell.in
  <2>1. CASE Done(0, TRUE)
    <3>1. 0 \in {0, 1} /\ TRUE \in BOOLEAN /\ Running = -1
      BY NamesAre
    <3>2. /\ srv' \in ServerStates /\ srv'.todo = <<>> /\ srv'.pc = "last"
          /\ srv'.revents = {} /\ srv'.status = 0 /\ srv'.exit = srv.exit
          /\ shell' \in ShellStates
          /\ shell'.alive = shell.alive /\ shell'.out = shell.out
          /\ shell'.printed = shell.printed
          /\ shell'.got = shell.got /\ shell'.in = shell.in
      BY <1>0, <2>1, <3>1, DoneIs
    <3> QED BY <3>1, <3>2
  <2>2. CASE Exit(1, FALSE)
    BY <1>0, <2>2, ExitIs DEF Statuses
  <2> QED BY <2>1, <2>2 DEF Refused
<1>5. Types'
  BY <1>1, <1>2, <1>4 DEF World, Types
<1>6. Places'
  BY <1>1, <1>2, <1>3, <1>4, NamesAre DEF World, Places, Going, Reading
<1>7. InputStill
  BY <1>1, <1>4 DEF InputStill, Passed, Open, Going
<1>8. OutputStill
  BY <1>1, <1>2, <1>3, <1>4, NamesAre DEF OutputStill, Sending, Satisfied, Reading, Refused
<1> QED BY <1>5, <1>6, <1>7, <1>8 DEF World

(* What Reply and LastWrite do.                                            *)
SendsOne ==             \* a raw character
  \E x \in Pieces, t \in Texts :
    /\ srv.pc \in {"reply", "last"}
    /\ srv.todo # <<>> /\ x = Head(srv.todo) /\ t = Tail(srv.todo)
    /\ Arrives(<<Raw(x)>>)
    /\ srv.pc = "reply" => srv'.todo = t /\ x # EOT
    /\ srv.pc = "last" /\ x # EOT => srv'.todo = t /\ srv'.pc = "last"
SendsAll ==             \* a batch
  /\ srv.pc = "reply" /\ mode = "compress" /\ Arrives(<<Batch(srv.todo)>>)
  /\ srv'.todo = <<>>

LEMMA ReplyKeeps ==
  ASSUME World, ServerFrame, Reply
  PROVE  /\ World' /\ InputStill
         /\ \/ OutputStill
            \/ /\ Sending /\ srv.todo # <<>> /\ Head(srv.todo) = EOT
               /\ shell'.printed = shell.printed
            \/ GoesOn /\ (SendsOne \/ SendsAll)
<1>0. /\ srv \in ServerStates /\ shell \in ShellStates /\ srv.exit = Running
      /\ srv.pc = "reply" /\ srv.todo \in Texts /\ srv.todo # <<>> /\ srv.masked \in BOOLEAN
  BY NamesAre DEF World, Types, Places, Reply, ServerStates
<1>1. UNCHANGED <<tty, mangled>>
  BY DEF Reply
<1>2. Head(srv.todo) \in Pieces /\ Tail(srv.todo) \in Texts
  BY <1>0 DEF Texts
<1>3. ASSUME Done(0, srv.masked) PROVE GoesOn /\ srv'.todo = <<>>
  BY <1>0, <1>3, DoneIs, NamesAre DEF GoesOn
<1>4. ASSUME NEW todo \in Texts, Handle(todo, "reply"), UNCHANGED shell
      PROVE  GoesOn /\ srv'.todo = todo
  <2>1. "reply" \in ServerLabels
    BY DEF ServerLabels
  <2>2. /\ srv' \in ServerStates /\ srv'.todo = todo
        /\ todo = <<>> => srv'.pc = "loop"
        /\ todo # <<>> => srv'.pc = "reply"
        /\ srv'.revents = srv.revents /\ srv'.exit = srv.exit
    BY <1>0, <1>4, <2>1, HandleIs
  <2> QED BY <1>0, <1>4, <2>2 DEF GoesOn
<1>5. CASE mode = "compress"
  <2> DEFINE then == IF EOT \in Range(srv.todo) THEN Done(0, srv.masked)
                     ELSE Handle(<<>>, "reply") /\ UNCHANGED shell
  <2>1. Put(<<Batch(srv.todo)>>, then)
    BY <1>5 DEF Reply
  <2>2. then => GoesOn /\ srv'.todo = <<>>
    BY <1>3, <1>4, NamesAre
  <2>3. <<Batch(srv.todo)>> \in Queues /\ Batch(srv.todo).data = srv.todo
    BY <1>0, OneBatch
  <2>4. Types
    BY DEF World
  <2> HIDE DEF then
  <2>5. (Arrives(<<Batch(srv.todo)>>) /\ then) \/ Refused
    BY <2>1, <2>3, <2>4, PutIs DEF Arrives, Refused
  <2>6. CASE Arrives(<<Batch(srv.todo)>>) /\ then
    <3>1. <<Batch(srv.todo)>>[1].data \in Texts
      BY <1>0, <2>3
    <3>2. World' /\ InputStill
      BY <1>0, <1>1, <2>2, <2>3, <2>6, <3>1, ArrivesKeeps
    <3>3. SendsAll /\ GoesOn
      BY <1>0, <1>5, <2>2, <2>6 DEF SendsAll
    <3> QED BY <3>2, <3>3
  <2>7. CASE Refused
    BY <1>0, <1>1, <2>7, RefusedKeeps
  <2> QED BY <2>5, <2>6, <2>7
<1>6. CASE mode # "compress" /\ Head(srv.todo) = EOT
  <2>1. Done(0, srv.masked) /\ UNCHANGED <<conn, shown>>
    BY <1>6 DEF Reply
  <2>2. GoesOn
    BY <1>3, <2>1
  <2>3. UNCHANGED <<conn, shown, tty, mangled, mode, hungup, cli, script, typed>>
    BY <1>1, <2>1 DEF ServerFrame
  <2>4. srv'.pc = "last" /\ srv'.todo = <<>>
    BY <1>0, <2>1, DoneIs
  <2>5. Types'
    BY <2>2, <2>3 DEF World, Types, GoesOn
  <2>6. Places'
    BY <1>0, <2>2, <2>3, <2>4, NamesAre DEF World, Places, Going, Reading, GoesOn, Readable, Lost
  <2>7. InputStill
    BY <2>2, <2>3, <2>4 DEF InputStill, Passed, Open, Going, GoesOn
  <2>8. Sending \/ OutputStill
    BY <1>0, <2>2, <2>3, <2>4, NamesAre
       DEF Sending, OutputStill, ToSend, Satisfied, Reading, GoesOn, Lost
  <2>9. shell'.printed = shell.printed
    BY <2>2 DEF GoesOn
  <2> QED BY <1>0, <1>6, <2>5, <2>6, <2>7, <2>8, <2>9 DEF World
<1>7. CASE mode # "compress" /\ Head(srv.todo) # EOT
  <2> DEFINE then == Handle(Tail(srv.todo), "reply") /\ UNCHANGED shell
  <2>1. Put(<<Raw(Head(srv.todo))>>, then)
    BY <1>7 DEF Reply
  <2>2. then => GoesOn /\ srv'.todo = Tail(srv.todo)
    BY <1>2, <1>4
  <2>3. <<Raw(Head(srv.todo))>> \in Queues /\ <<Raw(Head(srv.todo))>>[1].data \in Texts
    BY <1>2, OneRaw
  <2>4. Types
    BY DEF World
  <2> HIDE DEF then
  <2>5. (Arrives(<<Raw(Head(srv.todo))>>) /\ then) \/ Refused
    BY <2>1, <2>3, <2>4, PutIs DEF Arrives, Refused
  <2>6. CASE Arrives(<<Raw(Head(srv.todo))>>) /\ then
    <3>2. World' /\ InputStill
      BY <1>0, <1>1, <2>2, <2>3, <2>6, ArrivesKeeps
    <3>3. SendsOne /\ GoesOn
      BY <1>0, <1>2, <1>7, <2>2, <2>6 DEF SendsOne
    <3> QED BY <3>2, <3>3
  <2>7. CASE Refused
    BY <1>0, <1>1, <2>7, RefusedKeeps
  <2> QED BY <2>5, <2>6, <2>7
<1> QED BY <1>5, <1>6, <1>7

LEMMA LastWriteKeeps ==
  ASSUME World, ServerFrame, LastWrite
  PROVE  /\ World' /\ InputStill
         /\ OutputStill \/ (GoesOn /\ SendsOne)
<1>0. /\ srv \in ServerStates /\ shell \in ShellStates /\ srv.exit = Running
      /\ srv.pc = "last" /\ srv.todo \in Texts /\ srv.todo # <<>> /\ srv.status # Running
  BY NamesAre DEF World, Types, Places, LastWrite, ServerStates
<1>1. UNCHANGED <<tty, mangled>>
  BY DEF LastWrite
<1>2. Head(srv.todo) \in Pieces /\ Tail(srv.todo) \in Texts
  BY <1>0 DEF Texts
<1> DEFINE then == /\ UNCHANGED shell
                   /\ srv' = IF Head(srv.todo) = EOT THEN [srv EXCEPT !.pc = "wait", !.todo = <<>>]
                             ELSE [srv EXCEPT !.todo = Tail(@)]
<1>3. Put(<<Raw(Head(srv.todo))>>, then)
  BY DEF LastWrite
<1>4. ASSUME then
      PROVE  /\ GoesOn
             /\ Head(srv.todo) # EOT => srv'.todo = Tail(srv.todo) /\ srv'.pc = "last"
  <2>1. shell' = shell
    BY <1>4
  <2>2. CASE Head(srv.todo) = EOT
    <3>1. srv' = [srv EXCEPT !.pc = "wait", !.todo = <<>>]
      BY <1>4, <2>2
    <3>2. /\ srv' \in ServerStates /\ srv'.pc = "wait" /\ srv'.exit = srv.exit
          /\ srv'.status = srv.status
      BY <1>0, <3>1, NamesAre DEF ServerStates, ServerLabels
    <3> QED BY <1>0, <2>1, <2>2, <3>2 DEF GoesOn
  <2>3. CASE Head(srv.todo) # EOT
    <3>1. srv' = [srv EXCEPT !.todo = Tail(@)]
      BY <1>4, <2>3
    <3>2. /\ srv' \in ServerStates /\ srv'.pc = srv.pc /\ srv'.exit = srv.exit
          /\ srv'.status = srv.status /\ srv'.todo = Tail(srv.todo)
      BY <1>0, <1>2, <3>1 DEF ServerStates
    <3> QED BY <1>0, <2>1, <3>2 DEF GoesOn
  <2> QED BY <2>2, <2>3
<1>5. <<Raw(Head(srv.todo))>> \in Queues /\ <<Raw(Head(srv.todo))>>[1].data \in Texts
  BY <1>2, OneRaw
<1>6. Types
  BY DEF World
<1> HIDE DEF then
<1>7. (Arrives(<<Raw(Head(srv.todo))>>) /\ then) \/ Refused
  BY <1>3, <1>5, <1>6, PutIs DEF Arrives, Refused
<1>8. CASE Arrives(<<Raw(Head(srv.todo))>>) /\ then
  <2>1. GoesOn
    BY <1>4, <1>8
  <2>2. World' /\ InputStill
    BY <1>0, <1>1, <2>1, <1>5, <1>8, ArrivesKeeps
  <2>3. SendsOne
    BY <1>0, <1>2, <1>4, <1>8 DEF SendsOne
  <2> QED BY <2>1, <2>2, <2>3
<1>9. CASE Refused
  BY <1>0, <1>1, <1>9, RefusedKeeps
<1> QED BY <1>7, <1>8, <1>9

LEMMA WaitAfterEotKeeps ==
  ASSUME World, ServerFrame, WaitAfterEot
  PROVE  /\ World' /\ InputStill /\ srv.pc = "wait"
         /\ shell'.printed = shell.printed /\ mangled' = mangled
<1>0. /\ srv \in ServerStates /\ shell \in ShellStates /\ srv.pc = "wait" /\ ~shell.alive
      /\ srv.status \in Statuses /\ srv.status # Running
  BY DEF World, Types, Places, WaitAfterEot, ServerStates
<1>1. UNCHANGED <<conn, tty, shown, mangled, mode, hungup, cli, script, typed>>
  BY DEF WaitAfterEot, ServerFrame
<1>2. Exit(srv.status, TRUE) /\ TRUE \in BOOLEAN
  BY DEF WaitAfterEot
<1>3. /\ srv' \in ServerStates /\ srv'.todo = <<>> /\ srv'.pc = "done"
      /\ srv'.revents = {} /\ srv'.exit = srv.status
      /\ shell' \in ShellStates /\ shell'.alive = shell.alive
      /\ shell'.got = shell.got /\ shell'.in = shell.in /\ shell'.printed = shell.printed
  BY <1>0, <1>2, ExitIs
<1>4. Types'
  BY <1>1, <1>3 DEF World, Types
<1>5. Places'
  BY <1>0, <1>1, <1>3 DEF World, Places, Going, Reading, Readable, Lost
<1>6. InputStill
  BY <1>1, <1>3 DEF InputStill, Passed, Open, Going
<1> QED BY <1>0, <1>1, <1>3, <1>4, <1>5, <1>6 DEF World

LEMMA ServerCloses ==
  ASSUME World, NEW politely \in BOOLEAN, conn' = Closed(conn, "server", politely)
  PROVE  /\ conn' \in Connections /\ conn'.fin["server"] /\ conn'.fin["client"] = conn.fin["client"]
         /\ conn'.queue["client"] = conn.queue["client"]
         /\ Lost(conn, "client") => Lost(conn', "client")
         /\ Lost(conn, "server") => Lost(conn', "server")
         /\ conn'.rst["client"] = "no" => conn.rst["client"] = "no"
<1>1. conn \in Connections /\ "server" \in Sides
  BY NamesAre DEF World, Types
<1>2. /\ conn' \in Connections /\ Worse(conn, conn') /\ conn'.fin["server"]
      /\ conn'.fin[Peer("server")] = conn.fin[Peer("server")]
      /\ conn'.queue[Peer("server")] = conn.queue[Peer("server")]
  BY <1>1, ClosedIs
<1> QED BY <1>2, NamesAre DEF Worse

LEMMA LastCloseKeeps ==
  ASSUME World, ServerFrame, LastClose
  PROVE  World' /\ InputStill /\ OutputStill
<1>0. mode # "lab1a" /\ srv.exit # Running /\ srv.pc = "done" /\ FALSE \in BOOLEAN
  BY DEF World, Places, LastClose
<1>1. UNCHANGED <<shell, srv, tty, shown, mangled, mode, hungup, cli, script, typed>>
  BY DEF LastClose, ServerFrame
<1>2. conn' = Closed(conn, "server", FALSE)
  BY DEF LastClose
<1>3. /\ conn' \in Connections /\ conn'.fin["server"] /\ conn'.fin["client"] = conn.fin["client"]
      /\ conn'.queue["client"] = conn.queue["client"]
      /\ Lost(conn, "client") => Lost(conn', "client")
      /\ conn'.rst["client"] = "no" => conn.rst["client"] = "no"
  BY <1>0, <1>2, ServerCloses
<1>4. Types'
  BY <1>1, <1>3 DEF World, Types
<1>5. Places'
  BY <1>0, <1>1, <1>3, NamesAre DEF World, Places, Going, Reading, Readable
<1>6. InputStill
  BY <1>0, <1>1 DEF InputStill, Passed, Open, Going
<1>7. OutputStill
  BY <1>0, <1>1, <1>3 DEF OutputStill, Sending, Satisfied, Reading
<1> QED BY <1>4, <1>5, <1>6, <1>7 DEF World

(* done() has sent the rest and returns.                                    *)
Finished ==
  /\ srv.pc = "last" /\ srv.todo = <<>> /\ shell.out = <<>> /\ shell'.out = <<>>
  /\ shell'.printed = shell.printed /\ shown' = shown /\ mangled' = mangled /\ mode' = mode
  /\ srv'.pc = "done" /\ srv'.exit # Running
  /\ srv'.exit = 0 => mode = "lab1a" \/ ~Lost(conn, "server")
  /\ Reading' => Reading /\ conn'.queue["client"] = conn.queue["client"]
  /\ Satisfied' => Satisfied

LEMMA FinishKeeps ==
  ASSUME World, ServerFrame, Finish
  PROVE  World' /\ InputStill /\ Finished
<1>0. /\ srv \in ServerStates /\ shell \in ShellStates /\ conn \in Connections
      /\ srv.pc = "last" /\ srv.todo = <<>> /\ shell.out = <<>> /\ ~shell.alive
      /\ srv.status \in Statuses /\ srv.status # Running
      /\ 1 \in Statuses /\ 1 # Running /\ TRUE \in BOOLEAN /\ FALSE \in BOOLEAN
  BY NamesAre DEF World, Types, Places, Finish, ServerStates, Statuses
<1>1. UNCHANGED <<tty, shown, mangled, mode, hungup, cli, script, typed>>
  BY DEF Finish, ServerFrame
<1>2. PICK status \in Statuses, collected \in BOOLEAN :
        /\ Exit(status, collected) /\ status # Running
        /\ conn' = conn \/ conn' = Closed(conn, "server", TRUE)
        /\ status = 0 => mode = "lab1a" \/ ~Lost(conn, "server")
  <2>1. CASE mode = "lab1a"
    <3>1. Exit(srv.status, TRUE) /\ conn' = conn
      BY <2>1 DEF Finish
    <3> QED BY <1>0, <2>1, <3>1
  <2>2. CASE mode # "lab1a" /\ Lost(conn, "server")
    <3>1. Exit(1, FALSE) /\ conn' = conn
      BY <2>2 DEF Finish
    <3>2. 1 = 0 => FALSE
      OBVIOUS
    <3> QED BY <1>0, <3>1, <3>2, Zenon
  <2>3. CASE mode # "lab1a" /\ ~Lost(conn, "server")
    <3>1. Exit(srv.status, TRUE) /\ conn' = Closed(conn, "server", TRUE)
      BY <2>3 DEF Finish
    <3> QED BY <1>0, <2>3, <3>1
  <2> QED BY <2>1, <2>2, <2>3
<1>3. /\ srv' \in ServerStates /\ srv'.todo = <<>> /\ srv'.pc = "done"
      /\ srv'.revents = {} /\ srv'.exit = status
      /\ shell' \in ShellStates /\ shell'.alive = shell.alive
      /\ shell'.out = shell.out /\ shell'.printed = shell.printed
      /\ shell'.got = shell.got /\ shell'.in = shell.in
  BY <1>0, <1>2, ExitIs
<1>4. /\ conn' \in Connections /\ conn'.fin["client"] = conn.fin["client"]
      /\ conn'.queue["client"] = conn.queue["client"]
      /\ Lost(conn, "client") => Lost(conn', "client")
      /\ Readable(conn, "client") => Readable(conn', "client")
      /\ conn'.rst["client"] = "no" => conn.rst["client"] = "no"
  <2>1. CASE conn' = conn
    BY <1>0, <2>1
  <2>2. CASE conn' = Closed(conn, "server", TRUE)
    <3>1. /\ conn' \in Connections /\ conn'.fin["server"]
          /\ conn'.fin["client"] = conn.fin["client"]
          /\ conn'.queue["client"] = conn.queue["client"]
          /\ Lost(conn, "client") => Lost(conn', "client")
          /\ conn'.rst["client"] = "no" => conn.rst["client"] = "no"
      BY <1>0, <2>2, ServerCloses
    <3> QED BY <3>1, NamesAre DEF Readable
  <2> QED BY <1>2, <2>1, <2>2
<1>5. Types'
  BY <1>1, <1>3, <1>4 DEF World, Types
<1>6. Places'
  BY <1>0, <1>1, <1>2, <1>3, <1>4, NamesAre DEF World, Places, Going, Reading
<1>7. InputStill
  BY <1>1, <1>3 DEF InputStill, Passed, Open, Going
<1>8. Finished
  BY <1>0, <1>1, <1>2, <1>3, <1>4 DEF Finished, Reading, Satisfied
<1> QED BY <1>5, <1>6, <1>7, <1>8 DEF World

ClientFrame == UNCHANGED <<mode, shell, srv, hungup, script, typed>>

LEMMA ClientPollKeeps ==
  ASSUME World, ClientFrame, ClientPoll
  PROVE  World' /\ InputStill /\ OutputStill
<1>1. /\ cli' \in ClientStates /\ cli'.pc = cli.pc /\ cli'.batch = cli.batch
      /\ cli'.exit = cli.exit /\ cli'.revents = ClientEvents
  BY DEF World, Types, ClientPoll, ClientStates, ClientEvents
<1>2. /\ "socket" \in ClientEvents => Readable(conn, "client")
      /\ "socketHup" \in ClientEvents => Lost(conn, "client")
      /\ "stdinHup" \in ClientEvents => hungup
  BY DEF ClientEvents
<1>3. UNCHANGED <<conn, tty, shown, mangled, mode, shell, srv, hungup, script, typed>>
  BY DEF ClientPoll, ClientFrame
<1>4. Types'
  BY <1>1, <1>3 DEF World, Types
<1>5. Places'
  BY <1>1, <1>2, <1>3 DEF World, Places, Going, Reading, Readable, Lost
<1>6. InputStill
  BY <1>1, <1>3 DEF InputStill, Passed, Open, Going, InHand, Reading
<1>7. OutputStill
  BY <1>1, <1>3 DEF OutputStill, Sending, ToSend, Satisfied, Reading
<1> QED BY <1>4, <1>5, <1>6, <1>7 DEF World

(* The client has read the first n packets of its queue.                    *)
TakesPackets(n) ==
  /\ mode # "lab1a" /\ Reading
  /\ n \in 1..Len(UpToBuffer(conn.queue["client"]))
  /\ conn'.queue["client"] = SubSeq(conn.queue["client"], n + 1, Len(conn.queue["client"]))
  /\ conn'.rst = conn.rst /\ cli'.exit = cli.exit /\ cli.exit = Running
  /\ mode = "plain" => shown' = shown \o PiecesOf(conn.queue["client"], n)
  /\ mode # "plain" /\ ~mangled' => n = 1 /\ shown' = shown \o conn.queue["client"][1].data

LEMMA ClientReadKeeps ==
  ASSUME World, ClientFrame, ClientRead
  PROVE  /\ World' /\ InputStill /\ (mangled => mangled')
         /\ \E n \in Nat : TakesPackets(n)
<1>0. /\ cli.pc = "loop" /\ cli \in ClientStates /\ conn \in Connections
      /\ cli.exit = Running /\ mangled \in BOOLEAN /\ Reading /\ mode # "lab1a"
      /\ conn.queue["client"] \in Queues /\ shown \in Texts
  BY NamesAre DEF World, Types, Places, ClientRead, ClientTurn, Connections, Reading
<1>1. PICK n \in 1..Len(UpToBuffer(conn.queue["client"])) :
        LET chunk == Take(n, conn.queue["client"])
        IN  /\ conn' = Delivered(conn, "client", n)
            /\ IF mode = "plain"
                 THEN /\ shown' = shown \o [i \in 1..n |-> chunk[i].data[1]]
                      /\ ClientSeen("socket", "loop") /\ UNCHANGED mangled
                 ELSE /\ mangled' = (mangled \/ ~IsBatch(chunk))
                      /\ \E stuck \in StuckAfter(chunk) :
                           IF stuck THEN ClientSeen("socket", "inflate") /\ UNCHANGED shown
                           ELSE ClientSeen("socket", "loop") /\ shown' = shown \o Inflated(chunk)
  BY DEF ClientRead
<1>2. PICK chunk : chunk = Take(n, conn.queue["client"])
  OBVIOUS
<1>3. /\ n \in Nat /\ 1 <= n /\ n <= Len(conn.queue["client"]) /\ Len(chunk) = n
      /\ Inflated(chunk) \in Texts
      /\ [i \in 1..n |-> chunk[i].data[1]] \in Texts
      /\ \A i \in 1..n : chunk[i] = conn.queue["client"][i]
  BY <1>0, <1>2, ReadPackets
<1>4. /\ conn' \in Connections /\ conn'.fin = conn.fin /\ conn'.rst = conn.rst
      /\ conn'.queue["client"] = SubSeq(conn.queue["client"], n + 1, Len(conn.queue["client"]))
      /\ conn'.queue["server"] = conn.queue["server"]
  <2>1. conn' = Delivered(conn, "client", n)
    BY <1>1
  <2>2. /\ "client" \in Sides /\ conn \in Connections /\ n \in Nat
        /\ n <= Len(conn.queue["client"])
    BY <1>0, <1>3, NamesAre
  <2>3. /\ conn' \in Connections /\ conn'.fin = conn.fin
        /\ conn'.rst = conn.rst
        /\ conn'.queue["client"] = SubSeq(conn.queue["client"], n + 1, Len(conn.queue["client"]))
        /\ \A t \in Sides : t # "client" => conn'.queue[t] = conn.queue[t]
    BY <2>1, <2>2, DeliveredIs
  <2> QED BY <2>3, NamesAre
<1>5. /\ cli' \in ClientStates /\ cli'.pc \in {"inflate", "loop"}
      /\ cli'.revents = cli.revents \ {"socket"}
      /\ cli'.batch = cli.batch /\ cli'.exit = cli.exit
      /\ mangled' \in BOOLEAN /\ (mangled => mangled') /\ shown' \in Texts
      /\ mode = "plain" => shown' = shown \o [i \in 1..n |-> chunk[i].data[1]]
      /\ mode # "plain" /\ ~mangled' => n = 1 /\ shown' = shown \o chunk[1].data
  <2>0. "loop" \in ClientLabels /\ "inflate" \in ClientLabels
    BY DEF ClientLabels
  <2>1. CASE mode = "plain"
    <3>1. /\ shown' = shown \o [i \in 1..n |-> chunk[i].data[1]]
          /\ ClientSeen("socket", "loop") /\ mangled' = mangled
      BY <1>1, <1>2, <2>1
    <3>2. shown' \in Texts
      BY <1>0, <1>3, <3>1, Joined
    <3> QED BY <1>0, <2>0, <2>1, <3>1, <3>2, ClientSeenIs
  <2>2. CASE mode # "plain"
    <3>1. mangled' = (mangled \/ ~IsBatch(chunk))
      BY <1>1, <1>2, <2>2
    <3>2. PICK stuck \in StuckAfter(chunk) :
            IF stuck THEN ClientSeen("socket", "inflate") /\ UNCHANGED shown
            ELSE ClientSeen("socket", "loop") /\ shown' = shown \o Inflated(chunk)
      BY <1>1, <1>2, <2>2
    <3>3. mangled' \in BOOLEAN /\ (mangled => mangled')
      BY <1>0, <3>1 DEF IsBatch
    <3>4. shown \o Inflated(chunk) \in Texts
      BY <1>0, <1>3, Joined
    <3>5. shown' \in Texts /\ (ClientSeen("socket", "inflate") \/ ClientSeen("socket", "loop"))
      BY <1>0, <3>2, <3>4
    <3>6. ~mangled' => n = 1 /\ shown' = shown \o chunk[1].data
      <4>1. SUFFICES ASSUME IsBatch(chunk) PROVE n = 1 /\ shown' = shown \o chunk[1].data
        BY <3>1
      <4>2. n = 1 /\ Inflated(chunk) = chunk[1].data /\ stuck = FALSE
        BY <1>3, <3>2, <4>1 DEF IsBatch, Inflated, StuckAfter
      <4> QED BY <3>2, <4>2
    <3> QED BY <1>0, <2>0, <2>2, <3>3, <3>5, <3>6, ClientSeenIs
  <2> QED BY <2>1, <2>2
<1>6. UNCHANGED <<tty, mode, shell, srv, hungup, script, typed>>
  BY DEF ClientRead, ClientFrame
<1>7. Types'
  BY <1>4, <1>5, <1>6 DEF World, Types
<1>8. Places'
  BY <1>0, <1>4, <1>5, <1>6 DEF World, Places, Going, Reading, Readable, Lost
<1>9. InputStill
  BY <1>0, <1>4, <1>5, <1>6 DEF InputStill, Passed, Open, Going, InHand, Reading
<1>10. chunk[1] = conn.queue["client"][1]
  BY <1>3
<1>11. TakesPackets(n)
  BY <1>0, <1>1, <1>2, <1>4, <1>5, <1>10 DEF TakesPackets, PiecesOf
<1> QED BY <1>3, <1>5, <1>7, <1>8, <1>9, <1>11 DEF World

(* What myexit() leaves of the session.                                    *)
LEMMA MyexitKeeps ==
  ASSUME World, ClientFrame, UNCHANGED <<shown, mangled>>, tty' \in Texts,
         Reading, mode # "lab1a", NEW status \in {0, 1, SIGPIPE}, myexit(status)
  PROVE  /\ World' /\ InputStill /\ ((Satisfied' => Satisfied) => OutputStill)
         /\ ~Reading' /\ cli'.exit = status /\ (Sending' => Sending)
         /\ Lost(conn, "client") => Lost(conn', "client")
         /\ conn'.rst["client"] = "no" => conn.rst["client"] = "no"
<1>0. cli \in ClientStates /\ conn \in Connections
  BY DEF World, Types
<1>1. /\ cli' \in ClientStates /\ cli'.pc = "done" /\ cli'.exit = status
      /\ cli'.revents = {} /\ conn' \in Connections /\ Worse(conn, conn')
      /\ conn'.queue["server"] = conn.queue["server"]
      /\ conn'.fin["server"] = conn.fin["server"] /\ conn'.fin["client"]
  BY <1>0, MyexitIs
<1>2. /\ Lost(conn, "client") => Lost(conn', "client")
      /\ Lost(conn, "server") => Lost(conn', "server")
      /\ conn'.rst["client"] = "no" => conn.rst["client"] = "no"
  BY <1>1, NamesAre DEF Worse
<1>3. UNCHANGED <<shown, mangled, mode, shell, srv, hungup, script, typed>>
  BY DEF ClientFrame
<1>4. Types'
  BY <1>1, <1>3 DEF World, Types
<1>5. Places'
  BY <1>0, <1>1, <1>3 DEF World, Places, Going, Reading
<1>6. InputStill
  BY <1>1, <1>3 DEF InputStill, Passed, Open, Going, InHand, Reading
<1>7. ~Reading' /\ (Sending' => Sending)
  BY <1>1, <1>2, <1>3 DEF Reading, Sending
<1>8. (Satisfied' => Satisfied) => OutputStill
  BY <1>1, <1>2, <1>3 DEF OutputStill, Sending, ToSend, Reading
<1> QED BY <1>1, <1>2, <1>4, <1>5, <1>6, <1>7, <1>8 DEF World

(* The client finds its queue empty: the server has closed its end, or the  *)
(* connection is lost.                                                     *)
ReadsTheEnd ==
  /\ mode # "lab1a" /\ Reading /\ ~Reading' /\ conn.queue["client"] = <<>>
  /\ UNCHANGED <<shown, shell, srv, mode, mangled>>
  /\ Sending' => Sending
  /\ Satisfied' => srv.exit # Running

LEMMA ClientReadEndKeeps ==
  ASSUME World, ClientFrame, ClientReadEnd
  PROVE  World' /\ InputStill /\ ReadsTheEnd
<1>0. /\ cli.pc = "loop" /\ Reading /\ mode # "lab1a" /\ conn.queue["client"] = <<>>
      /\ Readable(conn, "client") /\ tty \in Texts
      /\ conn.fin["server"] => srv.exit # Running
  BY DEF World, Types, Places, ClientReadEnd, ClientTurn, Reading
<1>1. UNCHANGED <<tty, shown, mangled, mode, shell, srv, hungup, script, typed>>
  BY DEF ClientReadEnd, ClientFrame
<1>2. PICK status \in {0, 1, SIGPIPE} :
        myexit(status) /\ (status = 0 => conn.rst["client"] # "error")
  <2>1. 1 # 0
    OBVIOUS
  <2>2. CASE conn.rst["client"] = "error"
    <3>1. myexit(1)
      BY <2>2 DEF ClientReadEnd
    <3> QED BY <2>1, <3>1, Zenon
  <2>3. CASE conn.rst["client"] # "error"
    <3>1. myexit(0)
      BY <2>3 DEF ClientReadEnd
    <3> QED BY <2>3, <3>1
  <2> QED BY <2>2, <2>3
<1>3. tty' \in Texts
  BY <1>0, <1>1
<1>4. /\ World' /\ InputStill
      /\ ~Reading' /\ cli'.exit = status /\ (Sending' => Sending)
      /\ conn'.rst["client"] = "no" => conn.rst["client"] = "no"
  BY <1>0, <1>1, <1>2, <1>3, MyexitKeeps
<1>5. ASSUME Satisfied' PROVE srv.exit # Running
  <2>1. conn.rst["client"] = "no"
    BY <1>4, <1>5 DEF Satisfied
  <2> QED BY <1>0, <2>1, NamesAre DEF Readable, Lost
<1> QED BY <1>0, <1>1, <1>4, <1>5 DEF ReadsTheEnd

LEMMA ClientHangUpKeeps ==
  ASSUME World, ClientFrame, ClientHangUp
  PROVE  World' /\ InputStill /\ OutputStill
<1>0. /\ cli.pc = "loop" /\ Reading /\ mode # "lab1a" /\ tty \in Texts /\ 0 \in {0, 1, SIGPIPE}
      /\ hungup \/ Lost(conn, "client")
  BY DEF World, Types, Places, ClientHangUp, Reading
<1>1. UNCHANGED <<tty, shown, mangled, mode, shell, srv, hungup, script, typed>>
  BY DEF ClientHangUp, ClientFrame
<1>2. myexit(0)
  BY DEF ClientHangUp
<1>3. tty' \in Texts
  BY <1>0, <1>1
<1>4. /\ World' /\ InputStill /\ ((Satisfied' => Satisfied) => OutputStill)
      /\ Lost(conn, "client") => Lost(conn', "client")
  BY <1>0, <1>1, <1>2, <1>3, MyexitKeeps
<1>5. ~Satisfied'
  BY <1>0, <1>1, <1>4 DEF Satisfied, Lost
<1> QED BY <1>4, <1>5

(* The client has read up to a buffer of keys, and has sent the batch or    *)
(* keeps it.                                                               *)
Batched == cli.batch \o UpToBuffer(tty)
ReadsKeys ==
  /\ mode # "lab1a" /\ Reading /\ Reading'
  /\ UNCHANGED <<shell, srv, mode, mangled, script, typed>>
  /\ tty' = SubSeq(tty, Len(UpToBuffer(tty)) + 1, Len(tty))
  /\ \/ cli'.batch = Batched /\ conn'.queue["server"] = conn.queue["server"]
     \/ /\ cli'.batch = <<>> /\ Batched # <<>>
        /\ conn.fin["server"] \/
             conn'.queue["server"] = conn.queue["server"] \o wired(Batched)

LEMMA Sent ==
  ASSUME NEW batch \in Texts, batch # <<>>
  PROVE  wired(batch) \in Queues
<1>1. PICK line \in Texts : line = Append(batch, NUL)
  BY NamesAre, Grown
<1>2. /\ Len(line) \in Nat /\ DOMAIN line = 1..Len(line)
      /\ \A i \in 1..Len(line) : line[i] \in Pieces
  BY LenNat
<1>3. \A i \in 1..Len(line) : Raw(line[i]) \in Packets
  BY <1>2, OneRaw
<1>4. Singles(line) \in Queues
  BY <1>2, <1>3 DEF Queues, Singles
<1> QED BY <1>1, <1>4, OneBatch DEF wired

LEMMA read_batch_stdinKeeps ==
  ASSUME World, ClientFrame, read_batch_stdin
  PROVE  World' /\ OutputStill /\ (InputStill \/ ReadsKeys)
<1>0. /\ cli.pc \in {"loop", "line"} /\ Reading /\ mode # "lab1a" /\ tty \in Texts
      /\ cli \in ClientStates /\ conn \in Connections /\ cli.exit = Running /\ tty # <<>>
      /\ cli.batch \in Texts
  BY NamesAre DEF World, Types, Places, read_batch_stdin, ClientTurn, Reading, ClientStates
<1>1. UNCHANGED <<shown, mangled, mode, shell, srv, hungup, script, typed>>
  BY DEF read_batch_stdin, ClientFrame
<1>2. UpToBuffer(tty) \in Texts /\ UpToBuffer(tty) # <<>>
  BY <1>0, ReadTexts
<1>3. tty' = SubSeq(tty, Len(UpToBuffer(tty)) + 1, Len(tty)) /\ tty' \in Texts
  BY <1>0, ReadTexts DEF read_batch_stdin
<1>4. Batched \in Texts /\ Batched # <<>>
  <2>1. Batched \in Texts /\ Len(Batched) = Len(cli.batch) + Len(UpToBuffer(tty))
    BY <1>0, <1>2, Joined DEF Batched
  <2>2. Len(cli.batch) \in Nat /\ Len(UpToBuffer(tty)) \in Nat /\ Len(UpToBuffer(tty)) # 0
    BY <1>0, <1>2, LenNat
  <2>3. Len(Batched) # 0
    BY <2>1, <2>2
  <2> QED BY <2>1, <2>3, LenNat
<1> DEFINE pieces == wired(Batched)
<1>5. pieces \in Queues
  BY <1>4, Sent
<1>6. IF ~ends(Batched)
        THEN /\ cli' = [cli EXCEPT !.revents = @ \ {"stdin"}, !.batch = Batched, !.pc = "line"]
             /\ conn' = conn
      ELSE IF Lost(conn, "client")
        THEN myexit(IF conn.rst["client"] = "error" THEN 1 ELSE SIGPIPE)
      ELSE /\ conn' = Written(conn, "client", pieces)
           /\ cli' = [cli EXCEPT !.revents = @ \ {"stdin"}, !.batch = <<>>, !.pc = "loop"]
  BY DEF read_batch_stdin, Batched
<1>7. CASE ends(Batched) /\ Lost(conn, "client")
  <2>1. PICK status \in {1, SIGPIPE} : myexit(status)
    BY <1>6, <1>7
  <2>2. status # 0 /\ status \in {0, 1, SIGPIPE}
    BY NamesAre
  <2>3. World' /\ InputStill /\ ((Satisfied' => Satisfied) => OutputStill) /\ cli'.exit = status
    BY <1>0, <1>1, <1>3, <2>1, <2>2, MyexitKeeps
  <2> QED BY <2>2, <2>3 DEF Satisfied
<1>8. CASE ~ends(Batched) \/ ~Lost(conn, "client")
  <2>1. /\ cli' \in ClientStates /\ cli'.pc \in {"loop", "line"} /\ cli'.exit = cli.exit
        /\ cli'.revents = cli.revents \ {"stdin"}
        /\ cli'.batch = IF ends(Batched) THEN <<>> ELSE Batched
    <3> HIDE DEF pieces, Batched
    <3>1. CASE ends(Batched)
      <4>1. cli' = [cli EXCEPT !.revents = @ \ {"stdin"}, !.batch = <<>>, !.pc = "loop"]
        BY <1>6, <1>8, <3>1
      <4> QED BY <1>0, <3>1, <4>1, NamesAre DEF ClientStates, ClientLabels
    <3>2. CASE ~ends(Batched)
      <4>1. cli' = [cli EXCEPT !.revents = @ \ {"stdin"}, !.batch = Batched, !.pc = "line"]
        BY <1>6, <3>2
      <4> QED BY <1>0, <1>4, <3>2, <4>1 DEF ClientStates, ClientLabels
    <3> QED BY <3>1, <3>2
  <2>2. /\ conn' \in Connections /\ conn'.fin = conn.fin
        /\ conn'.queue["client"] = conn.queue["client"]
        /\ Lost(conn', "client") <=> Lost(conn, "client")
        /\ Lost(conn', "server") <=> Lost(conn, "server")
        /\ ~ends(Batched) => conn'.queue["server"] = conn.queue["server"]
        /\ ends(Batched) /\ ~conn.fin["server"] =>
             conn'.queue["server"] = conn.queue["server"] \o pieces
    <3> HIDE DEF pieces, Batched
    <3>1. CASE ~ends(Batched)
      BY <1>0, <1>6, <3>1
    <3>2. CASE ends(Batched)
      <4>1. conn' = Written(conn, "client", pieces)
        BY <1>6, <1>8, <3>2
      <4>2. "client" \in Sides /\ Peer("client") = "server" /\ "server" \in Sides
        BY NamesAre
      <4>3. PICK sent \in Queues : sent = pieces
        BY <1>5
      <4>4. PICK side \in Sides : side = "client"
        BY <4>2
      <4>5. conn' = Written(conn, side, sent)
        BY <4>1, <4>3, <4>4
      <4>6. /\ conn' \in Connections /\ conn'.fin = conn.fin
            /\ conn'.queue[side] = conn.queue[side]
            /\ ~conn.fin[Peer(side)] =>
                 conn'.queue[Peer(side)] = conn.queue[Peer(side)] \o sent
            /\ \A t \in Sides : Lost(conn', t) <=> Lost(conn, t)
        BY <1>0, <4>5, WrittenIs
      <4> QED BY <3>2, <4>2, <4>3, <4>4, <4>6
    <3> QED BY <3>1, <3>2
  <2>3. Reading'
    BY <2>1 DEF Reading
  <2>4. Types'
    BY <1>1, <1>3, <2>1, <2>2 DEF World, Types
  <2>5. Readable(conn', "client") <=> Readable(conn, "client")
    BY <2>2, NamesAre DEF Readable
  <2>6. Places'
    BY <1>0, <1>1, <2>1, <2>2, <2>5 DEF World, Places, Going, Reading
  <2>7. OutputStill
    BY <1>0, <1>1, <2>1, <2>2, NamesAre DEF OutputStill, Sending, ToSend, Satisfied, Reading
  <2>8. ReadsKeys
    BY <1>0, <1>1, <1>3, <1>4, <2>1, <2>2, <2>3 DEF ReadsKeys
  <2> QED BY <2>4, <2>6, <2>7, <2>8 DEF World
<1> QED BY <1>7, <1>8

(* What a command prints is a text.                                        *)
LEMMA OutputsAreTexts ==
  ASSUME shell.printed \in Texts
  PROVE  Outputs \subseteq Texts
<1>1. PICK n \in Nat : n = Cardinality({i \in DOMAIN shell.printed : shell.printed[i] # EOT})
  <2>1. Len(shell.printed) \in Nat /\ DOMAIN shell.printed = 1..Len(shell.printed)
    BY LenNat
  <2>2. IsFiniteSet(1..Len(shell.printed))
    BY <2>1, FS_Interval
  <2>3. IsFiniteSet({i \in DOMAIN shell.printed : shell.printed[i] # EOT})
    BY <2>1, <2>2, FS_Subset
  <2> QED BY <2>3, FS_CardinalityType
<1>2. Output \in Texts /\ Len(Output) \in Nat /\ EOT \in Pieces
  BY OutputAssumption, LenNat, NamesAre DEF Texts, Pieces
<1>3. ASSUME NEW m \in n..Len(Output) PROVE SubSeq(Output, n + 1, m) \in Texts
  <2>1. m \in Nat /\ n <= m /\ m <= Len(Output)
    BY <1>1, <1>2
  <2>2. Part(Output, n, m) \in Texts
    BY <1>1, <1>2, <2>1, PartType
  <2> QED BY <2>2 DEF Part
<1>4. PICK next : next = {SubSeq(Output, n + 1, m) : m \in n..Len(Output)}
  OBVIOUS
<1>5. next \subseteq Texts
  BY <1>3, <1>4
<1>6. \A out \in next : Append(out, EOT) \in Texts
  BY <1>2, <1>5, Grown
<1>7. Outputs = next \cup {Append(out, EOT) : out \in next}
  BY <1>1, <1>4 DEF Outputs
<1> QED BY <1>5, <1>6, <1>7

(* The shell reads: what has passed into the pipe stays the same, or the    *)
(* shell ends.                                                             *)
LEMMA ShellReadsKeeps ==
  ASSUME World, UNCHANGED rest, ShellReads
  PROVE  World' /\ InputStill /\ OutputStill
<1>0. /\ shell \in ShellStates /\ shell.alive /\ shell.in \in Texts /\ shell.in # <<>>
      /\ shell.got \in Texts /\ shell.printed \in Texts /\ <<>> \in Texts
  BY NamesAre DEF World, Types, ShellReads, ShellStates
<1>1. UNCHANGED <<mode, srv, conn, tty, hungup, shown, mangled, cli, script, typed>>
  BY DEF rest
<1>2. /\ Head(shell.in) \in Pieces /\ Tail(shell.in) \in Texts
      /\ Append(shell.got, Head(shell.in)) \in Texts
      /\ Append(shell.got, Head(shell.in)) \o Tail(shell.in) = shell.got \o shell.in
  BY <1>0, PieceTaken
<1>3. PICK after : after = [shell EXCEPT !.got = Append(@, Head(shell.in)), !.in = Tail(@)]
  OBVIOUS
<1>4. /\ after \in ShellStates /\ after.alive /\ after.out = shell.out
      /\ after.printed = shell.printed /\ after.got = Append(shell.got, Head(shell.in))
      /\ after.in = Tail(shell.in)
  BY <1>0, <1>2, <1>3 DEF ShellStates
<1>5. \/ shell' = after
      \/ \E out \in Outputs : shell' = [after EXCEPT !.todo = out]
      \/ shell' = Ended(after)
  BY <1>3 DEF ShellReads
<1>6. /\ shell' \in ShellStates /\ shell'.out = shell.out /\ shell'.printed = shell.printed
      /\ shell'.got = Append(shell.got, Head(shell.in))
      /\ \/ shell'.alive /\ shell'.in = Tail(shell.in)
         \/ ~shell'.alive /\ shell'.in = <<>>
  <2>1. CASE shell' = after
    BY <1>4, <2>1
  <2>2. CASE \E out \in Outputs : shell' = [after EXCEPT !.todo = out]
    <3>1. PICK out \in Texts : shell' = [after EXCEPT !.todo = out]
      BY <1>0, <2>2, OutputsAreTexts
    <3> QED BY <1>4, <3>1 DEF ShellStates
  <2>3. CASE shell' = Ended(after)
    <3>1. shell' = [after EXCEPT !.alive = FALSE, !.todo = <<>>, !.in = <<>>]
      BY <2>3 DEF Ended
    <3> QED BY <1>0, <1>4, <3>1 DEF ShellStates
  <2> QED BY <1>5, <2>1, <2>2, <2>3
<1>7. Passed' = Passed \/ (~shell'.alive /\ IsPrefix(Passed', Passed))
  <2>1. CASE shell'.in = Tail(shell.in)
    BY <1>2, <1>6, <2>1 DEF Passed
  <2>2. CASE ~shell'.alive /\ shell'.in = <<>>
    <3>1. Passed' = Append(shell.got, Head(shell.in))
      <4>1. Append(shell.got, Head(shell.in)) \o <<>> = Append(shell.got, Head(shell.in))
        BY <1>2, NoMore
      <4> QED BY <1>6, <2>2, <4>1 DEF Passed
    <3>2. Passed = Append(shell.got, Head(shell.in)) \o Tail(shell.in)
      BY <1>2 DEF Passed
    <3> QED BY <1>2, <2>2, <3>1, <3>2, PrefixOfJoined
  <2> QED BY <1>6, <2>1, <2>2
<1>8. Types'
  BY <1>1, <1>6 DEF World, Types
<1>9. Places'
  BY <1>0, <1>1, <1>6 DEF World, Places, Going, Reading, Readable, Lost
<1>10. InputStill
  BY <1>0, <1>1, <1>7 DEF InputStill, Open, Going, InHand, Reading
<1>11. OutputStill
  BY <1>1, <1>6 DEF OutputStill, Sending, ToSend, Satisfied, Reading
<1> QED BY <1>8, <1>9, <1>10, <1>11 DEF World

LEMMA ShellEndsKeeps ==
  ASSUME World, UNCHANGED rest, ShellEnds
  PROVE  World' /\ InputStill /\ OutputStill
<1>0. /\ shell \in ShellStates /\ shell.alive /\ shell.in \in Texts
      /\ shell.got \in Texts /\ <<>> \in Texts
  BY NamesAre DEF World, Types, ShellEnds, ShellStates
<1>1. UNCHANGED <<mode, srv, conn, tty, hungup, shown, mangled, cli, script, typed>>
  BY DEF rest
<1>2. /\ shell' \in ShellStates /\ shell'.out = shell.out /\ shell'.printed = shell.printed
      /\ shell'.got = shell.got /\ ~shell'.alive /\ shell'.in = <<>>
  BY <1>0 DEF ShellEnds, Ended, ShellStates
<1>3. IsPrefix(Passed', Passed)
  <2>1. shell.got \o <<>> = shell.got
    BY <1>0, NoMore
  <2>2. Passed' = shell.got
    BY <1>2, <2>1 DEF Passed
  <2> QED BY <1>0, <2>2, PrefixOfJoined DEF Passed
<1>4. Types'
  BY <1>1, <1>2 DEF World, Types
<1>5. Places'
  BY <1>0, <1>1, <1>2 DEF World, Places, Going, Reading, Readable, Lost
<1>6. InputStill
  BY <1>1, <1>2, <1>3 DEF InputStill, Open
<1>7. OutputStill
  BY <1>1, <1>2 DEF OutputStill, Sending, ToSend, Satisfied, Reading
<1> QED BY <1>4, <1>5, <1>6, <1>7 DEF World

(* The shell prints one piece.                                             *)
Prints ==
  \E x \in Pieces :
    /\ shell'.out = Append(shell.out, x) /\ shell'.printed = Append(shell.printed, x)
    /\ srv.exit # 0
    /\ UNCHANGED <<mode, srv, conn, hungup, shown, mangled, cli>>

LEMMA ShellPrintsKeeps ==
  ASSUME World, UNCHANGED rest, ShellPrints
  PROVE  World' /\ InputStill /\ Prints
<1>0. /\ shell \in ShellStates /\ shell.alive /\ shell.todo \in Texts /\ shell.todo # <<>>
      /\ shell.out \in Texts /\ shell.printed \in Texts /\ shell.got \in Texts
      /\ srv.exit # 0
  BY DEF World, Types, Places, ShellPrints, ShellStates
<1>1. UNCHANGED <<mode, srv, conn, tty, hungup, shown, mangled, cli, script, typed>>
  BY DEF rest
<1>2. PICK x \in Pieces : x = Head(shell.todo)
  BY <1>0, PieceTaken
<1>3. Tail(shell.todo) \in Texts /\ Append(shell.out, x) \in Texts /\ Append(shell.printed, x) \in Texts
  BY <1>0, PieceTaken, Grown
<1>4. Len(Append(shell.out, x)) = Len(shell.out) + 1 /\ Len(shell.out) \in Nat
  BY <1>0, Grown, LenNat
<1>5. Append(shell.out, x) # <<>>
  <2>1. Len(Append(shell.out, x)) # 0
    BY <1>4
  <2> QED BY <2>1, NoText
<1>6. shell' = [shell EXCEPT !.out = Append(shell.out, x), !.printed = Append(shell.printed, x),
                             !.todo = Tail(shell.todo)]
  BY <1>2 DEF ShellPrints
<1>7. /\ shell' \in ShellStates /\ shell'.alive = shell.alive
      /\ shell'.out = Append(shell.out, x) /\ shell'.printed = Append(shell.printed, x)
      /\ shell'.got = shell.got /\ shell'.in = shell.in
  BY <1>0, <1>3, <1>6 DEF ShellStates
<1>8. Types'
  BY <1>1, <1>7 DEF World, Types
<1>9. Places'
  BY <1>0, <1>1, <1>5, <1>7 DEF World, Places, Going, Reading, Readable, Lost
<1>10. InputStill
  BY <1>1, <1>7 DEF InputStill, Passed, Open, Going, InHand, Reading
<1>11. Prints
  BY <1>0, <1>1, <1>7 DEF Prints
<1> QED BY <1>8, <1>9, <1>10, <1>11 DEF World

-----------------------------------------------------------------------------
(* The user and the network.                                               *)

LEMMA TypeKeeps ==
  ASSUME World, Type
  PROVE  World' /\ OutputStill
<1>0. /\ script \in Texts /\ typed \in Nat /\ typed < Len(script) /\ Len(script) \in Nat
      /\ tty \in Texts
  BY LenNat DEF World, Types, Type
<1>1. UNCHANGED <<mode, shell, srv, conn, hungup, shown, mangled, cli, script>>
  BY DEF Type
<1>2. PICK x \in Pieces : x = script[typed + 1]
  BY <1>0, LenNat
<1>3. /\ typed' = typed + 1 /\ tty' = Append(tty, x) /\ tty' \in Texts
      /\ Len(tty') = Len(tty) + 1 /\ Len(tty) \in Nat
  BY <1>0, <1>2, Grown, LenNat DEF Type
<1>4. tty' # <<>>
  BY <1>3, NoText
<1>5. Types'
  BY <1>0, <1>1, <1>3 DEF World, Types
<1>6. Places'
  BY <1>1, <1>4 DEF World, Places, Going, Reading, Readable, Lost
<1>7. OutputStill
  BY <1>1 DEF OutputStill, Sending, ToSend, Satisfied, Reading
<1> QED BY <1>5, <1>6, <1>7 DEF World

LEMMA CloseInputKeeps ==
  ASSUME World, CloseInput
  PROVE  World' /\ InputStill /\ OutputStill
<1>1. /\ UNCHANGED <<mode, shell, srv, conn, tty, shown, mangled, cli, script, typed>>
      /\ hungup' = TRUE
  BY DEF CloseInput
<1>2. Types'
  BY <1>1 DEF World, Types
<1>3. Places'
  BY <1>1 DEF World, Places, Going, Reading, Readable, Lost
<1>4. InputStill
  BY <1>1 DEF InputStill, Passed, Open, Going, InHand, Reading
<1>5. OutputStill
  BY <1>1 DEF OutputStill, Sending, ToSend, Satisfied, Reading
<1> QED BY <1>2, <1>3, <1>4, <1>5 DEF World

LEMMA ResetKeeps ==
  ASSUME World, Reset
  PROVE  World' /\ InputStill /\ OutputStill
<1>1. UNCHANGED <<mode, shell, srv, tty, hungup, shown, mangled, cli, script, typed>>
  BY DEF Reset
<1>2. conn \in Connections
  BY DEF World, Types
<1>3. PICK s \in Sides : conn.rst[s] = "owed" /\ conn' = ResetArrived(conn, s)
  BY DEF Reset
<1>4. conn' \in Connections /\ Worse(conn, conn') /\ conn'.fin = conn.fin /\ conn'.queue = conn.queue
  BY <1>2, <1>3, ResetArrivedIs
<1>5. /\ Lost(conn, "client") => Lost(conn', "client")
      /\ Lost(conn, "server") => Lost(conn', "server")
      /\ Readable(conn, "client") => Readable(conn', "client")
      /\ conn'.rst["client"] = "no" => conn.rst["client"] = "no"
  BY <1>4, NamesAre DEF Worse, Readable
<1>6. Types'
  BY <1>1, <1>4 DEF World, Types
<1>7. Places'
  BY <1>1, <1>4, <1>5 DEF World, Places, Going, Reading
<1>8. InputStill
  BY <1>1, <1>4 DEF InputStill, Passed, Open, Going, InHand, Reading
<1>9. OutputStill
  BY <1>1, <1>4, <1>5 DEF OutputStill, Sending, ToSend, Satisfied, Reading
<1> QED BY <1>6, <1>7, <1>8, <1>9 DEF World

-----------------------------------------------------------------------------
(* A text without a piece is defined for every number of its pieces.        *)

(* Applying a function of n turns to p: the states after 0, 1, ..., n.      *)
Turns(h, p, turn, n) ==
  /\ h[0] = p
  /\ \A i \in 1..n : h[i] = turn[<<h[i - 1], i>>]

(* There are such states when each turn stays in S.                         *)
LEMMA TurnsExist ==
  ASSUME NEW n \in Nat, NEW S, NEW p \in S, NEW turn \in [S \X (1..n) -> S]
  PROVE  \E h \in [0..n -> S] : Turns(h, p, turn, n)
<1> DEFINE Can(k) == \E h \in [0..k -> S] : Turns(h, p, turn, k)
           X == {k \in 0..n : Can(k)}
<1>1. Can(0)
  <2>1. [i \in 0..0 |-> p] \in [0..0 -> S]
    OBVIOUS
  <2>2. Turns([i \in 0..0 |-> p], p, turn, 0)
    BY DEF Turns
  <2> QED BY <2>1, <2>2
<1>2. ASSUME NEW k \in 1..n, Can(k - 1)
      PROVE  Can(k)
  <2>1. PICK h \in [0..(k - 1) -> S] : Turns(h, p, turn, k - 1)
    BY <1>2
  <2> DEFINE v == turn[<<h[k - 1], k>>]
             g == [i \in 0..k |-> IF i = k THEN v ELSE h[i]]
  <2>2. v \in S
    <3>1. k - 1 \in 0..(k - 1)
      OBVIOUS
    <3>2. h[k - 1] \in S
      BY <3>1
    <3>3. <<h[k - 1], k>> \in S \X (1..n)
      BY <3>2
    <3> QED BY <3>3
  <2>3. g \in [0..k -> S]
    <3> HIDE DEF v
    <3>1. ASSUME NEW i \in 0..k PROVE (IF i = k THEN v ELSE h[i]) \in S
      <4>1. CASE i = k
        BY <2>2, <4>1
      <4>2. CASE i # k
        <5>1. i \in 0..(k - 1)
          BY <4>2
        <5> QED BY <4>2, <5>1
      <4> QED BY <4>1, <4>2
    <3> QED BY <3>1
  <2>4. Turns(g, p, turn, k)
    <3>1. /\ h[0] = p
          /\ \A i \in 1..(k - 1) : h[i] = turn[<<h[i - 1], i>>]
      BY <2>1 DEF Turns
    <3>2. g[0] = p
      BY <3>1
    <3>3. ASSUME NEW i \in 1..k
          PROVE  g[i] = turn[<<g[i - 1], i>>]
      <4>1. i - 1 \in 0..k /\ i - 1 # k
        OBVIOUS
      <4>2. g[i - 1] = h[i - 1]
        BY <4>1
      <4>3. CASE i = k
        <5>1. g[k] = v
          OBVIOUS
        <5> HIDE DEF g
        <5> QED BY <4>2, <4>3, <5>1
      <4>4. CASE i # k
        <5>1. i \in 1..(k - 1) /\ i \in 0..k
          BY <4>4
        <5>2. g[i] = h[i]
          BY <4>4, <5>1
        <5> HIDE DEF g
        <5> QED BY <3>1, <4>2, <5>1, <5>2
      <4> QED BY <4>3, <4>4
    <3> HIDE DEF g
    <3> QED BY <3>2, <3>3 DEF Turns
  <2> HIDE DEF g
  <2> QED BY <2>3, <2>4
<1> HIDE DEF Can
<1>3. 0 \in X /\ \A k \in 1..n : k - 1 \in X => k \in X
  <2>1. 0 \in 0..n /\ \A k \in 1..n : k \in 0..n
    OBVIOUS
  <2> QED BY <1>1, <1>2, <2>1
<1>4. n \in X
  <2>1. n \in 0..n
    OBVIOUS
  <2> HIDE DEF X
  <2> QED BY <1>3, <2>1, UpTo
<1>5. Can(n)
  BY <1>4
<1> QED BY <1>5 DEF Can

LEMMA WithoutIs ==
  ASSUME NEW text \in Texts, NEW dropped
  PROVE  /\ Without(text, dropped)[0] = <<>>
         /\ \A n \in 0..Len(text) : Without(text, dropped)[n] \in Texts
         /\ \A n \in 1..Len(text) :
              Without(text, dropped)[n] =
                IF text[n] = dropped THEN Without(text, dropped)[n - 1]
                ELSE Append(Without(text, dropped)[n - 1], text[n])
<1> DEFINE l == Len(text)
           F(f) == [n \in 0..l |->
                      IF n = 0 THEN <<>>
                      ELSE IF text[n] = dropped THEN f[n - 1]
                      ELSE Append(f[n - 1], text[n])]
           turn == [a \in Texts \X (1..l) |->
                      IF text[a[2]] = dropped THEN a[1] ELSE Append(a[1], text[a[2]])]
<1>n. l \in Nat /\ <<>> \in Texts /\ \A n \in 1..l : text[n] \in Pieces
  BY LenNat, NamesAre
<1>1. turn \in [Texts \X (1..l) -> Texts]
  <2>1. ASSUME NEW a \in Texts \X (1..l)
        PROVE  (IF text[a[2]] = dropped THEN a[1] ELSE Append(a[1], text[a[2]])) \in Texts
    <3>1. a[1] \in Texts /\ text[a[2]] \in Pieces
      BY <1>n
    <3>2. Append(a[1], text[a[2]]) \in Texts
      BY <3>1, Grown
    <3> QED BY <3>1, <3>2
  <2> QED BY <2>1
<1>2. \A t \in Texts, n \in 1..l :
         turn[<<t, n>>] = IF text[n] = dropped THEN t ELSE Append(t, text[n])
  OBVIOUS
<1>3. Without(text, dropped) = CHOOSE f : f = F(f)
  BY DEF Without
<1> HIDE DEF turn, l
<1>4. PICK h \in [0..l -> Texts] : Turns(h, <<>>, turn, l)
  BY <1>n, <1>1, TurnsExist
<1>5. \A f, n : n \in 0..l =>
        F(f)[n] = IF n = 0 THEN <<>> ELSE IF text[n] = dropped THEN f[n - 1]
                  ELSE Append(f[n - 1], text[n])
  BY <1>n
<1>6. h = F(h)
  <2>1. ASSUME NEW n \in 0..l PROVE h[n] = F(h)[n]
    <3>1. CASE n = 0
      BY <1>4, <1>5, <3>1 DEF Turns
    <3>2. CASE n # 0
      <4>1. n \in 1..l /\ n - 1 \in 0..l
        BY <1>n, <3>2
      <4>2. h[n] = turn[<<h[n - 1], n>>] /\ h[n - 1] \in Texts
        BY <1>4, <4>1 DEF Turns
      <4>3. turn[<<h[n - 1], n>>] = IF text[n] = dropped THEN h[n - 1]
                                    ELSE Append(h[n - 1], text[n])
        BY <1>2, <4>1, <4>2
      <4> HIDE DEF F
      <4>4. F(h)[n] = IF text[n] = dropped THEN h[n - 1] ELSE Append(h[n - 1], text[n])
        BY <1>5, <3>2
      <4> QED BY <4>2, <4>3, <4>4
    <3> QED BY <3>1, <3>2
  <2>2. F(h) = [n \in 0..l |-> F(h)[n]] /\ h = [n \in 0..l |-> h[n]]
    BY <1>4
  <2> HIDE DEF F
  <2> QED BY <2>1, <2>2
<1>7. Without(text, dropped) = F(Without(text, dropped))
  <2> HIDE DEF F
  <2> QED BY <1>3, <1>6
<1>8. PICK g : g = Without(text, dropped)
  OBVIOUS
<1>9. \A n \in 0..l :
        g[n] = IF n = 0 THEN <<>> ELSE IF text[n] = dropped THEN g[n - 1]
               ELSE Append(g[n - 1], text[n])
  <2> HIDE DEF F
  <2>1. g = F(g)
    BY <1>7, <1>8
  <2> QED BY <1>5, <2>1
<1> HIDE DEF F
<1> DEFINE S == {n \in 0..l : g[n] \in Texts}
<1>10. g[0] = <<>>
  BY <1>n, <1>9
<1>11. \A n \in 1..l : g[n] = IF text[n] = dropped THEN g[n - 1] ELSE Append(g[n - 1], text[n])
  BY <1>n, <1>9
<1>12. ASSUME NEW n \in 1..l, g[n - 1] \in Texts PROVE g[n] \in Texts
  <2>1. Append(g[n - 1], text[n]) \in Texts
    BY <1>n, <1>12, Grown
  <2> QED BY <1>11, <1>12, <2>1
<1>13. 0 \in S /\ \A n \in 1..l : n - 1 \in S => n \in S
  BY <1>n, <1>10, <1>12
<1>14. \A n \in 0..l : g[n] \in Texts
  <2>1. \A n \in 0..l : n \in S
    <3> HIDE DEF S
    <3> QED BY <1>n, <1>13, UpTo
  <2> QED BY <2>1
<1> QED BY <1>8, <1>10, <1>11, <1>14 DEF l

Agree(t, u, n) == \A i \in 1..n : t[i] = u[i]

(* It depends on no more pieces than those.                                 *)
LEMMA WithoutAgrees ==
  ASSUME NEW t \in Texts, NEW u \in Texts, NEW x, NEW n \in Nat, n <= Len(t), n <= Len(u),
         Agree(t, u, n)
  PROVE  \A i \in 0..n : Without(t, x)[i] = Without(u, x)[i]
<1> DEFINE S == {i \in 0..n : Without(t, x)[i] = Without(u, x)[i]}
<1>1. \A i \in 1..n : i \in 1..Len(t) /\ i \in 1..Len(u)
  BY LenNat
<1>2. 0 \in S
  BY WithoutIs
<1>3. \A i \in 1..n : i - 1 \in S => i \in S
  BY <1>1, WithoutIs DEF Agree
<1>4. \A i \in 0..n : i \in S
  <2> HIDE DEF S
  <2> QED BY <1>2, <1>3, UpTo
<1> QED BY <1>4

(* It grows with their number, and has no other pieces than those.          *)
LEMMA WithoutGrows ==
  ASSUME NEW t \in Texts, NEW x, NEW a \in Nat, NEW b \in Nat, a <= b, b <= Len(t)
  PROVE  IsPrefix(Without(t, x)[a], Without(t, x)[b])
<1> DEFINE S == {i \in 0..(b - a) : IsPrefix(Without(t, x)[a], Without(t, x)[a + i])}
<1>0. Len(t) \in Nat /\ b - a \in Nat /\ a + (b - a) = b /\ b - a \in 0..(b - a) /\ a + 0 = a
  BY LenNat
<1>1. \A i \in 0..(b - a) : a + i \in 0..Len(t) /\ Without(t, x)[a + i] \in Texts
  <2>1. \A i \in 0..(b - a) : a + i \in 0..Len(t)
    BY <1>0
  <2> QED BY <2>1, WithoutIs
<1>2. Without(t, x)[a] \in Texts
  <2>1. a \in 0..Len(t)
    BY <1>0
  <2> QED BY <2>1, WithoutIs
<1>3. 0 \in S
  BY <1>0, <1>2, PrefixOfItself
<1>4. ASSUME NEW i \in 1..(b - a), i - 1 \in S PROVE i \in S
  <2>1. /\ i \in 0..(b - a) /\ i - 1 \in 0..(b - a)
        /\ a + i \in 1..Len(t) /\ (a + i) - 1 = a + (i - 1)
    BY <1>0
  <2>2. PICK u \in Texts, v \in Texts, z \in Texts :
          /\ u = Without(t, x)[a] /\ v = Without(t, x)[a + (i - 1)] /\ z = Without(t, x)[a + i]
    BY <1>1, <1>2, <2>1
  <2>3. IsPrefix(u, v)
    BY <1>4, <2>2
  <2>4. z = IF t[a + i] = x THEN v ELSE Append(v, t[a + i])
    BY <2>1, <2>2, WithoutIs
  <2>5. IsPrefix(v, z)
    <3>1. CASE z = v
      BY <3>1, PrefixOfItself
    <3>2. CASE z = Append(v, t[a + i])
      <4>1. t[a + i] \in Pieces
        BY <2>1, LenNat
      <4>2. Len(z) = Len(v) + 1 /\ \A j \in 1..Len(v) : v[j] = z[j]
        BY <3>2, <4>1, Grown
      <4>3. Len(v) <= Len(z)
        BY <4>2, LenNat
      <4> QED BY <4>2, <4>3, PrefixIs
    <3> QED BY <2>4, <3>1, <3>2
  <2>6. IsPrefix(u, z)
    BY <2>3, <2>5, PrefixOfPrefix
  <2> QED BY <2>1, <2>2, <2>6
<1>5. b - a \in S
  <2>1. \A i \in 1..(b - a) : i - 1 \in S => i \in S
    BY <1>4
  <2>2. PICK n \in Nat : n = b - a
    BY <1>0
  <2> HIDE DEF S
  <2>3. \A i \in 0..n : i \in S
    BY <1>3, <2>1, <2>2, UpTo
  <2> QED BY <1>0, <2>2, <2>3
<1> QED BY <1>0, <1>5

LEMMA WithoutIsClean ==
  ASSUME NEW t \in Texts, NEW x, NEW n \in Nat, n <= Len(t), Clean(t, n)
  PROVE  Clean(Without(t, x)[n], Len(Without(t, x)[n]))
<1> DEFINE S == {i \in 0..n : Clean(Without(t, x)[i], Len(Without(t, x)[i]))}
<1>1. 0 \in S
  <2>1. Clean(<<>>, Len(<<>>))
    BY NoText DEF Clean
  <2> QED BY <2>1, WithoutIs
<1>2. ASSUME NEW i \in 1..n, i - 1 \in S PROVE i \in S
  <2>1. i \in 1..Len(t) /\ i - 1 \in 0..Len(t) /\ i \in 0..n
    BY LenNat
  <2>2. PICK v \in Texts : v = Without(t, x)[i - 1]
    BY <2>1, WithoutIs
  <2>3. Clean(v, Len(v))
    BY <1>2, <2>2
  <2>4. Without(t, x)[i] = IF t[i] = x THEN v ELSE Append(v, t[i])
    BY <2>1, <2>2, WithoutIs
  <2>5. Clean(Append(v, t[i]), Len(Append(v, t[i])))
    <3>1. t[i] \in Pieces /\ t[i] # EOT
      BY <2>1, LenNat DEF Clean
    <3>2. PICK z \in Texts : /\ z = Append(v, t[i]) /\ Len(z) = Len(v) + 1
                             /\ z[Len(v) + 1] = t[i]
                             /\ \A j \in 1..Len(v) : z[j] = v[j]
      BY <3>1, Grown
    <3>3. Len(v) \in Nat
      BY LenNat
    <3>4. ASSUME NEW j \in 1..Len(z) PROVE z[j] # EOT
      <4>1. CASE j = Len(v) + 1
        BY <3>1, <3>2, <4>1
      <4>2. CASE j # Len(v) + 1
        <5>1. j \in 1..Len(v)
          BY <3>2, <3>3, <4>2
        <5> QED BY <2>3, <3>2, <5>1 DEF Clean
      <4> QED BY <4>1, <4>2
    <3> QED BY <3>2, <3>4 DEF Clean
  <2>6. Clean(Without(t, x)[i], Len(Without(t, x)[i]))
    BY <2>3, <2>4, <2>5
  <2> QED BY <2>1, <2>6
<1>3. n \in S
  <2>1. n \in 0..n
    OBVIOUS
  <2>2. \A i \in 1..n : i - 1 \in S => i \in S
    BY <1>2
  <2> HIDE DEF S
  <2> QED BY <1>1, <2>1, <2>2, UpTo
<1> QED BY <1>3

(* A batch and its NUL go over the wire.                                    *)
LEMMA WireGrows ==
  ASSUME NEW w \in Texts, NEW text \in Texts, NEW c \in Nat, NEW e \in Nat, c <= e,
         e <= Len(text), NoNul(text), Carries(w, text, c),
         NEW u \in Texts, u = Append(Part(text, c, e), NUL)
  PROVE  Carries(w \o u, text, e)
<1>1. PICK l \in Nat, n \in Nat : l = Len(w) /\ n = e - c
  BY LenNat
<1>2. PICK t \in Texts : t = Part(text, c, e) /\ Len(t) = n /\ \A i \in 1..n : t[i] = text[c + i]
  <2>1. /\ Part(text, c, e) \in Texts /\ Len(Part(text, c, e)) = e - c
        /\ \A i \in 1..(e - c) : Part(text, c, e)[i] = text[c + i]
    BY PartType
  <2> QED BY <1>1, <2>1
<1>3. Len(u) = n + 1 /\ u[n + 1] = NUL /\ \A i \in 1..n : u[i] = text[c + i]
  BY <1>2, NamesAre, Grown
<1>4. PICK v \in Texts : /\ v = w \o u /\ Len(v) = l + (n + 1)
                         /\ \A i \in 1..l : v[i] = w[i]
                         /\ \A i \in 1..(n + 1) : v[l + i] = u[i]
  <2>1. /\ w \o u \in Texts /\ Len(w \o u) = Len(w) + Len(u)
        /\ \A i \in 1..Len(w) : (w \o u)[i] = w[i]
        /\ \A i \in 1..Len(u) : (w \o u)[Len(w) + i] = u[i]
    BY JoinedIsLonger
  <2>2. Len(w \o u) = l + (n + 1) /\ \A i \in 1..l : (w \o u)[i] = w[i]
    BY <1>1, <1>3, <2>1
  <2>3. \A i \in 1..(n + 1) : (w \o u)[l + i] = u[i]
    BY <1>1, <1>3, <2>1
  <2> QED BY <2>1, <2>2, <2>3
<1> DEFINE S == {i \in 0..n : Without(v, NUL)[l + i] = Part(text, 0, c + i)}
<1>5. 0 \in S
  <2>1. l <= Len(v) /\ l <= Len(w) /\ l \in 0..l /\ l + 0 = l /\ c + 0 = c
    BY <1>1, <1>4
  <2>2. Without(v, NUL)[l] = Without(w, NUL)[l]
    <3>1. Agree(v, w, l)
      BY <1>4 DEF Agree
    <3>2. \A i \in 0..l : Without(v, NUL)[i] = Without(w, NUL)[i]
      BY <2>1, <3>1, WithoutAgrees
    <3> QED BY <2>1, <3>2
  <2>3. Without(w, NUL)[l] = Part(text, 0, c)
    BY <1>1 DEF Carries
  <2> QED BY <1>1, <2>1, <2>2, <2>3
<1>6. ASSUME NEW i \in 1..n, i - 1 \in S PROVE i \in S
  <2>1. /\ l + i \in 1..Len(v) /\ (l + i) - 1 = l + (i - 1) /\ i \in 0..n /\ i \in 1..(n + 1)
        /\ c + i \in 1..Len(text)
    BY <1>1, <1>4, LenNat
  <2>2. v[l + i] = text[c + i] /\ text[c + i] # NUL
    BY <1>3, <1>4, <2>1 DEF NoNul
  <2>3. Without(v, NUL)[l + i] = Append(Without(v, NUL)[l + (i - 1)], text[c + i])
    <3>1. PICK g \in 1..Len(v) : g = l + i /\ g - 1 = l + (i - 1)
      BY <2>1
    <3>2. Without(v, NUL)[g] = IF v[g] = NUL THEN Without(v, NUL)[g - 1]
                               ELSE Append(Without(v, NUL)[g - 1], v[g])
      BY WithoutIs
    <3> QED BY <2>2, <3>1, <3>2
  <2>4. PICK f \in Nat : f = c + (i - 1) /\ 0 <= f /\ f < Len(text) /\ f + 1 = c + i
    BY <2>1
  <2>5. Append(Part(text, 0, f), text[f + 1]) = Part(text, 0, f + 1)
    BY <2>4, PartGrows
  <2>6. Without(v, NUL)[l + (i - 1)] = Part(text, 0, f)
    BY <1>6, <2>4
  <2> QED BY <2>1, <2>3, <2>4, <2>5, <2>6
<1>7. Without(v, NUL)[l + n] = Part(text, 0, e)
  <2>1. \A i \in 1..n : i - 1 \in S => i \in S
    BY <1>6
  <2>2. n \in 0..n /\ c + n = e
    BY <1>1
  <2>3. n \in S
    <3> HIDE DEF S
    <3> QED BY <1>5, <2>1, <2>2, UpTo
  <2> QED BY <2>2, <2>3
<1>8. Without(v, NUL)[l + (n + 1)] = Without(v, NUL)[l + n]
  <2>1. l + (n + 1) \in 1..Len(v) /\ (l + (n + 1)) - 1 = l + n /\ n + 1 \in 1..(n + 1)
    BY <1>4
  <2>2. v[l + (n + 1)] = NUL
    BY <1>3, <1>4, <2>1
  <2> QED BY <2>1, <2>2, WithoutIs
<1> QED BY <1>4, <1>7, <1>8 DEF Carries

(* What goes through, piece by piece.                                       *)
LEMMA ThroughIs ==
  ASSUME NEW w \in Texts
  PROVE  /\ Through(w, 0) = <<>>
         /\ \A n \in 0..Len(w) : Through(w, n) \in Texts
         /\ \A n \in 1..Len(w) :
              Through(w, n) = IF mode = "lab1a" /\ w[n] = ETX THEN Through(w, n - 1)
                              ELSE Append(Through(w, n - 1), w[n])
<1>1. CASE mode = "lab1a"
  BY <1>1, WithoutIs DEF Through
<1>2. CASE mode # "lab1a"
  <2>0. Len(w) \in Nat
    BY LenNat
  <2>1. Part(w, 0, 0) = <<>>
    <3>1. 0 \in Nat /\ 0 <= 0 /\ 0 <= Len(w)
      BY <2>0
    <3> QED BY <3>1, PartEmpty
  <2>2. \A n \in 0..Len(w) : Part(w, 0, n) \in Texts
    BY <2>0, FirstPart
  <2>3. ASSUME NEW n \in 1..Len(w) PROVE Part(w, 0, n) = Append(Part(w, 0, n - 1), w[n])
    <3>1. PICK i \in Nat : i = n - 1 /\ 0 <= i /\ i < Len(w) /\ i + 1 = n
      BY <2>0
    <3>2. Append(Part(w, 0, i), w[i + 1]) = Part(w, 0, i + 1)
      BY <3>1, PartGrows
    <3> QED BY <3>1, <3>2
  <2> QED BY <1>2, <2>1, <2>2, <2>3 DEF Through
<1> QED BY <1>1, <1>2

-----------------------------------------------------------------------------
(* Steps that do nothing to a stream.                                       *)

LEMMA PassedIs ==
  ASSUME World
  PROVE  /\ Passed \in Texts /\ shell.got \in Texts /\ shell.in \in Texts
         /\ script \in Texts /\ typed \in Nat /\ typed <= Len(script) /\ Len(script) \in Nat
<1>1. shell.got \in Texts /\ shell.in \in Texts /\ script \in Texts
  BY DEF World, Types, ShellStates
<1>2. Passed \in Texts
  BY <1>1, Joined DEF Passed
<1> QED BY <1>1, <1>2, LenNat DEF World, Types

LEMMA InputFrame ==
  ASSUME World, World', InputKept, InputStill
  PROVE  InputKept'
<1>1. SUFFICES ASSUME ~mangled' PROVE \E w \in Texts, k, m, c, d \in Nat : InputAt(w, k, m, c, d)'
  BY DEF InputKept
<1>2. ~mangled
  BY <1>1 DEF InputStill
<1>3. PICK w \in Texts, k \in Nat, m \in Nat, c \in Nat, d \in Nat : InputAt(w, k, m, c, d)
  BY <1>2 DEF InputKept
<1>4. /\ Wire(w, c) /\ k <= m /\ m <= Len(w) /\ c <= d /\ d <= typed
      /\ mode = "lab1a" => m <= typed
      /\ Clean(w, k) /\ IsPrefix(Passed, Through(w, k))
  BY <1>3 DEF InputAt
<1>5. /\ script' = script /\ typed' = typed /\ mode' = mode
      /\ Passed' = Passed \/ (~shell'.alive /\ IsPrefix(Passed', Passed))
  BY DEF InputStill
<1>6. Wire(w, c)' /\ Through(w, k)' = Through(w, k) /\ Singly' = Singly
  BY <1>4, <1>5 DEF Wire, Through, Singly
<1>7. Passed \in Texts /\ Passed' \in Texts /\ Through(w, k) \in Texts
  <2>1. Passed \in Texts
    BY PassedIs
  <2>2. Passed' \in Texts
    <3>1. shell'.got \in Texts /\ shell'.in \in Texts
      BY DEF World, Types, ShellStates
    <3> QED BY <3>1, Joined DEF Passed
  <2>3. k \in 0..Len(w)
    BY <1>4, LenNat
  <2> QED BY <2>1, <2>2, <2>3, ThroughIs
<1>8. PICK f : f = Through(w, k)
  OBVIOUS
<1>9. IsPrefix(Passed', f)
  <2>1. CASE Passed' = Passed
    BY <1>4, <1>8, <2>1
  <2>2. CASE IsPrefix(Passed', Passed)
    BY <1>4, <1>7, <1>8, <2>2, PrefixOfPrefix
  <2> QED BY <1>5, <2>1, <2>2
<1>10. ASSUME Open'
       PROVE  /\ Passed' = f /\ InHand' = Part(w, k, m)
              /\ mode = "lab1a" => tty' = Part(script, m, typed)
              /\ mode # "lab1a" =>
                   /\ Stream(conn'.queue["server"], w, m, Len(w), Singly)
                   /\ Reading' => cli'.batch = Part(script, c, d) /\ tty' = Part(script, d, typed)
  <2>1. Open /\ InHand' = InHand /\ Passed' = Passed
    BY <1>5, <1>10 DEF InputStill, Open
  <2>2. CASE mode = "lab1a"
    BY <1>3, <1>8, <1>10, <2>1, <2>2 DEF InputAt, InputStill
  <2>3. CASE mode # "lab1a"
    <3>1. conn'.queue["server"] = conn.queue["server"]
      BY <1>10, <2>3 DEF InputStill
    <3>2. Reading' => Reading /\ cli'.batch = cli.batch /\ tty' = tty
      BY <1>10, <2>3 DEF InputStill
    <3> QED BY <1>3, <1>8, <2>1, <2>3, <3>1, <3>2 DEF InputAt
  <2> QED BY <2>2, <2>3
<1>12. InputAt(w, k, m, c, d)'
  BY <1>4, <1>5, <1>6, <1>8, <1>9, <1>10 DEF InputAt
<1> QED BY <1>12

LEMMA OutputFrame ==
  ASSUME OutputKept, OutputStill
  PROVE  OutputKept'
<1>1. SUFFICES ASSUME ~mangled', EOT \notin Range(shell'.printed)
               PROVE  \E a, b, c \in Nat : OutputAt(a, b, c)'
  BY DEF OutputKept
<1>2. ~mangled /\ EOT \notin Range(shell.printed)
  BY <1>1 DEF OutputStill
<1>3. PICK a \in Nat, b \in Nat, c \in Nat : OutputAt(a, b, c)
  BY <1>2 DEF OutputKept
<1>4. /\ mode' = mode /\ shown' = shown
      /\ shell'.printed = shell.printed /\ shell'.out = shell.out
      /\ srv'.pc = "wait" => srv.pc = "wait"
      /\ srv'.exit = 0 => srv.exit = 0
      /\ srv.exit # Running => srv'.exit # Running
      /\ Satisfied' => Satisfied
      /\ Singly' = Singly
  BY DEF OutputStill, Singly
<1>5. mode # "lab1a" /\ Reading' =>
        Stream(conn'.queue["client"], shell'.printed, a, b, Singly)
  <2>1. SUFFICES ASSUME mode # "lab1a", Reading'
                 PROVE  Stream(conn'.queue["client"], shell'.printed, a, b, Singly)
    OBVIOUS
  <2>2. Reading /\ conn'.queue["client"] = conn.queue["client"]
    BY <2>1 DEF OutputStill
  <2> QED BY <1>3, <1>4, <2>1, <2>2 DEF OutputAt
<1>6. Sending' => ToSend' = Part(shell'.printed, b, c)
  BY <1>3, <1>4 DEF OutputAt, OutputStill
<1>7. OutputAt(a, b, c)'
  BY <1>3, <1>4, <1>5, <1>6 DEF OutputAt
<1> QED BY <1>7

-----------------------------------------------------------------------------
(* The steps that move the input.                                          *)

(* While both run, where the input is.                                     *)
LEMMA InputIs ==
  ASSUME World, NEW w \in Texts, NEW k \in Nat, NEW m \in Nat, NEW c \in Nat, NEW d \in Nat,
         InputAt(w, k, m, c, d), Open
  PROVE  /\ script \in Texts /\ Len(script) \in Nat /\ typed \in Nat /\ typed <= Len(script)
         /\ Wire(w, c) /\ Len(w) \in Nat
         /\ k <= m /\ m <= Len(w) /\ c <= d /\ d <= typed /\ Clean(w, k)
         /\ mode = "lab1a" => m <= typed
         /\ Passed \in Texts /\ Passed = Through(w, k) /\ InHand = Part(w, k, m)
         /\ InHand = <<>> <=> k = m
         /\ mode = "lab1a" => tty = Part(script, m, typed)
         /\ mode # "lab1a" =>
              /\ Stream(conn.queue["server"], w, m, Len(w), Singly)
              /\ Reading => cli.batch = Part(script, c, d) /\ tty = Part(script, d, typed)
<1>1. /\ script \in Texts /\ Len(script) \in Nat /\ typed \in Nat /\ typed <= Len(script)
      /\ Passed \in Texts
  BY PassedIs
<1>2. /\ Wire(w, c) /\ k <= m /\ m <= Len(w) /\ c <= d /\ d <= typed /\ Clean(w, k)
      /\ mode = "lab1a" => m <= typed
      /\ Passed = Through(w, k) /\ InHand = Part(w, k, m)
      /\ mode = "lab1a" => tty = Part(script, m, typed)
      /\ mode # "lab1a" =>
           /\ Stream(conn.queue["server"], w, m, Len(w), Singly)
           /\ Reading => cli.batch = Part(script, c, d) /\ tty = Part(script, d, typed)
  BY DEF InputAt
<1>3. Part(w, k, m) = <<>> <=> k = m
  BY <1>2, PartEmpty
<1> QED BY <1>1, <1>2, <1>3, LenNat

(* Where it is after a step that has not ended them.                        *)
LEMMA InputMoves ==
  ASSUME World, World', script' = script, mode' = mode,
         NEW w \in Texts, NEW k \in Nat, NEW m \in Nat, NEW c \in Nat, NEW d \in Nat,
         Wire(w, c), k <= m, m <= Len(w), c <= d, d <= typed', Clean(w, k),
         mode = "lab1a" => m <= typed',
         Passed' = Through(w, k), InHand' = Part(w, k, m),
         mode = "lab1a" => tty' = Part(script, m, typed'),
         mode # "lab1a" =>
           /\ Stream(conn'.queue["server"], w, m, Len(w), Singly)
           /\ Reading' => cli'.batch = Part(script, c, d) /\ tty' = Part(script, d, typed')
  PROVE  InputKept'
<1>1. Through(w, k)' = Through(w, k) /\ Wire(w, c)' /\ Singly' = Singly
  BY DEF Through, Wire, Singly
<1>2. Through(w, k) \in Texts
  <2>1. k \in 0..Len(w)
    BY LenNat
  <2> QED BY <2>1, ThroughIs
<1>3. PICK f : f = Through(w, k)
  OBVIOUS
<1>4. IsPrefix(f, f)
  BY <1>2, <1>3, PrefixOfItself
<1>5. InputAt(w, k, m, c, d)'
  BY <1>1, <1>3, <1>4 DEF InputAt
<1> QED BY <1>5 DEF InputKept

LEMMA read_stdinInput ==
  ASSUME World, World', ServerFrame, read_stdin, InputKept
  PROVE  InputKept'
<1>0. /\ mode = "lab1a" /\ srv.pc = "loop" /\ srv \in ServerStates
      /\ UpToBuffer(tty) \in Texts
  BY ReadTexts DEF World, Types, read_stdin, Turn
<1>1. srv'.todo = UpToBuffer(tty) /\ srv'.pc = "forward"
  BY <1>0, SeenIs DEF read_stdin, ServerLabels
<1>2. UNCHANGED <<shell, conn, shown, mangled, mode, hungup, cli, script, typed>>
  BY DEF read_stdin, ServerFrame
<1>3. CASE ~shell.alive
  <2>1. InputStill
    BY <1>2, <1>3 DEF InputStill, Passed, Open
  <2> QED BY <2>1, InputFrame
<1>4. CASE shell.alive /\ ~mangled
  <2>0. Open /\ InHand = <<>>
    BY <1>0, <1>4 DEF Open, Going, InHand
  <2>1. PICK w \in Texts, k \in Nat, m \in Nat, c \in Nat, d \in Nat : InputAt(w, k, m, c, d)
    BY <1>4 DEF InputKept
  <2>2. /\ script \in Texts /\ Len(script) \in Nat /\ typed \in Nat /\ typed <= Len(script)
        /\ Wire(w, c) /\ Len(w) \in Nat
        /\ k <= m /\ m <= Len(w) /\ c <= d /\ d <= typed /\ Clean(w, k)
        /\ Passed = Through(w, k) /\ k = m /\ tty = Part(script, m, typed)
    BY <1>0, <2>0, <2>1, InputIs
  <2>3. m <= typed /\ w = script
    BY <1>0, <2>0, <2>1, InputIs DEF Wire
  <2>4. PICK e \in Nat :
          /\ m <= e /\ e <= typed /\ (e = m <=> Part(script, m, typed) = <<>>)
          /\ UpToBuffer(Part(script, m, typed)) = Part(script, m, e)
          /\ SubSeq(Part(script, m, typed), Len(UpToBuffer(Part(script, m, typed))) + 1,
                    Len(Part(script, m, typed))) = Part(script, e, typed)
    <3>1. script \in Texts /\ typed \in Nat /\ m <= typed /\ typed <= Len(script)
      BY <2>2, <2>3
    <3> QED BY <3>1, OneReadOfText
  <2>5. tty' = Part(script, e, typed)
    BY <2>2, <2>4 DEF read_stdin
  <2>6. InHand' = Part(w, k, e)
    BY <1>1, <2>2, <2>3, <2>4 DEF InHand
  <2>7. Passed' = Through(w, k) /\ typed' = typed /\ script' = script /\ mode' = mode
    BY <1>2, <2>2 DEF Passed
  <2>8. k <= e /\ e <= typed' /\ e <= Len(w) /\ d <= typed'
    BY <2>2, <2>3, <2>4, <2>7
  <2> QED BY <1>0, <2>2, <2>4, <2>5, <2>6, <2>7, <2>8, InputMoves
<1>5. CASE mangled
  BY <1>2, <1>5 DEF InputKept
<1> QED BY <1>3, <1>4, <1>5

LEMMA read_socketInput ==
  ASSUME World, World', ServerFrame, read_socket, InputKept
  PROVE  InputKept'
<1>0. /\ mode # "lab1a" /\ srv.pc = "loop" /\ conn \in Connections
      /\ conn.queue["server"] \in Queues
  BY NamesAre DEF World, Types, read_socket, Turn, Connections
<1>1. UNCHANGED <<shell, tty, shown, mode, hungup, cli, script, typed>>
  BY DEF read_socket, ServerFrame
<1>2. SUFFICES ASSUME ~mangled' PROVE InputKept'
  BY DEF InputKept
<1>3. ~mangled
  BY <1>2, read_socketKeeps DEF ReadsPackets
<1>4. PICK n \in Nat : ReadsPackets(n)
  BY read_socketKeeps
<1>5. CASE ~shell.alive
  <2>1. InputStill
    BY <1>1, <1>3, <1>5 DEF InputStill, Passed, Open
  <2> QED BY <2>1, InputFrame
<1>6. CASE shell.alive
  <2>0. Open /\ InHand = <<>>
    BY <1>0, <1>6 DEF Open, Going, InHand
  <2>1. PICK w \in Texts, k \in Nat, m \in Nat, c \in Nat, d \in Nat : InputAt(w, k, m, c, d)
    BY <1>3 DEF InputKept
  <2>2. /\ script \in Texts /\ Len(script) \in Nat /\ typed \in Nat /\ typed <= Len(script)
        /\ Wire(w, c) /\ Len(w) \in Nat
        /\ k <= m /\ m <= Len(w) /\ c <= d /\ d <= typed /\ Clean(w, k)
        /\ Passed = Through(w, k) /\ k = m
        /\ Stream(conn.queue["server"], w, m, Len(w), Singly)
        /\ Reading => cli.batch = Part(script, c, d) /\ tty = Part(script, d, typed)
    BY <1>0, <2>0, <2>1, InputIs
  <2>3. PICK q \in Queues : q = conn.queue["server"]
    BY <1>0
  <2>4. PICK s \in BOOLEAN : s = Singly
    BY DEF Singly
  <2>5. Stream(q, w, m, Len(w), s)
    BY <2>2, <2>3, <2>4
  <2>6. n <= Len(q) /\ 1 <= n
    BY <1>4, <2>3, ReadPackets DEF ReadsPackets
  <2>7. PICK e \in Nat :
          /\ m <= e /\ e <= Len(w)
          /\ Stream(SubSeq(q, n + 1, Len(q)), w, e, Len(w), s)
          /\ n = 1 => q[1].data = Part(w, m, e)
          /\ s => /\ e = m + n
                  /\ \A i \in 1..n : q[i].data = Part(w, (m + i) - 1, m + i)
    BY <2>5, <2>6, StreamRead
  <2>8. srv'.todo = Part(w, m, e)
    <3>1. CASE mode = "plain"
      <4>0. s
        BY <2>4, <3>1 DEF Singly
      <4>1. m + n <= Len(w) /\ e = m + n
        <5>1. e = m + n /\ e <= Len(w)
          BY <2>7, <4>0
        <5> QED BY <5>1
      <4>2. PiecesOf(q, n) = Part(w, m, m + n)
        BY <2>5, <2>6, <2>7, <4>0, <4>1, PiecesRead
      <4> QED BY <1>4, <2>3, <3>1, <4>1, <4>2 DEF ReadsPackets
    <3>2. CASE mode # "plain"
      BY <1>2, <1>4, <2>3, <2>7, <3>2 DEF ReadsPackets
    <3> QED BY <3>1, <3>2
  <2>9. InHand' = Part(w, k, e)
    BY <1>2, <1>4, <2>2, <2>8 DEF InHand, ReadsPackets
  <2>10. Stream(conn'.queue["server"], w, e, Len(w), Singly)
    BY <1>4, <2>3, <2>4, <2>7 DEF ReadsPackets
  <2>11. Passed' = Through(w, k) /\ typed' = typed /\ script' = script /\ mode' = mode
    BY <1>1, <2>2 DEF Passed
  <2>12. Reading' => cli'.batch = Part(script, c, d) /\ tty' = Part(script, d, typed')
    BY <1>1, <2>2 DEF Reading
  <2>13. k <= e /\ d <= typed'
    BY <2>2, <2>7, <2>11
  <2> QED BY <1>0, <2>2, <2>7, <2>9, <2>10, <2>11, <2>12, <2>13, InputMoves
<1> QED BY <1>5, <1>6

LEMMA InterruptInput ==
  ASSUME World, World', ServerFrame, Interrupt, InputKept, mode = "lab1a"
  PROVE  InputKept'
<1>0. /\ srv.pc = "forward" /\ srv \in ServerStates /\ shell \in ShellStates
      /\ srv.todo # <<>> /\ srv.todo \in Texts /\ Head(srv.todo) = ETX
      /\ Len(srv.todo) \in Nat /\ Len(srv.todo) # 0 /\ mangled \in BOOLEAN
  <2>1. srv.todo \in Texts
    BY DEF World, Types, ServerStates
  <2> QED BY <2>1, LenNat DEF World, Types, Places, Interrupt
<1>1. UNCHANGED <<conn, tty, shown, mode, hungup, cli, script, typed>>
  BY DEF Interrupt, ServerFrame
<1>2. /\ shell'.alive = shell.alive /\ shell'.got = shell.got /\ shell'.in = shell.in
  <2>1. shell' = [shell EXCEPT !.sigint = shell.alive]
    BY DEF Interrupt
  <2> QED BY <1>0, <2>1 DEF ShellStates
<1>3. Handle(<<>>, "forward") /\ mangled' = (mangled \/ Len(srv.todo) > 1)
  BY DEF Interrupt
<1>4. srv'.todo = <<>> /\ srv'.pc = "loop"
  BY <1>0, <1>3, NamesAre, HandleIs DEF ServerLabels
<1>5. SUFFICES ASSUME ~mangled' PROVE InputKept'
  BY DEF InputKept
<1>6. ~mangled /\ Len(srv.todo) = 1
  <2>1. ~mangled /\ ~(Len(srv.todo) > 1)
    BY <1>3, <1>5, Zenon
  <2>2. PICK n \in Nat : n = Len(srv.todo)
    BY <1>0
  <2>3. n # 0 /\ ~(n > 1)
    BY <1>0, <2>1, <2>2
  <2>4. n = 1
    BY <2>3
  <2> QED BY <2>1, <2>2, <2>4
<1>7. CASE ~shell.alive
  <2>1. InputStill
    BY <1>1, <1>2, <1>6, <1>7 DEF InputStill, Passed, Open
  <2> QED BY <2>1, InputFrame
<1>8. CASE shell.alive
  <2>0. Open /\ InHand = srv.todo
    BY <1>0, <1>8 DEF Open, Going, InHand
  <2>1. PICK w \in Texts, k \in Nat, m \in Nat, c \in Nat, d \in Nat : InputAt(w, k, m, c, d)
    BY <1>6 DEF InputKept
  <2>2. /\ script \in Texts /\ Len(script) \in Nat /\ typed \in Nat /\ typed <= Len(script)
        /\ Wire(w, c) /\ Len(w) \in Nat
        /\ k <= m /\ m <= Len(w) /\ c <= d /\ d <= typed /\ Clean(w, k)
        /\ Passed = Through(w, k) /\ InHand = Part(w, k, m)
        /\ tty = Part(script, m, typed)
    <3>1. script \in Texts /\ Len(script) \in Nat /\ typed \in Nat /\ typed <= Len(script)
      BY PassedIs
    <3>2. /\ Wire(w, c) /\ Len(w) \in Nat
          /\ k <= m /\ m <= Len(w) /\ c <= d /\ d <= typed /\ Clean(w, k)
      BY <2>0, <2>1, InputIs
    <3>3. Passed = Through(w, k) /\ InHand = Part(w, k, m)
      BY <2>0, <2>1, InputIs
    <3>4. tty = Part(script, m, typed)
      BY <2>0, <2>1, InputIs
    <3> QED BY <3>1, <3>2, <3>3, <3>4
  <2>3. m <= typed /\ w = script
    BY <2>0, <2>1, InputIs DEF Wire
  <2>4. m = k + 1
    <3>1. Len(Part(w, k, m)) = m - k
      BY <2>2, <2>3, PartType
    <3>2. m - k = 1
      BY <1>6, <2>0, <2>2, <3>1
    <3> QED BY <3>2
  <2>5. w[m] = ETX /\ m \in 1..Len(w) /\ m - 1 = k
    <3>1. Head(Part(w, k, m)) = w[k + 1]
      BY <2>2, <2>3, <2>4, PartHead
    <3> QED BY <1>0, <2>0, <2>2, <2>3, <2>4, <3>1
  <2>6. Clean(w, m)
    <3>1. ASSUME NEW i \in 1..m PROVE w[i] # EOT
      <4>1. CASE i = m
        BY <2>5, <4>1 DEF ETX, EOT
      <4>2. CASE i # m
        <5>1. i \in 1..k
          BY <2>4, <4>2
        <5> QED BY <2>2, <5>1 DEF Clean
      <4> QED BY <4>1, <4>2
    <3> QED BY <3>1 DEF Clean
  <2>7. Through(w, m) = Through(w, k)
    BY <2>2, <2>5, ThroughIs
  <2>8. /\ Passed' = Through(w, m) /\ typed' = typed /\ script' = script /\ mode' = mode
        /\ m <= m /\ d <= typed' /\ m <= typed'
    BY <1>1, <1>2, <2>2, <2>3, <2>7 DEF Passed
  <2>9. InHand' = Part(w, m, m)
    <3>1. Part(w, m, m) = <<>>
      BY <2>2, <2>3, PartEmpty
    <3> QED BY <1>4, <3>1 DEF InHand
  <2>10. tty' = Part(script, m, typed')
    BY <1>1, <2>2, <2>8
  <2> QED BY <2>2, <2>6, <2>8, <2>9, <2>10, InputMoves
<1> QED BY <1>7, <1>8

LEMMA ForwardInput ==
  ASSUME World, World', ServerFrame, Forward, InputKept
  PROVE  InputKept'
<1>0. /\ srv.pc \in {"forward", "interrupted"} /\ srv \in ServerStates /\ shell \in ShellStates
      /\ srv.todo # <<>> /\ srv.todo \in Texts /\ shell.alive /\ Head(srv.todo) # EOT
      /\ mode = "lab1a" => Head(srv.todo) # ETX
      /\ shell.in \in Texts /\ shell.got \in Texts
  BY DEF World, Types, Places, Forward, Writing, ServerStates, ShellStates, ETX, EOT
<1>1. UNCHANGED <<conn, tty, shown, mangled, mode, hungup, cli, script, typed>>
  BY DEF Forward, ServerFrame
<1>2. PICK x \in Pieces, t \in Texts : x = Head(srv.todo) /\ t = Tail(srv.todo)
  BY <1>0, PieceTaken
<1>3. /\ shell'.alive /\ shell'.got = shell.got /\ shell'.in = Append(shell.in, x)
  <2>1. shell' = [shell EXCEPT !.in = Append(@, Head(srv.todo))]
    BY DEF Forward
  <2> QED BY <1>0, <1>2, <2>1 DEF ShellStates
<1>4. srv'.todo = t /\ srv'.pc \in {"loop", "forward"} /\ (srv'.pc = "loop" => t = <<>>)
  <2>1. Handle(t, "forward") /\ "forward" \in ServerLabels
    BY <1>2 DEF Forward, ServerLabels
  <2> QED BY <1>0, <2>1, HandleIs
<1>5. SUFFICES ASSUME ~mangled PROVE InputKept'
  BY <1>1 DEF InputKept
<1>6. Open /\ InHand = srv.todo
  BY <1>0 DEF Open, Going, InHand
<1>7. PICK w \in Texts, k \in Nat, m \in Nat, c \in Nat, d \in Nat : InputAt(w, k, m, c, d)
  BY <1>5 DEF InputKept
<1>8. /\ script \in Texts /\ Len(script) \in Nat /\ typed \in Nat /\ typed <= Len(script)
      /\ Wire(w, c) /\ Len(w) \in Nat
        /\ k <= m /\ m <= Len(w) /\ c <= d /\ d <= typed /\ Clean(w, k)
      /\ Passed = Through(w, k) /\ InHand = Part(w, k, m)
      /\ mode = "lab1a" => tty = Part(script, m, typed)
      /\ mode # "lab1a" =>
           /\ Stream(conn.queue["server"], w, m, Len(w), Singly)
           /\ Reading => cli.batch = Part(script, c, d) /\ tty = Part(script, d, typed)
      /\ InHand = <<>> <=> k = m
      /\ mode = "lab1a" => m <= typed
  <2>1. script \in Texts /\ Len(script) \in Nat /\ typed \in Nat /\ typed <= Len(script)
    BY PassedIs
  <2>2. /\ Wire(w, c) /\ Len(w) \in Nat
        /\ k <= m /\ m <= Len(w) /\ c <= d /\ d <= typed /\ Clean(w, k)
        /\ mode = "lab1a" => m <= typed
    BY <1>6, <1>7, InputIs
  <2>3. Passed = Through(w, k) /\ InHand = Part(w, k, m) /\ (InHand = <<>> <=> k = m)
    BY <1>6, <1>7, InputIs
  <2>4. /\ mode = "lab1a" => tty = Part(script, m, typed)
        /\ mode # "lab1a" =>
             /\ Stream(conn.queue["server"], w, m, Len(w), Singly)
             /\ Reading => cli.batch = Part(script, c, d) /\ tty = Part(script, d, typed)
    BY <1>6, <1>7, InputIs
  <2> QED BY <2>1, <2>2, <2>3, <2>4
<1>9. k < m /\ m <= Len(w)
  BY <1>0, <1>6, <1>8
<1>10. x = w[k + 1] /\ t = Part(w, k + 1, m)
  BY <1>2, <1>6, <1>8, <1>9, PartHead
<1>11. PICK l \in Nat : l = k + 1 /\ l <= m /\ l \in 1..Len(w) /\ l - 1 = k
  BY <1>8, <1>9
<1>12. Clean(w, l)
  <2>1. ASSUME NEW i \in 1..l PROVE w[i] # EOT
    <3>1. CASE i = l
      BY <1>0, <1>2, <1>10, <1>11, <3>1
    <3>2. CASE i # l
      <4>1. i \in 1..k
        BY <1>11, <3>2
      <4> QED BY <1>8, <4>1 DEF Clean
    <3> QED BY <3>1, <3>2
  <2> QED BY <2>1 DEF Clean
<1>13. Through(w, l) = Append(Through(w, k), x)
  <2>1. Through(w, l) = IF mode = "lab1a" /\ w[l] = ETX THEN Through(w, l - 1)
                        ELSE Append(Through(w, l - 1), w[l])
    BY <1>11, ThroughIs
  <2>2. ~(mode = "lab1a" /\ w[l] = ETX)
    BY <1>0, <1>2, <1>10, <1>11
  <2> QED BY <1>10, <1>11, <2>1, <2>2
<1>14. Passed' = Through(w, l)
  <2>1. shell.got \o Append(shell.in, x) = Append(shell.got \o shell.in, x)
    BY <1>0, PieceGiven
  <2>2. Passed' = Append(Passed, x)
    BY <1>3, <2>1 DEF Passed
  <2> QED BY <1>8, <1>13, <2>2
<1>15. InHand' = Part(w, l, m)
  BY <1>4, <1>10, <1>11 DEF InHand
<1>16. /\ typed' = typed /\ script' = script /\ mode' = mode /\ d <= typed'
       /\ mode = "lab1a" => m <= typed'
       /\ mode = "lab1a" => tty' = Part(script, m, typed')
       /\ mode # "lab1a" =>
            /\ Stream(conn'.queue["server"], w, m, Len(w), Singly)
            /\ Reading' => cli'.batch = Part(script, c, d) /\ tty' = Part(script, d, typed')
  BY <1>1, <1>8 DEF Reading
<1> QED BY <1>8, <1>11, <1>12, <1>14, <1>15, <1>16, InputMoves

LEMMA TypeInput ==
  ASSUME World, World', Type, InputKept
  PROVE  InputKept'
<1>0. typed < Len(script) /\ typed' = typed + 1 /\ tty' = Append(tty, script[typed + 1])
      /\ typed \in Nat /\ script \in Texts /\ Len(script) \in Nat
  BY LenNat DEF Type, World, Types
<1>1. UNCHANGED <<mode, shell, srv, conn, hungup, shown, mangled, cli, script>>
  BY DEF Type
<1>2. SUFFICES ASSUME ~mangled PROVE InputKept'
  BY <1>1 DEF InputKept
<1>3. PICK w \in Texts, k \in Nat, m \in Nat, c \in Nat, d \in Nat : InputAt(w, k, m, c, d)
  BY <1>2 DEF InputKept
<1>4. CASE ~Open
  <2>1. /\ Wire(w, c) /\ k <= m /\ m <= Len(w) /\ c <= d /\ d <= typed
        /\ mode = "lab1a" => m <= typed
        /\ Clean(w, k) /\ IsPrefix(Passed, Through(w, k))
    BY <1>3 DEF InputAt
  <2>2. /\ Wire(w, c)' /\ d <= typed' /\ (mode = "lab1a" => m <= typed') /\ ~Open'
        /\ IsPrefix(Passed', Through(w, k)')
    BY <1>0, <1>1, <1>4, <2>1 DEF Wire, Carries, Through, Passed, Open, Going
  <2>3. InputAt(w, k, m, c, d)'
    BY <1>1, <2>1, <2>2 DEF InputAt
  <2> QED BY <2>3 DEF InputKept
<1>5. CASE Open
  <2>1. /\ Wire(w, c) /\ Len(w) \in Nat
        /\ k <= m /\ m <= Len(w) /\ c <= d /\ d <= typed /\ Clean(w, k)
        /\ Passed = Through(w, k) /\ InHand = Part(w, k, m)
        /\ mode = "lab1a" => tty = Part(script, m, typed)
        /\ mode # "lab1a" =>
             /\ Stream(conn.queue["server"], w, m, Len(w), Singly)
             /\ Reading => cli.batch = Part(script, c, d) /\ tty = Part(script, d, typed)
        /\ mode = "lab1a" => m <= typed
    BY <1>3, <1>5, InputIs
  <2>2. \A i \in Nat : i <= typed => Append(Part(script, i, typed), script[typed + 1])
                                       = Part(script, i, typed')
    BY <1>0, PartGrows
  <2>3. /\ Passed' = Through(w, k) /\ InHand' = Part(w, k, m) /\ d <= typed'
        /\ mode = "lab1a" => m <= typed'
    BY <1>0, <1>1, <2>1 DEF Passed, InHand
  <2>4. mode = "lab1a" => tty' = Part(script, m, typed')
    BY <1>0, <2>1, <2>2
  <2>5. mode # "lab1a" =>
          /\ Stream(conn'.queue["server"], w, m, Len(w), Singly)
          /\ Reading' => cli'.batch = Part(script, c, d) /\ tty' = Part(script, d, typed')
    BY <1>0, <1>1, <2>1, <2>2 DEF Reading
  <2> QED BY <1>1, <2>1, <2>3, <2>4, <2>5, InputMoves
<1> QED BY <1>4, <1>5

(* What is sent behind what has been sent.                                  *)
LEMMA OneBatchSent ==
  ASSUME NEW w \in Texts, NEW u \in Texts, u # <<>>
  PROVE  /\ <<Batch(u)>> \in Queues
         /\ Stream(<<Batch(u)>>, w \o u, Len(w), Len(w \o u), FALSE)
<1>1. PICK t \in Texts, a \in Nat, b \in Nat :
        t = w \o u /\ a = Len(w) /\ b = Len(t) /\ b = a + Len(u) /\ a <= b
  BY JoinedIsLonger, LenNat
<1>2. u = Part(t, a, b)
  BY <1>1, SecondPart
<1>3. PICK p \in Packets : p = Batch(u) /\ p.data = u
  BY OneBatch
<1>4. FALSE \in BOOLEAN /\ (FALSE => b = a + 1) /\ b <= Len(t)
  BY <1>1
<1>5. <<p>> \in Queues /\ Stream(<<p>>, t, a, b, FALSE)
  BY <1>1, <1>2, <1>3, <1>4, OnePacket
<1> QED BY <1>1, <1>3, <1>5

LEMMA ManySent ==
  ASSUME NEW w \in Texts, NEW u \in Texts
  PROVE  /\ Singles(u) \in Queues
         /\ Stream(Singles(u), w \o u, Len(w), Len(w \o u), TRUE)
<1>1. PICK t \in Texts, a \in Nat, b \in Nat :
        t = w \o u /\ a = Len(w) /\ b = Len(t) /\ b = a + Len(u) /\ a <= b
  BY JoinedIsLonger, LenNat
<1>2. u = Part(t, a, b) /\ b <= Len(t)
  BY <1>1, SecondPart
<1>3. PICK p : p = Singles(u)
  OBVIOUS
<1>4. TRUE \in BOOLEAN
  OBVIOUS
<1>5. p \in Queues /\ Stream(p, t, a, b, TRUE)
  BY <1>1, <1>2, <1>3, <1>4, ManyPackets
<1> QED BY <1>1, <1>3, <1>5

(* A batch goes over the wire, with its NUL or without.                     *)
LEMMA BatchSent ==
  ASSUME script \in Texts, NoNul(script), mode \in {"plain", "compress"},
         NEW w \in Texts, NEW c \in Nat, NEW e \in Nat, c <= e, e <= Len(script), Wire(w, c),
         NEW batch \in Texts, batch = Part(script, c, e), batch # <<>>
  PROVE  \E u \in Texts :
           /\ Wire(w \o u, e) /\ wired(batch) \in Queues
           /\ Stream(wired(batch), w \o u, Len(w), Len(w \o u), Singly)
<1>1. CASE mode = "plain"
  <2>1. PICK u \in Texts : u = Append(batch, NUL)
    BY NamesAre, Grown
  <2>2. Singles(u) \in Queues /\ Stream(Singles(u), w \o u, Len(w), Len(w \o u), TRUE)
    BY ManySent
  <2>3. wired(batch) = Singles(u) /\ Singly = TRUE
    BY <1>1, <2>1 DEF wired, Singly
  <2>4. Carries(w \o u, script, e)
    <3>1. Carries(w, script, c)
      BY <1>1 DEF Wire
    <3>2. u = Append(Part(script, c, e), NUL)
      BY <2>1
    <3> QED BY <3>1, <3>2, WireGrows
  <2>5. Wire(w \o u, e)
    BY <1>1, <2>4 DEF Wire
  <2> QED BY <2>2, <2>3, <2>5
<1>2. CASE mode = "compress"
  <2>1. /\ <<Batch(batch)>> \in Queues
        /\ Stream(<<Batch(batch)>>, w \o batch, Len(w), Len(w \o batch), FALSE)
    BY OneBatchSent
  <2>2. wired(batch) = <<Batch(batch)>> /\ Singly = FALSE
    BY <1>2 DEF wired, Singly
  <2>3. w \o batch = Part(script, 0, e)
    <3>1. 0 \in Nat /\ 0 <= c
      OBVIOUS
    <3>2. w = Part(script, 0, c)
      BY <1>2 DEF Wire
    <3>3. Part(script, 0, c) \o Part(script, c, e) = Part(script, 0, e)
      BY <3>1, PartsJoined
    <3> QED BY <3>2, <3>3
  <2>4. Wire(w \o batch, e)
    BY <1>2, <2>3 DEF Wire
  <2> QED BY <2>1, <2>2, <2>4
<1> QED BY <1>1, <1>2

(* More on the wire changes nothing of what is before.                      *)
LEMMA WireLonger ==
  ASSUME NEW w \in Texts, NEW u \in Texts, NEW k \in Nat, NEW m \in Nat, k <= m, m <= Len(w),
         mode # "lab1a", Clean(w, k)
  PROVE  /\ w \o u \in Texts /\ Len(w) <= Len(w \o u) /\ m <= Len(w \o u)
         /\ Through(w \o u, k) = Through(w, k) /\ Part(w \o u, k, m) = Part(w, k, m)
         /\ Clean(w \o u, k)
<1>1. PICK v \in Texts : /\ v = w \o u /\ Len(w) <= Len(v) /\ \A i \in 1..Len(w) : v[i] = w[i]
  BY JoinedIsLonger
<1>2. Len(w) \in Nat /\ Len(v) \in Nat /\ 0 \in Nat /\ 0 <= k /\ k <= Len(w)
  BY LenNat
<1>3. Part(v, 0, k) = Part(w, 0, k) /\ Part(v, k, m) = Part(w, k, m)
  <2>1. Part(v, 0, k) = Part(w, 0, k)
    <3>1. 0 \in Nat /\ 0 <= k /\ k <= Len(w)
      BY <1>2
    <3> QED BY <1>1, <3>1, PartOfLonger
  <2>2. Part(v, k, m) = Part(w, k, m)
    BY <1>1, PartOfLonger
  <2> QED BY <2>1, <2>2
<1>4. \A i \in 1..k : i \in 1..Len(w)
  BY <1>2
<1> QED BY <1>1, <1>2, <1>3, <1>4 DEF Through, Clean

LEMMA ReadsKeysInput ==
  ASSUME World, World', ReadsKeys, InputKept
  PROVE  InputKept'
<1>0. /\ mode # "lab1a" /\ Reading /\ Reading' /\ conn \in Connections
      /\ conn.queue["server"] \in Queues
      /\ mode \in {"plain", "compress"} /\ NoNul(script)
      /\ UNCHANGED <<shell, srv, mode, mangled, script, typed>>
  BY NamesAre DEF ReadsKeys, World, Types, Connections
<1>1. SUFFICES ASSUME ~mangled PROVE InputKept'
  BY <1>0 DEF InputKept
<1>2. CASE ~Open
  <2>1. InputStill
    BY <1>0, <1>2 DEF InputStill, Open, Going, Passed
  <2> QED BY <2>1, InputFrame
<1>3. CASE Open
  <2>1. PICK w \in Texts, k \in Nat, m \in Nat, c \in Nat, d \in Nat : InputAt(w, k, m, c, d)
    BY <1>1 DEF InputKept
  <2>2. /\ script \in Texts /\ Len(script) \in Nat /\ typed \in Nat /\ typed <= Len(script)
        /\ Wire(w, c) /\ Len(w) \in Nat
        /\ k <= m /\ m <= Len(w) /\ c <= d /\ d <= typed /\ Clean(w, k)
        /\ Passed = Through(w, k) /\ InHand = Part(w, k, m)
        /\ Stream(conn.queue["server"], w, m, Len(w), Singly)
        /\ cli.batch = Part(script, c, d) /\ tty = Part(script, d, typed)
    <3>1. mode # "lab1a" /\ Reading
      BY <1>0
    <3> QED BY <1>3, <2>1, <3>1, InputIs
  <2>3. PICK e \in Nat :
          /\ d <= e /\ e <= typed /\ (e = d <=> Part(script, d, typed) = <<>>)
          /\ UpToBuffer(Part(script, d, typed)) = Part(script, d, e)
          /\ SubSeq(Part(script, d, typed), Len(UpToBuffer(Part(script, d, typed))) + 1,
                    Len(Part(script, d, typed))) = Part(script, e, typed)
    <3>1. script \in Texts /\ typed \in Nat /\ d <= typed /\ typed <= Len(script)
      BY <2>2
    <3> QED BY <3>1, OneReadOfText
  <2>4. e <= Len(script) /\ c <= e /\ d <= Len(script)
    BY <2>2, <2>3
  <2>5. tty' = Part(script, e, typed)
    BY <2>2, <2>3 DEF ReadsKeys
  <2>6. Batched = Part(script, c, e)
    <3>1. Part(script, c, d) \o Part(script, d, e) = Part(script, c, e)
      <4>1. script \in Texts /\ c <= d /\ d <= e /\ e <= Len(script)
        BY <2>2, <2>3, <2>4
      <4> QED BY <4>1, PartsJoined
    <3>2. cli.batch = Part(script, c, d) /\ UpToBuffer(tty) = Part(script, d, e)
      BY <2>2, <2>3
    <3> QED BY <3>1, <3>2 DEF Batched
  <2>7. /\ Passed' = Through(w, k) /\ InHand' = Part(w, k, m) /\ typed' = typed
        /\ e <= typed' /\ script' = script /\ mode' = mode
    BY <1>0, <2>2, <2>3 DEF Passed, InHand
  <2>8. CASE cli'.batch = Batched /\ conn'.queue["server"] = conn.queue["server"]
    <3>1. /\ Stream(conn'.queue["server"], w, m, Len(w), Singly)
          /\ cli'.batch = Part(script, c, e) /\ tty' = Part(script, e, typed')
      BY <2>2, <2>5, <2>6, <2>7, <2>8
    <3> QED BY <1>0, <2>2, <2>4, <2>7, <3>1, InputMoves
  <2>9. CASE /\ cli'.batch = <<>> /\ Batched # <<>>
             /\ conn.fin["server"] \/
                  conn'.queue["server"] = conn.queue["server"] \o wired(Batched)
    <3>1. conn'.queue["server"] = conn.queue["server"] \o wired(Batched)
      BY <1>3, <2>9 DEF World, Places, Open, Going
    <3>2. PICK batch \in Texts : batch = Batched /\ batch = Part(script, c, e) /\ batch # <<>>
      BY <2>2, <2>4, <2>6, <2>9, PartType
    <3>3. PICK u \in Texts :
            /\ Wire(w \o u, e) /\ wired(batch) \in Queues
            /\ Stream(wired(batch), w \o u, Len(w), Len(w \o u), Singly)
      BY <1>0, <2>2, <2>4, <3>2, BatchSent
    <3>4. PICK v \in Texts, s \in BOOLEAN, p \in Queues, q \in Queues :
            v = w \o u /\ s = Singly /\ p = wired(batch) /\ q = conn.queue["server"]
      BY <1>0, <3>3, JoinedIsLonger DEF Singly
    <3>5. /\ Len(w) <= Len(v) /\ m <= Len(v) /\ Through(v, k) = Through(w, k)
          /\ Part(v, k, m) = Part(w, k, m) /\ Clean(v, k)
      BY <1>0, <2>2, <3>4, WireLonger
    <3>6. Stream(q, v, m, Len(w), s)
      <4>1. \A i \in 1..Len(w) : v[i] = w[i]
        BY <3>4, JoinedIsLonger
      <4>2. Stream(q, w, m, Len(w), s)
        BY <2>2, <3>4
      <4> QED BY <3>5, <4>1, <4>2, StreamOfLonger
    <3>7. Stream(p, v, Len(w), Len(v), s)
      BY <3>3, <3>4
    <3>8. Stream(q \o p, v, m, Len(v), s)
      BY <3>6, <3>7, StreamsJoined
    <3>9. Stream(conn'.queue["server"], v, m, Len(v), Singly)
      BY <3>1, <3>2, <3>4, <3>8
    <3>10. cli'.batch = Part(script, e, e)
      BY <2>2, <2>4, <2>9, PartEmpty
    <3>11. /\ Wire(v, e) /\ tty' = Part(script, e, typed') /\ e <= e
           /\ Passed' = Through(v, k) /\ InHand' = Part(v, k, m)
      BY <2>5, <2>7, <3>3, <3>4, <3>5
    <3> QED BY <1>0, <2>2, <2>7, <3>5, <3>9, <3>10, <3>11, InputMoves
  <2> QED BY <2>8, <2>9 DEF ReadsKeys
<1> QED BY <1>2, <1>3

-----------------------------------------------------------------------------
(* The steps that move the output.                                         *)

LEMMA OutputIs ==
  ASSUME World, OutputKept, ~mangled, EOT \notin Range(shell.printed)
  PROVE  \E a, b, c \in Nat :
           /\ OutputAt(a, b, c)
           /\ shell.printed \in Texts /\ Len(shell.printed) \in Nat
           /\ a <= b /\ b <= c /\ c <= Len(shell.printed)
           /\ shown = Part(shell.printed, 0, a)
           /\ shell.out = Part(shell.printed, c, Len(shell.printed))
           /\ mode = "lab1a" => a = b
           /\ mode # "lab1a" /\ Reading =>
                Stream(conn.queue["client"], shell.printed, a, b, Singly)
           /\ srv.pc # "wait"
           /\ Sending => ToSend = Part(shell.printed, b, c) /\ (ToSend = <<>> <=> b = c)
           /\ srv.exit = 0 => b = Len(shell.printed)
           /\ Satisfied => a = b /\ srv.exit # Running
<1>1. PICK a \in Nat, b \in Nat, c \in Nat : OutputAt(a, b, c)
  BY DEF OutputKept
<1>2. /\ a <= b /\ b <= c /\ c <= Len(shell.printed)
      /\ shown = Part(shell.printed, 0, a)
      /\ shell.out = Part(shell.printed, c, Len(shell.printed))
      /\ mode = "lab1a" => a = b
      /\ mode # "lab1a" /\ Reading =>
           Stream(conn.queue["client"], shell.printed, a, b, Singly)
      /\ srv.pc # "wait"
      /\ Sending => ToSend = Part(shell.printed, b, c)
      /\ srv.exit = 0 => b = Len(shell.printed)
      /\ Satisfied => a = b /\ srv.exit # Running
  BY <1>1 DEF OutputAt
<1>3. shell.printed \in Texts /\ Len(shell.printed) \in Nat
  <2>1. shell.printed \in Texts
    BY DEF World, Types, ShellStates
  <2> QED BY <2>1, LenNat
<1>4. Part(shell.printed, b, c) = <<>> <=> b = c
  BY <1>2, <1>3, PartEmpty
<1> QED BY <1>1, <1>2, <1>3, <1>4

(* The server reads from the shell, with nothing left in its hand.          *)
ReadsOutput ==
  /\ srv.pc \in {"loop", "last"} /\ srv.todo = <<>>
  /\ srv'.pc \in {"reply", "last"} /\ srv'.todo = UpToBuffer(shell.out)
  /\ shell'.out = SubSeq(shell.out, Len(UpToBuffer(shell.out)) + 1, Len(shell.out))
  /\ shell'.printed = shell.printed /\ srv'.exit = srv.exit
  /\ UNCHANGED <<conn, shown, mangled, mode, hungup, cli>>

LEMMA ReadsOutputOutput ==
  ASSUME World, OutputKept, ReadsOutput
  PROVE  OutputKept'
<1>0. /\ shell'.printed = shell.printed /\ srv'.exit = srv.exit
      /\ UNCHANGED <<conn, shown, mangled, mode, hungup, cli>>
  BY DEF ReadsOutput
<1>1. SUFFICES ASSUME ~mangled, EOT \notin Range(shell.printed) PROVE OutputKept'
  BY <1>0 DEF OutputKept
<1>2. PICK l : l = Len(shell.printed)
  OBVIOUS
<1>3. PICK a \in Nat, b \in Nat, c \in Nat :
        /\ shell.printed \in Texts /\ l \in Nat
        /\ a <= b /\ b <= c /\ c <= l
        /\ shown = Part(shell.printed, 0, a)
        /\ shell.out = Part(shell.printed, c, l)
        /\ mode = "lab1a" => a = b
        /\ mode # "lab1a" /\ Reading =>
             Stream(conn.queue["client"], shell.printed, a, b, Singly)
        /\ Sending => (ToSend = <<>> <=> b = c)
        /\ srv.exit = 0 => b = l
        /\ Satisfied => a = b /\ srv.exit # Running
  BY <1>1, <1>2, OutputIs
<1>4. PICK e \in Nat :
        /\ c <= e /\ e <= l /\ (e = c <=> Part(shell.printed, c, l) = <<>>)
        /\ UpToBuffer(Part(shell.printed, c, l)) = Part(shell.printed, c, e)
        /\ SubSeq(Part(shell.printed, c, l), Len(UpToBuffer(Part(shell.printed, c, l))) + 1,
                  Len(Part(shell.printed, c, l))) = Part(shell.printed, e, l)
  <2>1. shell.printed \in Texts /\ l \in Nat /\ c <= l /\ l <= Len(shell.printed)
    BY <1>2, <1>3
  <2> QED BY <2>1, OneReadOfText
<1>5. b <= e
  BY <1>3, <1>4
<1>6. srv'.todo = Part(shell.printed, c, e) /\ shell'.out = Part(shell.printed, e, l)
  BY <1>3, <1>4 DEF ReadsOutput
<1>7. Sending' => ToSend' = Part(shell.printed, b, e)
  <2>1. Sending' => Sending
    BY <1>0 DEF Sending, ReadsOutput
  <2>2. ToSend = <<>> /\ ToSend' = srv'.todo
    BY DEF ToSend, ReadsOutput
  <2> QED BY <1>3, <1>6, <2>1, <2>2
<1>8. Reading' = Reading /\ Singly' = Singly /\ (Satisfied' => Satisfied) /\ srv'.pc # "wait"
  BY <1>0 DEF Reading, Singly, Satisfied, ReadsOutput
<1>9. OutputAt(a, b, e)'
  BY <1>0, <1>2, <1>3, <1>4, <1>5, <1>6, <1>7, <1>8 DEF OutputAt
<1> QED BY <1>9 DEF OutputKept

LEMMA FinishedOutput ==
  ASSUME World, OutputKept, Finished
  PROVE  OutputKept'
<1>0. /\ srv.pc = "last" /\ srv.todo = <<>> /\ shell.out = <<>> /\ shell'.out = <<>>
      /\ shell'.printed = shell.printed /\ shown' = shown /\ mangled' = mangled /\ mode' = mode
      /\ srv'.pc = "done" /\ srv'.exit # Running
      /\ srv'.exit = 0 => mode = "lab1a" \/ ~Lost(conn, "server")
      /\ Reading' => Reading /\ conn'.queue["client"] = conn.queue["client"]
      /\ Satisfied' => Satisfied
  BY DEF Finished
<1>1. SUFFICES ASSUME ~mangled, EOT \notin Range(shell.printed) PROVE OutputKept'
  BY <1>0 DEF OutputKept
<1>2. PICK l : l = Len(shell.printed)
  OBVIOUS
<1>3. PICK a \in Nat, b \in Nat, c \in Nat :
        /\ shell.printed \in Texts /\ l \in Nat
        /\ a <= b /\ b <= c /\ c <= l
        /\ shown = Part(shell.printed, 0, a)
        /\ shell.out = Part(shell.printed, c, l)
        /\ mode = "lab1a" => a = b
        /\ mode # "lab1a" /\ Reading =>
             Stream(conn.queue["client"], shell.printed, a, b, Singly)
        /\ Sending => (ToSend = <<>> <=> b = c)
        /\ Satisfied => a = b
  BY <1>1, <1>2, OutputIs
<1>4. c = l
  BY <1>0, <1>2, <1>3, PartEmpty
<1>5. srv'.exit = 0 => b = l
  <2>1. ToSend = <<>>
    BY <1>0 DEF ToSend
  <2>2. srv'.exit = 0 => Sending
    BY <1>0 DEF Sending
  <2> QED BY <1>3, <1>4, <2>1, <2>2
<1>6. ~Sending' /\ Singly' = Singly
  BY <1>0 DEF Sending, Singly
<1>7. OutputAt(a, b, c)'
  BY <1>0, <1>2, <1>3, <1>5, <1>6 DEF OutputAt
<1> QED BY <1>7 DEF OutputKept

LEMMA ReadsTheEndOutput ==
  ASSUME World, OutputKept, ReadsTheEnd
  PROVE  OutputKept'
<1>0. /\ mode # "lab1a" /\ Reading /\ ~Reading' /\ conn.queue["client"] = <<>>
      /\ UNCHANGED <<shown, shell, srv, mode, mangled>>
      /\ Sending' => Sending
      /\ Satisfied' => srv.exit # Running
  BY DEF ReadsTheEnd
<1>1. SUFFICES ASSUME ~mangled, EOT \notin Range(shell.printed) PROVE OutputKept'
  BY <1>0 DEF OutputKept
<1>2. PICK l : l = Len(shell.printed)
  OBVIOUS
<1>3. PICK a \in Nat, b \in Nat, c \in Nat :
        /\ shell.printed \in Texts /\ l \in Nat
        /\ a <= b /\ b <= c /\ c <= l
        /\ shown = Part(shell.printed, 0, a)
        /\ shell.out = Part(shell.printed, c, l)
        /\ Stream(conn.queue["client"], shell.printed, a, b, Singly)
        /\ srv.pc # "wait"
        /\ Sending => ToSend = Part(shell.printed, b, c)
        /\ srv.exit = 0 => b = l
  BY <1>0, <1>1, <1>2, OutputIs
<1>4. a = b
  <2>1. PICK s \in BOOLEAN : s = Singly
    BY DEF Singly
  <2>2. Stream(<<>>, shell.printed, a, b, s) /\ b <= Len(shell.printed) /\ shell.printed \in Texts
    BY <1>0, <1>2, <1>3, <2>1
  <2> QED BY <2>2, NothingQueued
<1>5. ToSend' = ToSend
  BY <1>0 DEF ToSend
<1>6. OutputAt(a, b, c)'
  BY <1>0, <1>2, <1>3, <1>4, <1>5 DEF OutputAt
<1> QED BY <1>6 DEF OutputKept

LEMMA ReadsOfOutput ==
  ASSUME World, ServerFrame, read_bash \/ last_read
  PROVE  ReadsOutput
<1>1. srv \in ServerStates /\ shell \in ShellStates /\ (srv.pc = "loop" => srv.todo = <<>>)
  BY DEF World, Types, Places
<1>2. UpToBuffer(shell.out) \in Texts
  BY <1>1, ReadTexts DEF ShellStates
<1>3. CASE read_bash
  <2>1. /\ Turn("shell") /\ Seen("shell", UpToBuffer(shell.out), "reply")
        /\ shell' = [shell EXCEPT !.out = SubSeq(@, Len(srv'.todo) + 1, Len(@))]
        /\ UNCHANGED <<conn, tty, shown, mangled>>
    BY <1>3 DEF read_bash
  <2>2. srv.pc = "loop"
    BY <2>1 DEF Turn
  <2>3. srv'.todo = UpToBuffer(shell.out) /\ srv'.pc = "reply" /\ srv'.exit = srv.exit
    <3>1. "reply" \in ServerLabels
      BY DEF ServerLabels
    <3> QED BY <1>1, <1>2, <2>1, <3>1, SeenIs
  <2> QED BY <1>1, <2>1, <2>2, <2>3 DEF ReadsOutput, ServerFrame, ShellStates
<1>4. CASE last_read
  BY <1>1, <1>4 DEF last_read, ReadsOutput, ServerFrame, ShellStates, ServerStates
<1> QED BY <1>3, <1>4

(* What the server sends, or lab1a shows, is the next of the output.        *)
LEMMA ArrivesOutput ==
  ASSUME World, NEW p \in Packets, Arrives(<<p>>), NEW text \in Texts,
         NEW a \in Nat, NEW b \in Nat, NEW f \in Nat, a <= b, b <= f, f <= Len(text),
         p.data = Part(text, b, f), Singly => f = b + 1,
         shown = Part(text, 0, a), mode = "lab1a" => a = b,
         mode # "lab1a" /\ Reading => Stream(conn.queue["client"], text, a, b, Singly)
  PROVE  \E e \in Nat :
           /\ e <= f /\ shown' = Part(text, 0, e) /\ (mode = "lab1a" => e = f)
           /\ mode # "lab1a" /\ Reading => Stream(conn'.queue["client"], text, e, f, Singly)
           /\ Lost(conn', "server") => Lost(conn, "server")
           /\ conn'.rst["client"] = "no" => conn.rst["client"] = "no"
<1>1. CASE mode = "lab1a"
  <2>1. conn' = conn /\ shown' = Part(text, 0, a) \o Part(text, b, f)
    BY <1>1 DEF Arrives
  <2>2. a = b /\ 0 \in Nat /\ 0 <= b
    BY <1>1
  <2>3. Part(text, 0, b) \o Part(text, b, f) = Part(text, 0, f)
    BY <2>2, PartsJoined
  <2>4. f <= f /\ shown' = Part(text, 0, f)
    BY <2>1, <2>2, <2>3
  <2>5. /\ Lost(conn', "server") => Lost(conn, "server")
        /\ conn'.rst["client"] = "no" => conn.rst["client"] = "no"
    BY <2>1
  <2> QED BY <1>1, <2>4, <2>5
<1>2. CASE mode # "lab1a"
  <2>1. shown' = shown /\ conn' = Written(conn, "server", <<p>>)
    BY <1>2 DEF Arrives
  <2>2. PICK s \in BOOLEAN : s = Singly
    BY DEF Singly
  <2>3. <<p>> \in Queues /\ Stream(<<p>>, text, b, f, s)
    <3>1. s => f = b + 1
      BY <2>2
    <3> QED BY <3>1, OnePacket
  <2>4. conn \in Connections
    BY DEF World, Types
  <2>5. PICK d : d = Written(conn, "server", <<p>>)
    OBVIOUS
  <2>6. /\ Worse(conn, d)
        /\ ~conn.fin["client"] => d.queue["client"] = conn.queue["client"] \o <<p>>
        /\ Lost(d, "server") <=> Lost(conn, "server")
    <3>1. "server" \in Sides
      BY DEF Sides
    <3> QED BY <2>3, <2>4, <2>5, <3>1, StaysReadable
  <2>7. d.rst["client"] = "no" => conn.rst["client"] = "no"
    BY <2>6 DEF Worse, Sides
  <2>8. Reading => Stream(d.queue["client"], text, a, f, s)
    <3>1. SUFFICES ASSUME Reading PROVE Stream(d.queue["client"], text, a, f, s)
      OBVIOUS
    <3>2. d.queue["client"] = conn.queue["client"] \o <<p>>
      BY <2>6, <3>1 DEF World, Places
    <3>3. conn.queue["client"] \in Queues
      BY <2>4 DEF Connections, Sides
    <3>4. Stream(conn.queue["client"], text, a, b, s)
      BY <1>2, <2>2, <3>1
    <3>5. Stream(conn.queue["client"] \o <<p>>, text, a, f, s)
      BY <2>3, <3>3, <3>4, StreamsJoined
    <3> QED BY <3>2, <3>5
  <2> QED BY <1>2, <2>1, <2>2, <2>5, <2>6, <2>7, <2>8
<1> QED BY <1>1, <1>2

LEMMA SendsOutput ==
  ASSUME World, ServerFrame, mangled' = mangled, OutputKept, GoesOn, SendsOne \/ SendsAll
  PROVE  OutputKept'
<1>0. /\ shell'.printed = shell.printed /\ shell'.out = shell.out /\ srv'.exit = srv.exit
      /\ UNCHANGED <<mode, hungup, cli>>
  BY DEF GoesOn, ServerFrame
<1>1. SUFFICES ASSUME ~mangled, EOT \notin Range(shell.printed) PROVE OutputKept'
  BY <1>0 DEF OutputKept
<1>2. PICK l : l = Len(shell.printed)
  OBVIOUS
<1>3. PICK a \in Nat, b \in Nat, c \in Nat :
        /\ shell.printed \in Texts /\ l \in Nat
        /\ a <= b /\ b <= c /\ c <= l
        /\ shown = Part(shell.printed, 0, a)
        /\ shell.out = Part(shell.printed, c, l)
        /\ mode = "lab1a" => a = b
        /\ mode # "lab1a" /\ Reading =>
             Stream(conn.queue["client"], shell.printed, a, b, Singly)
        /\ Sending => ToSend = Part(shell.printed, b, c) /\ (ToSend = <<>> <=> b = c)
        /\ Satisfied => a = b /\ srv.exit # Running
  BY <1>1, <1>2, OutputIs
<1>4. srv.pc \in {"reply", "last"}
  BY DEF SendsOne, SendsAll
<1>5. srv.exit = Running /\ (srv.pc = "reply" => srv.todo # <<>>) /\ srv.todo \in Texts
  BY <1>4 DEF World, Places, Types, ServerStates
<1>6. ~Satisfied /\ srv'.exit = Running
  BY <1>0, <1>3, <1>5
<1>7. ToSend = srv.todo
  BY <1>4 DEF ToSend
<1>8. Sending
  BY <1>4 DEF Sending, SendsOne, SendsAll, Arrives
<1>9. srv.todo = Part(shell.printed, b, c) /\ (srv.todo = <<>> <=> b = c)
  BY <1>3, <1>7, <1>8
<1>10. \E p \in Packets, f \in Nat :
         /\ Arrives(<<p>>) /\ b <= f /\ f <= c /\ p.data = Part(shell.printed, b, f)
         /\ Singly => f = b + 1
         /\ srv'.pc \in {"loop", "reply", "last"} /\ ToSend' = Part(shell.printed, f, c)
  <2>1. CASE SendsOne
    <3>1. PICK x \in Pieces, t \in Texts :
            /\ srv.todo # <<>> /\ x = Head(srv.todo) /\ t = Tail(srv.todo)
            /\ Arrives(<<Raw(x)>>)
            /\ srv.pc = "reply" => srv'.todo = t /\ x # EOT
            /\ srv.pc = "last" /\ x # EOT => srv'.todo = t /\ srv'.pc = "last"
      BY <2>1 DEF SendsOne
    <3>2. b < c
      BY <1>3, <1>9, <3>1
    <3>3. /\ Head(Part(shell.printed, b, c)) = shell.printed[b + 1]
          /\ Tail(Part(shell.printed, b, c)) = Part(shell.printed, b + 1, c)
      BY <1>2, <1>3, <3>2, PartHead
    <3>4. x = shell.printed[b + 1] /\ t = Part(shell.printed, b + 1, c)
      BY <1>9, <3>1, <3>3
    <3>5. x # EOT
      <4>1. DOMAIN shell.printed = 1..l
        BY <1>2, <1>3, LenNat
      <4>2. b + 1 \in 1..l
        BY <1>3, <3>2
      <4> QED BY <1>1, <3>4, <4>1, <4>2 DEF Range
    <3>6. Raw(x).data = Part(shell.printed, b, b + 1) /\ Raw(x) \in Packets
      <4>1. Append(Part(shell.printed, b, b), shell.printed[b + 1]) = Part(shell.printed, b, b + 1)
        <5>1. b <= b /\ b < Len(shell.printed) /\ shell.printed \in Texts
          BY <1>2, <1>3, <3>2
        <5> QED BY <5>1, PartGrows
      <4>2. Part(shell.printed, b, b) = <<>>
        BY <1>2, <1>3, PartEmpty
      <4>3. Append(<<>>, x) = <<x>>
        OBVIOUS
      <4>4. Raw(x).data = <<x>> /\ Raw(x) \in Packets
        BY OneRaw
      <4> QED BY <3>4, <4>1, <4>2, <4>3, <4>4
    <3>7. srv'.todo = t /\ srv'.pc \in {"loop", "reply", "last"}
      BY <1>4, <3>1, <3>5 DEF GoesOn
    <3>8. ToSend' = t
      BY <1>4, <3>1, <3>5, <3>7 DEF GoesOn, ToSend
    <3>9. b + 1 \in Nat /\ b <= b + 1 /\ b + 1 <= c
      BY <1>3, <3>2
    <3> QED BY <3>1, <3>4, <3>6, <3>7, <3>8, <3>9
  <2>2. CASE SendsAll
    <3>1. /\ srv.pc = "reply" /\ mode = "compress" /\ Arrives(<<Batch(srv.todo)>>)
          /\ srv'.todo = <<>>
      BY <2>2 DEF SendsAll
    <3>2. Batch(srv.todo) \in Packets /\ Batch(srv.todo).data = srv.todo
      BY <1>5, <3>1, OneBatch
    <3>3. ~Singly
      BY <3>1 DEF Singly
    <3>4. srv'.pc \in {"loop", "reply", "last"} /\ ToSend' = <<>>
      BY <3>1 DEF GoesOn, ToSend
    <3>5. Part(shell.printed, c, c) = <<>>
      BY <1>2, <1>3, PartEmpty
    <3> QED BY <1>3, <1>9, <3>1, <3>2, <3>3, <3>4, <3>5
  <2> QED BY <2>1, <2>2
<1>11. PICK p \in Packets, f \in Nat :
         /\ Arrives(<<p>>) /\ b <= f /\ f <= c /\ p.data = Part(shell.printed, b, f)
         /\ Singly => f = b + 1
         /\ srv'.pc \in {"loop", "reply", "last"} /\ ToSend' = Part(shell.printed, f, c)
  BY <1>10
<1>12. PICK e \in Nat :
         /\ e <= f /\ shown' = Part(shell.printed, 0, e) /\ (mode = "lab1a" => e = f)
         /\ mode # "lab1a" /\ Reading => Stream(conn'.queue["client"], shell.printed, e, f, Singly)
         /\ Lost(conn', "server") => Lost(conn, "server")
         /\ conn'.rst["client"] = "no" => conn.rst["client"] = "no"
  <2>1. f <= Len(shell.printed)
    BY <1>2, <1>3, <1>11
  <2> QED BY <1>3, <1>11, <2>1, ArrivesOutput
<1>13. ~Satisfied'
  BY <1>0, <1>6, <1>12 DEF Satisfied
<1>14. Reading' = Reading /\ Singly' = Singly
  BY <1>0 DEF Reading, Singly
<1>15. Running # 0
  BY DEF Running
<1>16. OutputAt(e, f, c)'
  BY <1>0, <1>2, <1>3, <1>6, <1>11, <1>12, <1>13, <1>14, <1>15 DEF OutputAt
<1> QED BY <1>16 DEF OutputKept

LEMMA ReplyOutput ==
  ASSUME World, World', ServerFrame, OutputKept, Reply
  PROVE  OutputKept'
<1>1. mangled' = mangled
  BY DEF Reply
<1>2. CASE OutputStill
  BY <1>2, OutputFrame
<1>3. CASE /\ Sending /\ srv.todo # <<>> /\ Head(srv.todo) = EOT
           /\ shell'.printed = shell.printed
  <2>1. SUFFICES ASSUME ~mangled, EOT \notin Range(shell.printed) PROVE FALSE
    BY <1>1, <1>3 DEF OutputKept
  <2>2. PICK a \in Nat, b \in Nat, c \in Nat :
          /\ shell.printed \in Texts /\ Len(shell.printed) \in Nat
          /\ b <= c /\ c <= Len(shell.printed)
          /\ ToSend = Part(shell.printed, b, c) /\ (ToSend = <<>> <=> b = c)
    BY <1>3, <2>1, OutputIs
  <2>3. ToSend = srv.todo
    BY DEF Reply, ToSend
  <2>4. b < c
    BY <1>3, <2>2, <2>3
  <2>5. EOT = shell.printed[b + 1]
    <3>1. Head(Part(shell.printed, b, c)) = shell.printed[b + 1]
      BY <2>2, <2>4, PartHead
    <3> QED BY <1>3, <2>2, <2>3, <3>1
  <2>6. DOMAIN shell.printed = 1..Len(shell.printed) /\ b + 1 \in 1..Len(shell.printed)
    BY <2>2, <2>4, LenNat
  <2> QED BY <2>1, <2>5, <2>6 DEF Range
<1>4. CASE GoesOn /\ (SendsOne \/ SendsAll)
  BY <1>1, <1>4, SendsOutput
<1> QED BY <1>2, <1>3, <1>4, ReplyKeeps

LEMMA LastWriteOutput ==
  ASSUME World, World', ServerFrame, OutputKept, LastWrite
  PROVE  OutputKept'
<1>1. mangled' = mangled
  BY DEF LastWrite
<1>2. CASE OutputStill
  BY <1>2, OutputFrame
<1>3. CASE GoesOn /\ SendsOne
  BY <1>1, <1>3, SendsOutput
<1> QED BY <1>2, <1>3, LastWriteKeeps

LEMMA WaitAfterEotOutput ==
  ASSUME World, ServerFrame, OutputKept, WaitAfterEot
  PROVE  OutputKept'
<1>1. srv.pc = "wait" /\ shell'.printed = shell.printed /\ mangled' = mangled
  BY WaitAfterEotKeeps
<1>2. ASSUME ~mangled, EOT \notin Range(shell.printed) PROVE FALSE
  BY <1>1, <1>2, OutputIs
<1> QED BY <1>1, <1>2 DEF OutputKept

LEMMA ClientReadOutput ==
  ASSUME World, World', ClientFrame, OutputKept, ClientRead
  PROVE  OutputKept'
<1>0. UNCHANGED <<mode, shell, srv, hungup>> /\ (mangled => mangled')
  BY ClientReadKeeps DEF ClientFrame
<1>1. SUFFICES ASSUME ~mangled', ~mangled, EOT \notin Range(shell.printed) PROVE OutputKept'
  BY <1>0 DEF OutputKept
<1>2. PICK l : l = Len(shell.printed)
  OBVIOUS
<1>3. PICK a \in Nat, b \in Nat, c \in Nat :
        /\ shell.printed \in Texts /\ l \in Nat
        /\ a <= b /\ b <= c /\ c <= l
        /\ shown = Part(shell.printed, 0, a)
        /\ shell.out = Part(shell.printed, c, l)
        /\ mode # "lab1a" /\ Reading =>
             Stream(conn.queue["client"], shell.printed, a, b, Singly)
        /\ srv.pc # "wait"
        /\ Sending => ToSend = Part(shell.printed, b, c)
        /\ srv.exit = 0 => b = l
  BY <1>1, <1>2, OutputIs
<1>4. PICK n \in Nat : TakesPackets(n)
  BY ClientReadKeeps
<1>5. /\ mode # "lab1a" /\ Reading
      /\ n \in 1..Len(UpToBuffer(conn.queue["client"]))
      /\ conn'.queue["client"] = SubSeq(conn.queue["client"], n + 1, Len(conn.queue["client"]))
      /\ conn'.rst = conn.rst /\ cli'.exit = cli.exit /\ cli.exit = Running
      /\ mode = "plain" => shown' = shown \o PiecesOf(conn.queue["client"], n)
      /\ mode # "plain" => n = 1 /\ shown' = shown \o conn.queue["client"][1].data
  BY <1>1, <1>4 DEF TakesPackets
<1>6. PICK q \in Queues : q = conn.queue["client"]
  BY DEF World, Types, Connections, Sides
<1>7. PICK s \in BOOLEAN : s = Singly
  BY DEF Singly
<1>8. n <= Len(q) /\ Stream(q, shell.printed, a, b, s)
  BY <1>3, <1>5, <1>6, <1>7, ReadPackets
<1>9. PICK e \in Nat :
        /\ a <= e /\ e <= b
        /\ Stream(SubSeq(q, n + 1, Len(q)), shell.printed, e, b, s)
        /\ n = 1 => q[1].data = Part(shell.printed, a, e)
        /\ s => /\ e = a + n
                /\ \A i \in 1..n : q[i].data = Part(shell.printed, (a + i) - 1, a + i)
  <2>1. shell.printed \in Texts
    BY <1>3
  <2> QED BY <1>8, <2>1, StreamRead
<1>10. shown' = Part(shell.printed, 0, e)
  <2>1. Part(shell.printed, 0, a) \o Part(shell.printed, a, e) = Part(shell.printed, 0, e)
    <3>1. /\ 0 \in Nat /\ 0 <= a /\ a <= e /\ e <= Len(shell.printed)
          /\ shell.printed \in Texts
      BY <1>2, <1>3, <1>9
    <3> QED BY <3>1, PartsJoined
  <2>2. CASE mode = "plain"
    <3>1. s /\ e = a + n /\ \A i \in 1..n : q[i].data = Part(shell.printed, (a + i) - 1, a + i)
      BY <1>7, <1>9, <2>2 DEF Singly
    <3>2. a + n <= Len(shell.printed)
      BY <1>2, <1>3, <1>9, <3>1
    <3>3. PiecesOf(q, n) = Part(shell.printed, a, a + n)
      BY <1>3, <1>8, <3>1, <3>2, PiecesRead
    <3> QED BY <1>3, <1>5, <1>6, <2>1, <2>2, <3>1, <3>3
  <2>3. CASE mode # "plain"
    BY <1>3, <1>5, <1>6, <1>9, <2>1, <2>3
  <2> QED BY <2>2, <2>3
<1>11. Stream(conn'.queue["client"], shell.printed, e, b, Singly)
  BY <1>5, <1>6, <1>7, <1>9
<1>12. ~Satisfied'
  BY <1>5 DEF Satisfied, Running
<1>13. Singly' = Singly /\ (Sending' => Sending /\ ToSend' = ToSend)
  BY <1>0, <1>5 DEF Singly, Sending, ToSend, Lost
<1>14. OutputAt(e, b, c)'
  BY <1>0, <1>2, <1>3, <1>5, <1>9, <1>10, <1>11, <1>12, <1>13 DEF OutputAt
<1> QED BY <1>14 DEF OutputKept

LEMMA PrintsOutput ==
  ASSUME World, OutputKept, Prints
  PROVE  OutputKept'
<1>1. PICK x \in Pieces :
        /\ shell'.out = Append(shell.out, x) /\ shell'.printed = Append(shell.printed, x)
        /\ srv.exit # 0
        /\ UNCHANGED <<mode, srv, conn, hungup, shown, mangled, cli>>
  BY DEF Prints
<1>2. shell.printed \in Texts
  BY DEF World, Types, ShellStates
<1>3. /\ shell'.printed \in Texts /\ Len(shell'.printed) = Len(shell.printed) + 1
      /\ DOMAIN shell.printed = 1..Len(shell.printed) /\ Len(shell.printed) \in Nat
      /\ DOMAIN shell'.printed = 1..Len(shell'.printed)
      /\ \A i \in 1..Len(shell.printed) : shell'.printed[i] = shell.printed[i]
  BY <1>1, <1>2, Grown, LenNat
<1>4. EOT \notin Range(shell'.printed) => EOT \notin Range(shell.printed)
  BY <1>3 DEF Range
<1>5. SUFFICES ASSUME ~mangled, EOT \notin Range(shell.printed) PROVE OutputKept'
  BY <1>1, <1>4 DEF OutputKept
<1>6. PICK l : l = Len(shell.printed)
  OBVIOUS
<1>7. PICK a \in Nat, b \in Nat, c \in Nat :
        /\ l \in Nat
        /\ a <= b /\ b <= c /\ c <= l
        /\ shown = Part(shell.printed, 0, a)
        /\ shell.out = Part(shell.printed, c, l)
        /\ mode = "lab1a" => a = b
        /\ mode # "lab1a" /\ Reading =>
             Stream(conn.queue["client"], shell.printed, a, b, Singly)
        /\ srv.pc # "wait"
        /\ Sending => ToSend = Part(shell.printed, b, c)
        /\ Satisfied => a = b /\ srv.exit # Running
  BY <1>5, <1>6, OutputIs
<1>8. /\ Part(Append(shell.printed, x), 0, a) = Part(shell.printed, 0, a)
      /\ Part(Append(shell.printed, x), b, c) = Part(shell.printed, b, c)
      /\ Append(Part(shell.printed, c, l), x) = Part(Append(shell.printed, x), c, l + 1)
  <2>1. 0 \in Nat /\ 0 <= a /\ a <= Len(shell.printed) /\ c <= Len(shell.printed)
    BY <1>6, <1>7
  <2>2. Part(Append(shell.printed, x), 0, a) = Part(shell.printed, 0, a)
    BY <1>2, <2>1, PartOfGrown
  <2>3. Part(Append(shell.printed, x), b, c) = Part(shell.printed, b, c)
    BY <1>2, <1>7, <2>1, PartOfGrown
  <2>4. Append(Part(shell.printed, c, Len(shell.printed)), x)
          = Part(Append(shell.printed, x), c, Len(shell.printed) + 1)
    BY <1>2, <2>1, LastPart
  <2> QED BY <1>6, <2>2, <2>3, <2>4
<1>9. mode # "lab1a" /\ Reading =>
        Stream(conn.queue["client"], Append(shell.printed, x), a, b, Singly)
  <2>1. PICK s \in BOOLEAN : s = Singly
    BY DEF Singly
  <2>2. PICK q \in Queues : q = conn.queue["client"]
    BY DEF World, Types, Connections, Sides
  <2> QED BY <1>2, <1>7, <2>1, <2>2, StreamOfGrown
<1>10. /\ Reading' = Reading /\ Singly' = Singly /\ Sending' = Sending /\ ToSend' = ToSend
       /\ Satisfied' = Satisfied
  BY <1>1 DEF Reading, Singly, Sending, ToSend, Satisfied, Lost
<1>11. c <= l + 1 /\ Len(shell'.printed) = l + 1
  BY <1>3, <1>6, <1>7
<1>12. OutputAt(a, b, c)'
  BY <1>1, <1>7, <1>8, <1>9, <1>10, <1>11 DEF OutputAt
<1> QED BY <1>12 DEF OutputKept

-----------------------------------------------------------------------------
(* The streams, in every state of every session.                           *)

StreamsInv == World /\ InputKept /\ OutputKept

LEMMA StreamsInit == Init => StreamsInv
<1>1. SUFFICES ASSUME Init PROVE StreamsInv
  OBVIOUS
<1>2. World
  BY <1>1, InitWorld
<1>3. /\ shell.got = <<>> /\ shell.in = <<>> /\ shell.out = <<>> /\ shell.printed = <<>>
      /\ tty = <<>> /\ shown = <<>> /\ typed = 0
      /\ srv.pc = "loop" /\ srv.exit = Running
      /\ conn.queue["server"] = <<>> /\ conn.queue["client"] = <<>>
      /\ cli.batch = <<>> /\ cli.exit = Running /\ srv.todo = <<>>
  BY <1>1 DEF Init, ShellInit, ServerInit, Connected, Sides
<1>4. script \in Texts /\ Len(script) \in Nat /\ 0 \in Nat /\ 0 <= 0 /\ 0 <= Len(script)
  BY <1>2, PassedIs
<1>5. <<>> \o <<>> = <<>> /\ <<>> \in Texts /\ Len(<<>>) = 0
  BY NoText, NoMore
<1>6. Part(script, 0, 0) = <<>> /\ Part(<<>>, 0, 0) = <<>>
  BY <1>4, <1>5, PartEmpty
<1>7. PICK s \in BOOLEAN : s = Singly
  BY DEF Singly
<1>8. Stream(<<>>, <<>>, 0, 0, s)
  BY <1>5, NothingQueued
<1>9. Running # 0
  BY DEF Running
<1>10. PICK w \in Texts : InputAt(w, 0, 0, 0, 0)
  <2>1. PICK w \in Texts : w = IF mode = "lab1a" THEN script ELSE <<>>
    BY <1>4, <1>5
  <2>2. Len(w) \in Nat /\ 0 <= Len(w) /\ (mode # "lab1a" => Len(w) = 0 /\ w = <<>>)
    BY <1>5, <2>1, LenNat
  <2>3. Wire(w, 0)
    <3>1. mode # "lab1a" => Without(w, NUL)[Len(w)] = <<>>
      BY <2>2, WithoutIs
    <3> QED BY <1>6, <2>1, <3>1 DEF Wire, Carries
  <2>4. Clean(w, 0)
    BY DEF Clean
  <2>5. Part(w, 0, 0) = <<>>
    BY <1>4, <2>2, PartEmpty
  <2>6. Passed = <<>> /\ Through(w, 0) = <<>> /\ IsPrefix(<<>>, <<>>) /\ InHand = <<>>
    <3>1. "loop" \notin {"forward", "interrupted"}
      OBVIOUS
    <3>2. InHand = <<>>
      BY <1>3, <3>1 DEF InHand
    <3> QED BY <1>3, <1>5, <3>2, ThroughIs, PrefixOfItself DEF Passed
  <2>7. mode # "lab1a" => Stream(conn.queue["server"], w, 0, Len(w), Singly)
    BY <1>3, <1>7, <1>8, <2>2
  <2>8. InputAt(w, 0, 0, 0, 0)
    BY <1>3, <1>4, <1>6, <2>2, <2>3, <2>4, <2>5, <2>6, <2>7 DEF InputAt
  <2> QED BY <2>8
<1>11. OutputAt(0, 0, 0)
  <2>1. ToSend = <<>> /\ srv.pc # "wait" /\ ~Satisfied
    BY <1>3, <1>9 DEF ToSend, Satisfied
  <2> QED BY <1>3, <1>4, <1>5, <1>6, <1>7, <1>8, <1>9, <2>1 DEF OutputAt
<1> QED BY <1>2, <1>4, <1>10, <1>11 DEF StreamsInv, InputKept, OutputKept

LEMMA ServerKeepsStreams ==
  ASSUME StreamsInv, Server
  PROVE  StreamsInv'
<1>0. World /\ InputKept /\ OutputKept /\ ServerFrame
  BY DEF StreamsInv, Server, ServerStep, ServerFrame
<1>1. CASE Poll
  BY <1>0, <1>1, PollKeeps, InputFrame, OutputFrame DEF StreamsInv
<1>2. CASE read_stdin
  BY <1>0, <1>2, read_stdinKeeps, read_stdinInput, OutputFrame DEF StreamsInv
<1>3. CASE read_socket
  BY <1>0, <1>3, read_socketKeeps, read_socketInput, OutputFrame DEF StreamsInv
<1>4. CASE ReadNothing
  BY <1>0, <1>4, ReadNothingKeeps, InputFrame, OutputFrame DEF StreamsInv
<1>5. CASE Interrupt
  BY <1>0, <1>5, InterruptKeeps, InterruptInput, InputFrame, OutputFrame DEF StreamsInv
<1>6. CASE Quit \/ sigpipe_handler \/ FrontHangUp \/ ShellHangUp
  BY <1>0, <1>6, EndsKeep, InputFrame, OutputFrame DEF StreamsInv
<1>7. CASE Forward
  BY <1>0, <1>7, ForwardKeeps, ForwardInput, OutputFrame DEF StreamsInv
<1>8. CASE read_bash
  BY <1>0, <1>8, read_bashKeeps, InputFrame, ReadsOfOutput, ReadsOutputOutput DEF StreamsInv
<1>9. CASE last_read
  BY <1>0, <1>9, last_readKeeps, InputFrame, ReadsOfOutput, ReadsOutputOutput DEF StreamsInv
<1>10. CASE Reply
  BY <1>0, <1>10, ReplyKeeps, InputFrame, ReplyOutput DEF StreamsInv
<1>11. CASE LastWrite
  BY <1>0, <1>11, LastWriteKeeps, InputFrame, LastWriteOutput DEF StreamsInv
<1>12. CASE WaitAfterEot
  BY <1>0, <1>12, WaitAfterEotKeeps, InputFrame, WaitAfterEotOutput DEF StreamsInv
<1>13. CASE Finish
  BY <1>0, <1>13, FinishKeeps, InputFrame, FinishedOutput DEF StreamsInv
<1>14. CASE LastClose
  BY <1>0, <1>14, LastCloseKeeps, InputFrame, OutputFrame DEF StreamsInv
<1> QED BY <1>1, <1>2, <1>3, <1>4, <1>5, <1>6, <1>7, <1>8, <1>9, <1>10, <1>11, <1>12, <1>13, <1>14
        DEF Server, ServerStep

LEMMA ClientKeepsStreams ==
  ASSUME StreamsInv, ClientStep
  PROVE  StreamsInv'
<1>0. World /\ InputKept /\ OutputKept /\ ClientFrame
  BY DEF StreamsInv, ClientStep, ClientFrame
<1>1. CASE ClientPoll
  BY <1>0, <1>1, ClientPollKeeps, InputFrame, OutputFrame DEF StreamsInv
<1>2. CASE ClientRead
  BY <1>0, <1>2, ClientReadKeeps, InputFrame, ClientReadOutput DEF StreamsInv
<1>3. CASE ClientReadEnd
  BY <1>0, <1>3, ClientReadEndKeeps, InputFrame, ReadsTheEndOutput DEF StreamsInv
<1>4. CASE read_batch_stdin
  BY <1>0, <1>4, read_batch_stdinKeeps, InputFrame, ReadsKeysInput, OutputFrame DEF StreamsInv
<1>5. CASE ClientHangUp
  BY <1>0, <1>5, ClientHangUpKeeps, InputFrame, OutputFrame DEF StreamsInv
<1> QED BY <1>1, <1>2, <1>3, <1>4, <1>5 DEF ClientStep

LEMMA ShellKeepsStreams ==
  ASSUME StreamsInv, Shell
  PROVE  StreamsInv'
<1>0. World /\ InputKept /\ OutputKept /\ UNCHANGED rest
  BY DEF StreamsInv, Shell
<1>1. CASE ShellReads
  BY <1>0, <1>1, ShellReadsKeeps, InputFrame, OutputFrame DEF StreamsInv
<1>2. CASE ShellPrints
  BY <1>0, <1>2, ShellPrintsKeeps, InputFrame, PrintsOutput DEF StreamsInv
<1>3. CASE ShellEnds
  BY <1>0, <1>3, ShellEndsKeeps, InputFrame, OutputFrame DEF StreamsInv
<1> QED BY <1>1, <1>2, <1>3 DEF Shell, ShellStep

LEMMA UserKeepsStreams ==
  ASSUME StreamsInv, Type \/ CloseInput \/ Reset
  PROVE  StreamsInv'
<1>0. World /\ InputKept /\ OutputKept
  BY DEF StreamsInv
<1>1. CASE Type
  BY <1>0, <1>1, TypeKeeps, TypeInput, OutputFrame DEF StreamsInv
<1>2. CASE CloseInput
  BY <1>0, <1>2, CloseInputKeeps, InputFrame, OutputFrame DEF StreamsInv
<1>3. CASE Reset
  BY <1>0, <1>3, ResetKeeps, InputFrame, OutputFrame DEF StreamsInv
<1> QED BY <1>1, <1>2, <1>3

LEMMA StreamsStep == StreamsInv /\ [Next]_vars => StreamsInv'
<1>1. SUFFICES ASSUME StreamsInv, [Next]_vars PROVE StreamsInv'
  OBVIOUS
<1>2. CASE Next
  BY <1>1, <1>2, ServerKeepsStreams, ClientKeepsStreams, ShellKeepsStreams, UserKeepsStreams
     DEF Next
<1>3. CASE UNCHANGED vars
  <2>1. World /\ InputKept /\ OutputKept
    BY <1>1 DEF StreamsInv
  <2>2. UNCHANGED vars
    BY <1>3
  <2>3. World'
    BY <2>1, <2>2
       DEF vars, World, Types, Places, Going, Reading, Readable, Lost
  <2>4. InputStill
    BY <2>2
       DEF vars, InputStill, Passed, Open, Going, InHand, Reading
  <2>5. OutputStill
    BY <2>2
       DEF vars, OutputStill, Reading, Sending, Lost, ToSend, Satisfied
  <2> QED BY <2>1, <2>3, <2>4, <2>5, InputFrame, OutputFrame DEF StreamsInv
<1> QED BY <1>1, <1>2, <1>3

(* What the places of the two streams say of what is read and shown.        *)
LEMMA StreamsShow == StreamsInv => StreamsKept
<1>1. SUFFICES ASSUME World, InputKept, OutputKept, ~mangled, EOT \notin Range(shell.printed)
               PROVE  /\ \E n \in 0..Len(script) : BeforeQuit(n) /\ IsPrefix(Received, Forwarded(n))
                      /\ IsPrefix(shown, shell.printed)
                      /\ srv.exit = 0 /\ (mode = "lab1a" \/ (cli.exit = 0 /\ ~hungup))
                           /\ conn.rst["client"] = "no"
                         => shown = shell.printed
  BY DEF StreamsInv, StreamsKept
<1>2. PICK w \in Texts, k \in Nat, m \in Nat, c \in Nat, d \in Nat : InputAt(w, k, m, c, d)
  BY <1>1 DEF InputKept
<1>3. /\ Wire(w, c) /\ k <= m /\ m <= Len(w) /\ c <= d /\ d <= typed
      /\ mode = "lab1a" => m <= typed
      /\ Clean(w, k) /\ IsPrefix(Passed, Through(w, k))
  BY <1>2 DEF InputAt
<1>4. /\ Passed \in Texts /\ shell.got \in Texts /\ shell.in \in Texts
      /\ script \in Texts /\ typed \in Nat /\ typed <= Len(script) /\ Len(script) \in Nat
      /\ mode \in {"lab1a", "plain", "compress"}
  BY <1>1, PassedIs DEF World, Types
<1>5. IsPrefix(shell.got, Through(w, k)) /\ Through(w, k) \in Texts
  <2>1. IsPrefix(shell.got, Passed)
    BY <1>4, PrefixOfJoined DEF Passed
  <2>2. k \in 0..Len(w)
    BY <1>3, LenNat
  <2>3. Through(w, k) \in Texts
    BY <2>2, ThroughIs
  <2> QED BY <1>3, <1>4, <2>1, <2>3, PrefixOfPrefix
<1>6. \E n \in 0..Len(script) : BeforeQuit(n) /\ IsPrefix(Received, Forwarded(n))
  <2>1. CASE mode = "lab1a"
    <3>1. w = script /\ k \in 0..Len(script)
      BY <1>3, <1>4, <2>1 DEF Wire
    <3> QED BY <1>3, <1>5, <2>1, <3>1 DEF Clean, BeforeQuit, Received, Forwarded, Through
  <2>2. CASE mode = "compress"
    <3>1. w = Part(script, 0, c)
      BY <1>3, <2>2 DEF Wire
    <3>2. c <= Len(script)
      BY <1>3, <1>4
    <3>3. Len(w) = c /\ \A i \in 1..c : w[i] = script[i]
      BY <1>4, <3>1, <3>2, FirstPart
    <3>4. k \in 0..Len(script) /\ k <= c
      BY <1>3, <3>2, <3>3
    <3>5. BeforeQuit(k)
      BY <1>3, <3>3, <3>4 DEF Clean, BeforeQuit
    <3>6. Part(w, 0, k) = Part(script, 0, k)
      <4>1. Len(w) <= Len(script) /\ \A i \in 1..Len(w) : script[i] = w[i]
        BY <3>2, <3>3
      <4>2. 0 \in Nat /\ 0 <= k /\ k <= Len(w)
        BY <1>3, <3>3
      <4> QED BY <1>4, <4>1, <4>2, PartOfLonger
    <3>7. IsPrefix(shell.got, Forwarded(k))
      <4>1. Forwarded(k) = SubSeq(script, 1, k) /\ Through(w, k) = Part(w, 0, k)
        BY <2>2 DEF Forwarded, Through, Take
      <4>2. Part(script, 0, k) = SubSeq(script, 1, k)
        <5>1. 0 + 1 = 1
          OBVIOUS
        <5> QED BY <5>1 DEF Part
      <4> QED BY <1>5, <3>6, <4>1, <4>2
    <3> QED BY <2>2, <3>4, <3>5, <3>7 DEF Received
  <2>3. CASE mode = "plain"
    <3>1. PICK g \in Nat : g = Len(shell.got)
      BY <1>4, LenNat
    <3>2. g <= k /\ k <= Len(w) /\ g <= Len(w) /\ \A i \in 1..g : shell.got[i] = w[i]
      <4>1. k <= Len(w) /\ Len(w) \in Nat
        BY <1>3, LenNat
      <4>2. PICK t \in Texts : /\ t = Part(w, 0, k) /\ Len(t) = k /\ \A i \in 1..k : t[i] = w[i]
        BY <4>1, FirstPart
      <4>3. IsPrefix(shell.got, t)
        BY <1>5, <2>3, <4>2 DEF Through
      <4>4. g <= Len(t) /\ \A i \in 1..g : shell.got[i] = t[i]
        BY <1>4, <3>1, <4>3, PrefixIs
      <4> QED BY <4>1, <4>2, <4>4
    <3>3. PICK t \in Texts : t = Without(w, NUL)[g] /\ t = Received
      <4>1. g \in 0..Len(w) /\ g \in 0..g /\ g <= Len(shell.got)
        BY <3>1, <3>2
      <4>2. Without(shell.got, NUL)[g] = Without(w, NUL)[g]
        <5>1. Agree(shell.got, w, g)
          BY <3>2 DEF Agree
        <5>2. \A i \in 0..g : Without(shell.got, NUL)[i] = Without(w, NUL)[i]
          BY <1>4, <3>2, <4>1, <5>1, WithoutAgrees
        <5> QED BY <4>1, <5>2
      <4>3. Without(w, NUL)[g] \in Texts
        BY <4>1, WithoutIs
      <4> QED BY <2>3, <3>1, <4>2, <4>3 DEF Received
    <3>4. PICK u \in Texts : /\ u = Part(script, 0, c) /\ Len(u) = c
                             /\ \A i \in 1..c : u[i] = script[i]
      <4>1. c <= Len(script)
        BY <1>3, <1>4
      <4> QED BY <1>4, <4>1, FirstPart
    <3>5. IsPrefix(t, u)
      <4>1. PICK l \in Nat : l = Len(w) /\ g <= l
        BY <3>2, LenNat
      <4>2. IsPrefix(Without(w, NUL)[g], Without(w, NUL)[l])
        BY <4>1, WithoutGrows
      <4>3. Without(w, NUL)[l] = u
        BY <1>3, <2>3, <3>4, <4>1 DEF Wire, Carries
      <4> QED BY <3>3, <4>2, <4>3
    <3>6. PICK n \in Nat : n = Len(t) /\ n <= c /\ \A i \in 1..n : t[i] = script[i]
      <4>1. Len(t) <= Len(u) /\ \A i \in 1..Len(t) : t[i] = u[i]
        BY <3>5, PrefixIs
      <4> QED BY <3>4, <4>1, LenNat
    <3>7. Clean(t, n)
      <4>1. Clean(w, g)
        BY <1>3, <3>2 DEF Clean
      <4> QED BY <3>2, <3>3, <3>6, <4>1, WithoutIsClean
    <3>8. n \in 0..Len(script) /\ BeforeQuit(n)
      BY <1>3, <1>4, <3>6, <3>7 DEF Clean, BeforeQuit
    <3>9. t = Forwarded(n)
      <4>1. /\ Part(script, 0, n) \in Texts /\ Len(Part(script, 0, n)) = n
            /\ \A i \in 1..n : Part(script, 0, n)[i] = script[i]
        BY <1>4, <3>8, FirstPart
      <4>2. t = Part(script, 0, n)
        BY <3>6, <4>1, SameText
      <4> QED BY <2>3, <4>2 DEF Forwarded, Take, Part
    <3>10. IsPrefix(Received, Forwarded(n))
      BY <3>3, <3>9, PrefixOfItself
    <3> QED BY <3>8, <3>10
  <2> QED BY <1>4, <2>1, <2>2, <2>3
<1>7. PICK a \in Nat, b \in Nat, e \in Nat :
        /\ shell.printed \in Texts /\ Len(shell.printed) \in Nat
        /\ a <= b /\ b <= e /\ e <= Len(shell.printed)
        /\ shown = Part(shell.printed, 0, a)
        /\ mode = "lab1a" => a = b
        /\ srv.exit = 0 => b = Len(shell.printed)
        /\ Satisfied => a = b
  BY <1>1, OutputIs
<1>8. IsPrefix(shown, shell.printed)
  <2>1. shell.printed \in Texts /\ a <= Len(shell.printed)
    BY <1>7
  <2> QED BY <1>7, <2>1, PartIsPrefix
<1>9. ASSUME srv.exit = 0, mode = "lab1a" \/ (cli.exit = 0 /\ ~hungup), conn.rst["client"] = "no"
      PROVE  shown = shell.printed
  <2>1. a = Len(shell.printed)
    BY <1>7, <1>9 DEF Satisfied
  <2> QED BY <1>7, <2>1, WholePart
<1> QED BY <1>6, <1>8, <1>9

(* Neither stream of a session of lab1b or lab1a is lost, repeated or put   *)
(* out of order, nothing is added to either but the NUL behind each plain   *)
(* batch, which the shell reads, too, and the user is shown all the shell   *)
(* has printed when both programs end well (StreamsKept).                   *)
THEOREM StreamsAreKept == Spec => []StreamsKept
<1> QED BY StreamsInit, StreamsStep, StreamsShow, PTL DEF Spec
=============================================================================
