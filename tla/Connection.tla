----------------------------- MODULE Connection -----------------------------
(***************************************************************************)
(* The TCP connection between lab1b-client.c and lab1b-server.c, and the    *)
(* zlib streams they send over it, as far as the two programs can tell.     *)
(* External: modelled from the calls the programs make.                    *)
(*                                                                         *)
(* A connection is a record: queue[s] is what side s has yet to read,       *)
(* fin[s] says that s has closed its end, and rst[s] what has become of     *)
(* data s sent to a closed end:                                            *)
(*   "no"      nothing was refused                                         *)
(*   "owed"    data were sent, the answer is on its way                    *)
(*   "error"   the peer went away without reading: the next read or write   *)
(*             fails                                                       *)
(*   "broken"  refused: reads give the end of the file, writes SIGPIPE.    *)
(* What is sent is a sequence of pieces: one raw character, or one batch    *)
(* that zip() has made.                                                    *)
(***************************************************************************)
EXTENDS Naturals, Sequences, FiniteSetsExt, SequencesExt

CONSTANT BUFSIZE        \* how much one read takes, in pieces
ASSUME BufferAssumption == BUFSIZE \in Nat \ {0}

Sides == {"client", "server"}
Peer(s) == IF s = "client" THEN "server" ELSE "client"

Connected == [queue |-> [s \in Sides |-> <<>>],
              fin |-> [s \in Sides |-> FALSE],
              rst |-> [s \in Sides |-> "no"]]

Raw(c) == [zip |-> FALSE, data |-> <<c>>]
Batch(data) == [zip |-> TRUE, data |-> data]

(* What poll() reports: POLLHUP or POLLERR, and POLLIN.                     *)
Lost(c, s) == c.rst[s] \in {"error", "broken"}
Readable(c, s) == c.queue[s] # <<>> \/ c.fin[Peer(s)] \/ Lost(c, s)

Written(c, s, pieces) ==
  IF c.fin[Peer(s)]
    THEN [c EXCEPT !.rst[s] = IF @ = "no" THEN "owed" ELSE @]
    ELSE [c EXCEPT !.queue[Peer(s)] = @ \o pieces]

Delivered(c, s, n) == [c EXCEPT !.queue[s] = SubSeq(@, n + 1, Len(@))]
ErrorDelivered(c, s) == [c EXCEPT !.rst[s] = "broken"]

(* s closes its end, at once or, politely, after a shutdown().  Data it has *)
(* not read make its host refuse all that the peer sent.                    *)
Closed(c, s, politely) ==
  LET peer == Peer(s)
      refused == IF politely THEN "owed" ELSE "error"
  IN  [c EXCEPT !.fin[s] = TRUE,
                !.queue[s] = <<>>,
                !.rst[peer] = IF c.queue[s] # <<>> /\ @ = "no" THEN refused ELSE @]

ResetArrived(c, s) == [c EXCEPT !.rst[s] = "broken"]

(* unzip() starts a new stream for each read.  One batch gives its data.    *)
(* What follows it, or anything else, is taken for compressed data: either  *)
(* inflate() uses it up, or it makes no progress and the loop around it     *)
(* does not end.                                                           *)
IsBatch(chunk) == Len(chunk) = 1 /\ chunk[1].zip
Inflated(chunk) == IF chunk[1].zip THEN chunk[1].data ELSE <<>>
StuckAfter(chunk) == IF IsBatch(chunk) THEN {FALSE} ELSE BOOLEAN

Take(n, s) == SubSeq(s, 1, n)
UpToBuffer(s) == Take(Min({BUFSIZE, Len(s)}), s)
=============================================================================
