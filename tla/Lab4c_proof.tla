----------------------------- MODULE Lab4c_proof -----------------------------
(***************************************************************************)
(* Proofs about Lab4c: lab4c_tls logs what it wrote, and nothing else,      *)
(* lab4c_tcp at most one line more; and a client that ends with status 0    *)
(* has obeyed an OFF and sent SHUTDOWN.                                     *)
(*                                                                          *)
(* Both follow from what the globals satisfy at any time (Good), which every *)
(* function of the program keeps, whatever the connection does.             *)
(***************************************************************************)
EXTENDS Lab4c, NaturalsInduction, WellFoundedInduction, TLAPS

(* What Lab4b_proof says of texts and of read_command()'s buffer, whoever   *)
(* sends the text.  The options of lab4b are of no concern to that.         *)
B == INSTANCE Lab4b_proof WITH
       MaxPeriod <- 2, PeriodArgs <- {}, ScaleArgs <- {}, LogArgs <- {}, Leftovers <- {},
       Scripts <- {},
       typed <- sent, eof <- FALSE, button <- 0

LEMMA ReaderFits ==
  /\ B!SizesAssumption /\ B!PeriodsAssumption /\ B!OptionsAssumption
  /\ B!TextsAssumption /\ B!NoNULAssumption
BY SizesAssumption
   DEF B!SizesAssumption, B!PeriodsAssumption, B!OptionsAssumption, B!TextsAssumption,
       B!NoNULAssumption

Pieces == B!Pieces
Texts == Seq(Pieces)
Entries == [kind : {"command", "report", "shutdown", "id"}, text : Texts]

LEMMA EntriesAre ==
  /\ \A line \in Texts : Command(line) \in Entries
  /\ \A c \in {"C", "F"} : Report(c) \in Entries
  /\ Shutdown \in Entries /\ Identity \in Entries
BY DEF Entries, Texts, Pieces, B!Pieces, Command, Report, Shutdown, Identity

(* One more entry in a file.                                                *)
LEMMA Appended ==
  ASSUME NEW file \in Seq(Entries), NEW e \in Entries
  PROVE  /\ WithEntry(file, e) \in Seq(Entries)
         /\ WithEntry(file, e) # <<>>
         /\ Last(WithEntry(file, e)) = e
         /\ file # <<>> => WithEntry(file, e)[1] = file[1]
         /\ \/ WithEntry(file, e) = file /\ e.kind = "report" /\ file # <<>> /\ Last(file) = e
            \/ WithEntry(file, e) = Append(file, e)
         /\ e.kind # "report" => WithEntry(file, e) = Append(file, e)
<1>1. \/ WithEntry(file, e) = file /\ e.kind = "report" /\ file # <<>> /\ Last(file) = e
      \/ WithEntry(file, e) = Append(file, e)
  BY DEF WithEntry
<1>2. LET g == Append(file, e)
      IN  /\ g \in Seq(Entries) /\ Len(g) = Len(file) + 1 /\ g[Len(g)] = e /\ g # <<>>
          /\ file # <<>> => g[1] = file[1]
  <2>1. PICK g : g = Append(file, e)
    OBVIOUS
  <2>2. g \in Seq(Entries) /\ Len(g) = Len(file) + 1 /\ g[Len(g)] = e
        /\ \A i \in 1..Len(file) : g[i] = file[i]
    BY <2>1
  <2>3. g # <<>>
    BY <2>2
  <2>4. file # <<>> => 1 \in 1..Len(file)
    OBVIOUS
  <2> QED BY <2>1, <2>2, <2>3, <2>4
<1>3. e.kind # "report" => WithEntry(file, e) = Append(file, e)
  BY DEF WithEntry
<1> QED BY <1>1, <1>2, <1>3 DEF Last

-----------------------------------------------------------------------------
(* What is left without the last entry.                                     *)
LEMMA FrontOfEntry ==
  ASSUME NEW file \in Seq(Entries), NEW e \in Entries
  PROVE  file \in {WithEntry(file, e), Front(WithEntry(file, e))}
<1>1. CASE WithEntry(file, e) = file
  BY <1>1
<1>2. CASE WithEntry(file, e) = Append(file, e)
  <2>1. PICK g : g = Append(file, e)
    OBVIOUS
  <2>2. g \in Seq(Entries) /\ Len(g) = Len(file) + 1 /\ \A i \in 1..Len(file) : g[i] = file[i]
    BY <2>1
  <2>3. Front(g) = SubSeq(g, 1, Len(file))
    <3>1. Len(g) - 1 = Len(file)
      BY <2>2
    <3> QED BY <3>1 DEF Front
  <2>4. SubSeq(g, 1, Len(file)) = file
    BY <2>2
  <2> QED BY <1>2, <2>1, <2>3, <2>4
<1> QED BY <1>1, <1>2 DEF WithEntry

(* What Said() says of a log that grows.                                    *)

(* Files that begin with the ID.                                            *)
Sessions == {file \in Seq(Entries) : file # <<>> /\ file[1] = Identity}

(* h[i] is what was said when the first i entries were logged.              *)
Saying(h, log, n) ==
  /\ h[0] = <<Identity>>
  /\ \A i \in 1..n : h[i] = IF IsCommand(log[i]) THEN h[i - 1]
                            ELSE WithEntry(h[i - 1], log[i])

LEMMA SayingExists ==
  ASSUME NEW log \in Seq(Entries)
  PROVE  \E h \in [0..Len(log) -> Sessions] : Saying(h, log, Len(log))
<1> DEFINE n == Len(log)
           turn == [a \in Sessions \X (1..n) |->
                      IF IsCommand(log[a[2]]) THEN a[1] ELSE WithEntry(a[1], log[a[2]])]
<1>1. n \in Nat /\ \A i \in 1..n : log[i] \in Entries
  OBVIOUS
<1>2. <<Identity>> \in Sessions
  BY EntriesAre DEF Sessions
<1>3. ASSUME NEW f \in Sessions, NEW e \in Entries
      PROVE  WithEntry(f, e) \in Sessions
  BY Appended DEF Sessions
<1>4. turn \in [Sessions \X (1..n) -> Sessions]
  <2>1. ASSUME NEW a \in Sessions \X (1..n)
        PROVE  (IF IsCommand(log[a[2]]) THEN a[1] ELSE WithEntry(a[1], log[a[2]])) \in Sessions
    <3>1. a[1] \in Sessions /\ log[a[2]] \in Entries
      BY <1>1
    <3> QED BY <1>3, <3>1
  <2> QED BY <2>1
<1>5. \A f \in Sessions, i \in 1..n :
         turn[<<f, i>>] = IF IsCommand(log[i]) THEN f ELSE WithEntry(f, log[i])
  OBVIOUS
<1> HIDE DEF turn, n
<1>6. PICK h \in [0..n -> Sessions] : B!Turns(h, <<Identity>>, turn, n)
  <2>1. PICK first \in Sessions : first = <<Identity>>
    BY <1>2
  <2>2. \E h \in [0..n -> Sessions] : B!Turns(h, first, turn, n)
    BY <1>1, <1>4, ReaderFits, B!TurnsExist
  <2> QED BY <2>1, <2>2
<1>7. ASSUME NEW i \in 1..n
      PROVE  h[i] = IF IsCommand(log[i]) THEN h[i - 1] ELSE WithEntry(h[i - 1], log[i])
  <2>1. i - 1 \in 0..n
    BY <1>1
  <2>2. h[i] = turn[<<h[i - 1], i>>]
    BY <1>6 DEF B!Turns
  <2> QED BY <1>5, <1>6, <2>1, <2>2
<1>8. h[0] = <<Identity>>
  BY <1>6 DEF B!Turns
<1> QED BY <1>6, <1>7, <1>8 DEF Saying, n

(* Two such histories of logs that begin alike agree as far as they do.     *)
LEMMA SayingAgrees ==
  ASSUME NEW n \in Nat, NEW f, NEW g, NEW l, NEW m, Saying(f, l, n), Saying(g, m, n),
         \A i \in 1..n : l[i] = m[i]
  PROVE  \A i \in 0..n : f[i] = g[i]
<1> DEFINE X == {i \in 0..n : f[i] # g[i]}
<1>1. SUFFICES ASSUME X # {} PROVE FALSE
  OBVIOUS
<1>2. PICK k \in X : \A j \in X : ~(<<j, k>> \in OpToRel(<, Nat))
  <2>1. X \subseteq Nat
    OBVIOUS
  <2> HIDE DEF X
  <2> QED BY <1>1, <2>1, NatLessThanWellFounded, WFMin
<1>3. k \in 0..n /\ f[k] # g[k]
  OBVIOUS
<1>4. k # 0
  BY <1>3 DEF Saying
<1>5. k \in 1..n /\ k - 1 \in 0..n /\ k - 1 < k /\ k - 1 \in Nat /\ k \in Nat
  BY <1>3, <1>4
<1>6. k - 1 \notin X
  <2>1. <<k - 1, k>> \in OpToRel(<, Nat)
    BY <1>5 DEF OpToRel
  <2> HIDE DEF X
  <2> QED BY <1>2, <2>1
<1>7. f[k - 1] = g[k - 1]
  BY <1>5, <1>6
<1> QED BY <1>3, <1>5, <1>7 DEF Saying

(* It is the function in the definition of Said().                          *)
LEMMA SaidIs ==
  ASSUME NEW log \in Seq(Entries)
  PROVE  \E h \in [0..Len(log) -> Sessions] :
            Saying(h, log, Len(log)) /\ Said(log) = h[Len(log)]
<1> DEFINE n == Len(log)
           F(f) == [i \in 0..n |->
                      IF i = 0 THEN <<Identity>>
                      ELSE IF IsCommand(log[i]) THEN f[i - 1] ELSE WithEntry(f[i - 1], log[i])]
           after == CHOOSE f : f = F(f)
<1>1. Said(log) = after[n]
  BY DEF Said
<1>n. n \in Nat
  OBVIOUS
<1>2. PICK h \in [0..n -> Sessions] : Saying(h, log, n)
  BY SayingExists
<1> HIDE DEF n
<1>3. h = F(h)
  <2>1. h = [i \in 0..n |-> h[i]]
    BY <1>2
  <2>2. ASSUME NEW i \in 0..n
        PROVE  h[i] = IF i = 0 THEN <<Identity>>
                      ELSE IF IsCommand(log[i]) THEN h[i - 1] ELSE WithEntry(h[i - 1], log[i])
    <3>1. CASE i = 0
      BY <1>2, <3>1 DEF Saying
    <3>2. CASE i # 0
      <4>1. i \in 1..n
        BY <1>n, <3>2
      <4> QED BY <1>2, <3>2, <4>1 DEF Saying
    <3> QED BY <3>1, <3>2
  <2> QED BY <2>1, <2>2
<1>4. after = F(after)
  <2> HIDE DEF F
  <2> QED BY <1>3
<1>5. after = [i \in 0..n |->
                 IF i = 0 THEN <<Identity>>
                 ELSE IF IsCommand(log[i]) THEN after[i - 1] ELSE WithEntry(after[i - 1], log[i])]
  <2> HIDE DEF after
  <2>1. PICK a : a = after
    OBVIOUS
  <2>2. a = F(a)
    BY <1>4, <2>1
  <2> QED BY <2>1, <2>2
<1> HIDE DEF after
<1>6. \A i \in 0..n : after[i] = IF i = 0 THEN <<Identity>>
         ELSE IF IsCommand(log[i]) THEN after[i - 1] ELSE WithEntry(after[i - 1], log[i])
  <2>1. PICK a : a = after
    OBVIOUS
  <2>2. a = [i \in 0..n |->
                 IF i = 0 THEN <<Identity>>
                 ELSE IF IsCommand(log[i]) THEN a[i - 1] ELSE WithEntry(a[i - 1], log[i])]
    BY <1>5, <2>1
  <2>3. \A i \in 0..n : a[i] = IF i = 0 THEN <<Identity>>
         ELSE IF IsCommand(log[i]) THEN a[i - 1] ELSE WithEntry(a[i - 1], log[i])
    BY <2>2
  <2> QED BY <2>1, <2>3
<1>7. Saying(after, log, n)
  BY <1>6, <1>n DEF Saying
<1>8. \A i \in 0..n : after[i] = h[i]
  <2>1. n \in Nat /\ Saying(after, log, n) /\ Saying(h, log, n)
    BY <1>n, <1>2, <1>7
  <2> QED BY <2>1, SayingAgrees
<1>9. n \in 0..n
  BY <1>n
<1> QED BY <1>1, <1>2, <1>8, <1>9 DEF n

(* An entry that is written and logged: the two files stay in step.         *)
LEMMA SaidOfLogged ==
  ASSUME NEW log \in Seq(Entries), NEW e \in Entries
  PROVE  /\ Said(log) \in Sessions
         /\ IsCommand(e) => Said(WithEntry(log, e)) = Said(log)
         /\ ~IsCommand(e) => Said(WithEntry(log, e)) = WithEntry(Said(log), e)
<1> DEFINE n == Len(log)
<1>1. n \in Nat /\ \A i \in 1..n : log[i] \in Entries
  OBVIOUS
<1>2. PICK h \in [0..n -> Sessions] : Saying(h, log, n) /\ Said(log) = h[n]
  BY SaidIs
<1> HIDE DEF n
<1>3. Said(log) \in Sessions
  <2>1. n \in 0..n
    BY <1>1
  <2> QED BY <1>2, <2>1
<1>4. CASE WithEntry(log, e) = Append(log, e)
  <2>1. PICK m : m = Append(log, e)
    OBVIOUS
  <2>2. /\ m \in Seq(Entries) /\ Len(m) = n + 1 /\ m[n + 1] = e
        /\ \A i \in 1..n : m[i] = log[i]
    BY <2>1 DEF n
  <2>3. PICK g \in [0..(n + 1) -> Sessions] : Saying(g, m, n + 1) /\ Said(m) = g[n + 1]
    BY <2>2, SaidIs
  <2>4. Saying(g, m, n)
    <3>1. \A i \in 1..n : i \in 1..(n + 1)
      BY <1>1
    <3> QED BY <2>3, <3>1 DEF Saying
  <2>5. g[n] = h[n]
    <3>1. /\ n \in Nat /\ Saying(g, m, n) /\ Saying(h, log, n)
          /\ \A i \in 1..n : m[i] = log[i]
      BY <1>1, <1>2, <2>2, <2>4
    <3>2. \A i \in 0..n : g[i] = h[i]
      BY <3>1, SayingAgrees
    <3> QED BY <1>1, <3>2
  <2>6. g[n + 1] = IF IsCommand(m[n + 1]) THEN g[n] ELSE WithEntry(g[n], m[n + 1])
    <3>1. n + 1 \in 1..(n + 1) /\ (n + 1) - 1 = n
      BY <1>1
    <3>2. g[n + 1] = IF IsCommand(m[n + 1]) THEN g[(n + 1) - 1]
                     ELSE WithEntry(g[(n + 1) - 1], m[n + 1])
      BY <2>3, <3>1 DEF Saying
    <3> QED BY <3>1, <3>2
  <2> QED BY <1>2, <1>3, <1>4, <2>1, <2>2, <2>3, <2>5, <2>6
<1>5. CASE WithEntry(log, e) = log /\ e.kind = "report" /\ log # <<>> /\ Last(log) = e
  <2>1. ~IsCommand(e)
    BY <1>5 DEF IsCommand
  <2>2. n \in 1..n /\ log[n] = e /\ n - 1 \in 0..n
    BY <1>1, <1>5 DEF n, Last
  <2>3. h[n] = WithEntry(h[n - 1], e)
    BY <1>2, <2>1, <2>2 DEF Saying
  <2>4. h[n - 1] \in Seq(Entries)
    BY <1>2, <2>2 DEF Sessions
  <2>5. h[n] \in Seq(Entries) /\ h[n] # <<>> /\ Last(h[n]) = e
    <3>1. PICK said \in Seq(Entries) : said = h[n - 1]
      BY <2>4
    <3>2. WithEntry(said, e) \in Seq(Entries) /\ WithEntry(said, e) # <<>>
          /\ Last(WithEntry(said, e)) = e
      BY Appended
    <3> QED BY <2>3, <3>1, <3>2
  <2>6. WithEntry(h[n], e) = h[n]
    BY <1>5, <2>5 DEF WithEntry
  <2> QED BY <1>2, <1>3, <1>5, <2>1, <2>6
<1> QED BY <1>3, <1>4, <1>5, Appended

(* Nothing logged, nothing said but the ID.                                 *)
LEMMA SaidOfNothing == Said(<<>>) = <<Identity>>
<1>1. PICK log : log = <<>>
  OBVIOUS
<1>2. log \in Seq(Entries) /\ Len(log) = 0
  BY <1>1
<1>3. PICK h \in [0..Len(log) -> Sessions] : Saying(h, log, Len(log)) /\ Said(log) = h[Len(log)]
  BY <1>2, SaidIs
<1>4. h[0] = <<Identity>>
  BY <1>3 DEF Saying
<1> QED BY <1>1, <1>2, <1>3, <1>4

-----------------------------------------------------------------------------
(* read_command()'s buffer and its loop.                                    *)

LEMMA TextIs ==
  ASSUME NEW b \in Texts
  PROVE  CR!Text(b) \in Texts
<1>1. B!CR!Text(b) = CR!Text(b)
  BY DEF B!CR!Text, CR!Text, B!CR!SelectInSeq, CR!SelectInSeq, B!CR!NUL, CR!NUL,
         B!CR!Min, CR!Min
<1>2. B!CR!Text(b) \in Texts
  BY B!TextIs, ReaderFits DEF Texts, B!Texts, Pieces
<1> QED BY <1>1, <1>2

LEMMA FilledIs ==
  ASSUME NEW old \in Texts, Len(old) = BUFSIZ, NEW data \in Texts, Len(data) <= BUFSIZ,
         NEW b \in CR!Filled(old, data)
  PROVE  b \in Texts /\ Len(b) = BUFSIZ
<1>1. b \in B!CR!Filled(old, data)
  BY DEF B!CR!Filled, CR!Filled, B!CR!NUL, CR!NUL
<1> QED BY <1>1, B!FilledIs, ReaderFits DEF Texts, B!Texts, Pieces

LEMMA MinIs ==
  ASSUME NEW a \in Int, NEW b \in Int
  PROVE  Min({a, b}) = IF a <= b THEN a ELSE b
BY B!MinIs, ReaderFits DEF Min, B!Min

(* What every turn of the loop keeps in S, the loop keeps in S.             *)
LEMMA ObeyStays ==
  ASSUME NEW S, NEW p \in S, NEW b,
         LET text == CR!Text(b)
         IN  /\ Len(text) \in Nat
             /\ \A q \in S, i \in 1..Len(text) : CR!read_char(q, text[i]) \in S
  PROVE  CR!obey(p, b) \in S
<1> DEFINE text == CR!Text(b)
           n == Len(text)
           F(f) == [i \in 0..n |->
                      IF i = 0 THEN {p} ELSE {CR!read_char(q, text[i]) : q \in f[i - 1]}]
           after == CHOOSE f : f = F(f)
           turn == [a \in S \X (1..n) |-> CR!read_char(a[1], text[a[2]])]
<1>1. CR!obey(p, b) = CHOOSE q \in after[n] : TRUE
  BY DEF CR!obey
<1>2. turn \in [S \X (1..n) -> S]
  <2>1. ASSUME NEW a \in S \X (1..n) PROVE CR!read_char(a[1], text[a[2]]) \in S
    OBVIOUS
  <2> QED BY <2>1
<1>3. \A q \in S, i \in 1..n : turn[<<q, i>>] = CR!read_char(q, text[i])
  OBVIOUS
<1>n. n \in Nat
  OBVIOUS
<1> HIDE DEF turn, text, n
<1>4. PICK h \in [0..n -> S] : B!Turns(h, p, turn, n)
  BY <1>2, <1>n, ReaderFits, B!TurnsExist
<1>5. after = F(after)
  <2> DEFINE f == [i \in 0..n |-> {h[i]}]
  <2>1. ASSUME NEW i \in 0..n
        PROVE  f[i] = IF i = 0 THEN {p} ELSE {CR!read_char(q, text[i]) : q \in f[i - 1]}
    <3>1. CASE i = 0
      BY <1>4, <1>n, <3>1 DEF B!Turns
    <3>2. CASE i # 0
      <4>1. i - 1 \in 0..n /\ i \in 1..n
        BY <1>n, <3>2
      <4>2. f[i - 1] = {h[i - 1]} /\ h[i - 1] \in S
        BY <4>1
      <4>3. h[i] = CR!read_char(h[i - 1], text[i])
        BY <1>3, <1>4, <4>1, <4>2 DEF B!Turns
      <4>4. f[i] = {h[i]}
        OBVIOUS
      <4> HIDE DEF f
      <4> QED BY <3>2, <4>2, <4>3, <4>4
    <3> QED BY <3>1, <3>2
  <2>2. f = [i \in 0..n |-> f[i]]
    OBVIOUS
  <2>3. f = F(f)
    <3> HIDE DEF f
    <3> QED BY <2>1, <2>2
  <2> HIDE DEF f, F
  <2> QED BY <2>3
<1> DEFINE Inside(i) == \E q \in S : after[i] = {q}
           X == {i \in 0..n : ~Inside(i)}
<1>6. \A i \in 0..n :
         after[i] = IF i = 0 THEN {p} ELSE {CR!read_char(q, text[i]) : q \in after[i - 1]}
  <2> HIDE DEF after
  <2>1. PICK a : a = after
    OBVIOUS
  <2>2. a = F(a)
    BY <1>5, <2>1
  <2>3. \A i \in 0..n :
         a[i] = IF i = 0 THEN {p} ELSE {CR!read_char(q, text[i]) : q \in a[i - 1]}
    BY <2>2
  <2> QED BY <2>1, <2>3
<1> HIDE DEF after
<1>7. Inside(0)
  BY <1>6, <1>n
<1>8. ASSUME NEW i \in 1..n, Inside(i - 1)
      PROVE  Inside(i)
  <2>1. PICK q \in S : after[i - 1] = {q}
    BY <1>8
  <2>2. i \in 0..n /\ i # 0
    BY <1>n
  <2>3. after[i] = {CR!read_char(q, text[i])}
    <3>1. after[i] = {CR!read_char(r, text[i]) : r \in after[i - 1]}
      BY <1>6, <2>2
    <3> QED BY <2>1, <3>1
  <2>4. CR!read_char(q, text[i]) \in S
    BY DEF text, n
  <2> QED BY <2>3, <2>4
<1> HIDE DEF Inside
<1>9. X = {}
  <2> SUFFICES ASSUME X # {} PROVE FALSE
    OBVIOUS
  <2>1. PICK k \in X : \A j \in X : ~(<<j, k>> \in OpToRel(<, Nat))
    <3>1. X \subseteq Nat
      BY <1>n
    <3> HIDE DEF X
    <3> QED BY <3>1, NatLessThanWellFounded, WFMin
  <2>2. k \in 0..n /\ ~Inside(k)
    OBVIOUS
  <2>3. k # 0
    BY <1>7, <2>2
  <2>4. k \in 1..n /\ k - 1 \in 0..n /\ k - 1 < k /\ k - 1 \in Nat /\ k \in Nat
    BY <1>n, <2>2, <2>3
  <2>5. k - 1 \notin X
    BY <2>1, <2>4 DEF OpToRel
  <2> QED BY <1>8, <2>2, <2>4, <2>5
<1>10. Inside(n)
  BY <1>9, <1>n
<1>11. PICK q \in S : after[n] = {q}
  BY <1>10 DEF Inside
<1>12. (CHOOSE r \in after[n] : TRUE) \in after[n]
  BY <1>11
<1> QED BY <1>1, <1>11, <1>12

-----------------------------------------------------------------------------
(* The program's globals.                                                   *)

Programs ==
  [cur_cmd : Texts, should_stop : BOOLEAN, scale : {"C", "F"}, period : Nat,
   should_log : {TRUE}, log : Seq(Entries), out : Seq(Entries),
   conn : {"open", "closed", "written", "reset", "broken"},
   exit : {Running, 0, 2, SIGSEGV, SIGPIPE, 1}]

(* What the client has written is what it has logged, once it has begun;    *)
(* lab4c_tcp has perhaps lost one line when the connection is broken.       *)
InStep(p, t) ==
  /\ t \/ p.conn # "broken" => IF p.out = <<>> THEN p.log = <<>> ELSE p.out = Said(p.log)
  /\ ~t => p.out \in {Said(p.log), Front(Said(p.log))}

Begun(p, t) == p.out # <<>> \/ (~t /\ p.conn = "broken")

(* Who ends with status 0 has said goodbye, because it was told to.         *)
Farewell(p, t) ==
  p.exit = 0 =>
    /\ p.log[Len(p.log)] = Shutdown
    /\ p.log[Len(p.log) - 1] = Command(OFF)
    /\ t => p.out[1] = Identity /\ Last(p.out) = Shutdown

Good(p, t) == p \in Programs /\ InStep(p, t) /\ Farewell(p, t)

(* p and q have the same values but for the files, the socket and the end.  *)
SameSettings(p, q) ==
  /\ q.cur_cmd = p.cur_cmd /\ q.should_stop = p.should_stop /\ q.scale = p.scale
  /\ q.period = p.period

LEMMA StatusesDiffer == /\ Running # 0 /\ Running # 2 /\ Running # SIGPIPE /\ Running # SIGSEGV
                        /\ SIGPIPE # 0 /\ SIGSEGV # 0 /\ Running # 1
BY DEF Running, SIGPIPE, SIGSEGV

(* SSL_write() and dprintf(): lab4c_tls goes on only if it has written.     *)
LEMMA Puts ==
  ASSUME NEW p \in Programs, NEW e \in Entries, p.exit = Running,
         NEW q, q = put(p, e)
  PROVE  /\ q \in Programs /\ q.log = p.log /\ SameSettings(p, q)
         /\ q.exit \in {Running, 2, SIGPIPE}
         /\ q.exit = Running =>
              /\ p.conn # "broken"
              /\ IF q.conn = "broken" THEN ~tls /\ q.out = p.out
                 ELSE q.out = WithEntry(p.out, e)
         /\ q.exit # Running => q.out = p.out /\ q.conn = p.conn
<1>a. p.out \in Seq(Entries) /\ p.exit = Running
  BY DEF Programs
<1>1. CASE Accepts(p) /\ q = written(p, e)
  <2>0. p.conn # "broken" /\ p.conn # "reset"
    BY <1>1 DEF Accepts
  <2>1. PICK c : c = IF p.conn = "closed" THEN "written" ELSE p.conn
    OBVIOUS
  <2>2. PICK g : g = WithEntry(p.out, e)
    OBVIOUS
  <2>3. g \in Seq(Entries)
    BY <1>a, <2>2, Appended
  <2>4. q = [p EXCEPT !.out = g, !.conn = c]
    BY <1>1, <2>1, <2>2 DEF written
  <2>5. c \in {"open", "closed", "written", "reset", "broken"} /\ c # "broken"
    BY <2>0, <2>1 DEF Programs
  <2> QED BY <1>a, <2>0, <2>2, <2>3, <2>4, <2>5 DEF Programs, SameSettings
<1>2. ASSUME NEW status \in {2, SIGPIPE}, q = myexit(p, status)
      PROVE  q = [p EXCEPT !.exit = status] /\ status # Running
  BY <1>a, <1>2, StatusesDiffer DEF myexit
<1>3. ASSUME NEW status \in {2, SIGPIPE}, q = [p EXCEPT !.exit = status], status # Running
      PROVE  /\ q \in Programs /\ q.log = p.log /\ SameSettings(p, q)
             /\ q.exit \in {2, SIGPIPE} /\ q.exit # Running /\ q.out = p.out
             /\ q.conn = p.conn
  BY <1>3 DEF Programs, SameSettings
<1>4. CASE tls /\ q = SSL_write(p, e)
  <2>1. (Accepts(p) /\ q = written(p, e)) \/ q = myexit(p, 2) \/ q = myexit(p, SIGPIPE)
    <3>1. p.conn \in {"open", "closed", "written", "reset", "broken"}
      BY DEF Programs
    <3> QED BY <1>4, <3>1 DEF SSL_write, Accepts
  <2> QED BY <1>1, <1>2, <1>3, <2>1
<1>5. CASE ~tls /\ q = dprintf(p, e)
  <2>1. \/ Accepts(p) /\ q = written(p, e)
        \/ p.conn = "reset" /\ q = [p EXCEPT !.conn = "broken"]
        \/ q = myexit(p, SIGPIPE)
    <3>1. p.conn \in {"open", "closed", "written", "reset", "broken"}
      BY DEF Programs
    <3> QED BY <1>5, <3>1 DEF dprintf, Accepts
  <2>2. CASE p.conn = "reset" /\ q = [p EXCEPT !.conn = "broken"]
    BY <1>5, <1>a, <2>2 DEF Programs, SameSettings
  <2> QED BY <1>1, <1>2, <1>3, <1>5, <2>1, <2>2
<1> QED BY <1>4, <1>5 DEF put

(* just_log().                                                              *)
LEMMA JustLogs ==
  ASSUME NEW p \in Programs, NEW e \in Entries, NEW q, q = just_log(p, e)
  PROVE  /\ q \in Programs /\ q.log = WithEntry(p.log, e) /\ SameSettings(p, q)
         /\ q.out = p.out /\ q.exit = p.exit /\ q.conn = p.conn
<1>1. PICK g : g = WithEntry(p.log, e)
  OBVIOUS
<1>2. g \in Seq(Entries)
  <2>1. p.log \in Seq(Entries)
    BY DEF Programs
  <2> QED BY <1>1, <2>1, Appended
<1>3. q = [p EXCEPT !.log = g]
  BY <1>1 DEF just_log, Programs
<1> QED BY <1>1, <1>2, <1>3 DEF Programs, SameSettings

(* print_and_log(), of a report or SHUTDOWN.                                *)
LEMMA PrintsAndLogs ==
  ASSUME NEW p \in Programs, NEW e \in Entries, ~IsCommand(e), p.exit = Running,
         InStep(p, tls), Begun(p, tls), NEW q, q = print_and_log(p, e)
  PROVE  /\ q \in Programs /\ InStep(q, tls) /\ Begun(q, tls) /\ SameSettings(p, q)
         /\ q.exit \in {Running, 2, SIGPIPE}
         /\ q.exit = Running =>
              /\ q.log = WithEntry(p.log, e)
              /\ tls => q.out[1] = Identity /\ Last(q.out) = e
<1>1. PICK r : r = put(p, e)
  OBVIOUS
<1>2. /\ r \in Programs /\ r.log = p.log /\ SameSettings(p, r)
      /\ r.exit \in {Running, 2, SIGPIPE}
      /\ r.exit = Running =>
           /\ p.conn # "broken"
           /\ IF r.conn = "broken" THEN ~tls /\ r.out = p.out
              ELSE r.out = WithEntry(p.out, e)
      /\ r.exit # Running => r.out = p.out /\ r.conn = p.conn
  BY <1>1, Puts
<1>3. p.log \in Seq(Entries) /\ p.out \in Seq(Entries)
  BY DEF Programs
<1>4. CASE r.exit # Running
  <2>1. q = r
    BY <1>1, <1>4 DEF print_and_log
  <2> QED BY <1>2, <1>4, <2>1 DEF InStep, Begun
<1>5. CASE r.exit = Running
  <2>1. q = just_log(r, e)
    BY <1>1, <1>5 DEF print_and_log
  <2>2. /\ q \in Programs /\ q.log = WithEntry(r.log, e) /\ SameSettings(r, q)
        /\ q.out = r.out /\ q.exit = r.exit /\ q.conn = r.conn
    BY <1>2, <2>1, JustLogs
  <2>3. p.out = Said(p.log) /\ p.out # <<>>
    BY <1>2, <1>5 DEF InStep, Begun
  <2>4. Said(p.log) \in Sessions /\ Said(q.log) = WithEntry(p.out, e)
    BY <1>2, <1>3, <2>2, <2>3, SaidOfLogged
  <2>5. p.out[1] = Identity
    BY <2>3, <2>4 DEF Sessions
  <2>6. /\ WithEntry(p.out, e) # <<>> /\ Last(WithEntry(p.out, e)) = e
        /\ WithEntry(p.out, e)[1] = p.out[1]
    BY <1>3, <2>3, Appended
  <2>7. CASE q.conn = "broken"
    <3>1. ~tls /\ q.out = p.out
      BY <1>2, <1>5, <2>2, <2>7
    <3>2. p.out \in {WithEntry(p.out, e), Front(WithEntry(p.out, e))}
      BY <1>3, FrontOfEntry
    <3>3. InStep(q, tls) /\ Begun(q, tls)
      BY <2>3, <2>4, <2>7, <3>1, <3>2 DEF InStep, Begun
    <3> QED BY <1>2, <1>5, <2>2, <3>1, <3>3 DEF SameSettings
  <2>8. CASE q.conn # "broken"
    <3>1. q.out = WithEntry(p.out, e)
      BY <1>2, <1>5, <2>2, <2>8
    <3>2. InStep(q, tls) /\ Begun(q, tls)
      BY <2>4, <2>6, <3>1 DEF InStep, Begun
    <3> QED BY <1>2, <1>5, <2>2, <2>5, <2>6, <3>1, <3>2 DEF SameSettings
  <2> QED BY <2>7, <2>8
<1> QED BY <1>4, <1>5

(* Before the ID only the ID is missing.                                    *)
LEMMA NothingWritten == <<>> \in {<<Identity>>, Front(<<Identity>>)}
<1>1. PICK file : file = <<>>
  OBVIOUS
<1>2. file \in Seq(Entries) /\ Identity \in Entries /\ Identity.kind # "report"
  BY <1>1, EntriesAre DEF Identity
<1>3. file \in {WithEntry(file, Identity), Front(WithEntry(file, Identity))}
  BY <1>2, FrontOfEntry
<1>4. WithEntry(file, Identity) = <<Identity>>
  BY <1>1, <1>2 DEF WithEntry
<1> QED BY <1>1, <1>3, <1>4

(* The line ID=... is the first that is written.                            *)
LEMMA Identifies ==
  ASSUME NEW p \in Programs, p.exit = Running, p.out = <<>>, p.log = <<>>,
         NEW q, q = put(p, Identity)
  PROVE  /\ q \in Programs /\ InStep(q, tls) /\ q.exit \in {Running, 2, SIGPIPE}
         /\ q.exit = Running => Begun(q, tls)
<1>1. Identity \in Entries /\ p.out \in Seq(Entries)
  BY EntriesAre DEF Programs
<1>2. /\ q \in Programs /\ q.log = p.log
      /\ q.exit \in {Running, 2, SIGPIPE}
      /\ q.exit = Running =>
           IF q.conn = "broken" THEN ~tls /\ q.out = p.out
           ELSE q.out = WithEntry(p.out, Identity)
      /\ q.exit # Running => q.out = p.out /\ q.conn = p.conn
  BY <1>1, Puts
<1>3. WithEntry(p.out, Identity) = <<Identity>>
  <2>1. Identity.kind # "report"
    BY DEF Identity
  <2>2. WithEntry(p.out, Identity) = Append(p.out, Identity)
    BY <2>1 DEF WithEntry
  <2> QED BY <2>2
<1>4. <<Identity>> # <<>> /\ <<>> \in {<<Identity>>, Front(<<Identity>>)}
  BY NothingWritten
<1> QED BY <1>2, <1>3, <1>4, SaidOfNothing DEF InStep, Begun

(* The copies of SensorLog's operators inside CR are the same operators.    *)
LEMMA SameOperators ==
  /\ \A p, e : CR!just_log(p, e) = just_log(p, e)
  /\ \A line : CR!Command(line) = Command(line)
  /\ \A c : CR!Report(c) = Report(c)
  /\ \A p, status : CR!myexit(p, status) = myexit(p, status)
  /\ CR!Shutdown = Shutdown /\ CR!OFF = OFF /\ CR!STOP = STOP /\ CR!START = START
  /\ \A c : CR!SCALE(c) = SCALE(c)
  /\ CR!Running = Running
<1>1. \A file, e : CR!WithEntry(file, e) = WithEntry(file, e)
  BY DEF CR!WithEntry, WithEntry, CR!Last, Last
<1>2. \A p, e : CR!just_log(p, e) = just_log(p, e)
  BY <1>1 DEF CR!just_log, just_log
<1>3. CR!Running = Running
  BY DEF CR!Running, Running
<1>4. \A p, status : CR!myexit(p, status) = myexit(p, status)
  BY <1>3 DEF CR!myexit, myexit
<1>5. /\ \A line : CR!Command(line) = Command(line)
      /\ \A c : CR!Report(c) = Report(c)
      /\ CR!Shutdown = Shutdown
  BY DEF CR!Command, Command, CR!Report, Report, CR!Shutdown, Shutdown
<1>6. CR!OFF = OFF /\ CR!STOP = STOP /\ CR!START = START /\ \A c : CR!SCALE(c) = SCALE(c)
  BY DEF CR!OFF, OFF, CR!STOP, STOP, CR!START, START, CR!SCALE, SCALE
<1> QED BY <1>2, <1>3, <1>4, <1>5, <1>6

(* report_temp().                                                           *)
LEMMA ReportTempIsGood ==
  ASSUME NEW p, Good(p, tls), Begun(p, tls), p.exit = Running,
         NEW q, q = CR!report_temp(p)
  PROVE  Good(q, tls) /\ Begun(q, tls)
<1>a. p \in Programs /\ InStep(p, tls)
  BY DEF Good
<1>1. PICK e : e = Report(p.scale)
  OBVIOUS
<1>2. e \in Entries /\ ~IsCommand(e)
  <2>1. p.scale \in {"C", "F"}
    BY <1>a DEF Programs
  <2> QED BY <1>1, <2>1, EntriesAre DEF Report, IsCommand
<1>3. q = print_and_log(p, e)
  BY <1>1, SameOperators DEF CR!report_temp
<1>4. q \in Programs /\ InStep(q, tls) /\ Begun(q, tls) /\ q.exit \in {Running, 2, SIGPIPE}
  BY <1>a, <1>2, <1>3, PrintsAndLogs
<1>5. Farewell(q, tls)
  BY <1>4, StatusesDiffer DEF Farewell
<1> QED BY <1>4, <1>5 DEF Good

(* A program that differs from r in its settings only.                      *)
LEMMA Settles ==
  ASSUME NEW r, Good(r, tls), Begun(r, tls),
         NEW q \in Programs, q.log = r.log, q.out = r.out, q.exit = r.exit, q.conn = r.conn
  PROVE  Good(q, tls) /\ Begun(q, tls)
BY DEF Good, Begun, InStep, Farewell

(* print_and_log("SHUTDOWN") and exit(0), after an OFF has been logged.     *)
LEMMA ShutdownIsGood ==
  ASSUME NEW r \in Programs, InStep(r, tls), Begun(r, tls), r.exit = Running,
         r.log # <<>>, Last(r.log) = Command(OFF),
         NEW q, q = myexit(print_and_log(r, Shutdown), 0)
  PROVE  Good(q, tls) /\ Begun(q, tls)
<1>1. PICK u : u = print_and_log(r, Shutdown)
  OBVIOUS
<1>2. Shutdown \in Entries /\ ~IsCommand(Shutdown) /\ Shutdown.kind # "report"
  BY EntriesAre DEF Shutdown, IsCommand
<1>3. /\ u \in Programs /\ InStep(u, tls) /\ Begun(u, tls) /\ u.exit \in {Running, 2, SIGPIPE}
      /\ u.exit = Running => /\ u.log = WithEntry(r.log, Shutdown)
                             /\ tls => u.out[1] = Identity /\ Last(u.out) = Shutdown
  BY <1>1, <1>2, PrintsAndLogs
<1>4. CASE u.exit # Running
  <2>1. q = u
    BY <1>1, <1>4 DEF myexit
  <2>2. Farewell(q, tls)
    BY <1>3, <1>4, <2>1, StatusesDiffer DEF Farewell
  <2> QED BY <1>3, <2>1, <2>2 DEF Good
<1>5. CASE u.exit = Running
  <2>1. q = [u EXCEPT !.exit = 0]
    BY <1>1, <1>5 DEF myexit
  <2>2. q \in Programs /\ q.log = u.log /\ q.out = u.out /\ q.conn = u.conn
    BY <1>3, <2>1 DEF Programs
  <2>3. InStep(q, tls) /\ Begun(q, tls)
    BY <1>3, <2>2 DEF InStep, Begun
  <2>4. q.log[Len(q.log)] = Shutdown /\ q.log[Len(q.log) - 1] = Command(OFF)
    <3>1. PICK l \in Seq(Entries) : l = r.log
      BY DEF Programs
    <3>2. q.log = Append(l, Shutdown)
      BY <1>2, <1>3, <1>5, <2>2, <3>1, Appended
    <3>3. Len(l) \in 1..Len(l) /\ l[Len(l)] = Command(OFF)
      BY <3>1 DEF Last
    <3>4. PICK g : g = Append(l, Shutdown)
      OBVIOUS
    <3>5. Len(g) = Len(l) + 1 /\ g[Len(g)] = Shutdown /\ g[Len(l)] = l[Len(l)]
      BY <3>3, <3>4
    <3>6. Len(g) - 1 = Len(l)
      BY <3>3, <3>5
    <3> QED BY <3>2, <3>3, <3>4, <3>5, <3>6
  <2>5. Farewell(q, tls)
    BY <1>3, <1>5, <2>2, <2>4 DEF Farewell
  <2> QED BY <2>2, <2>3, <2>5 DEF Good
<1> QED BY <1>4, <1>5

(* proc_cur_cmd().                                                          *)
LEMMA ProcIsGood ==
  ASSUME NEW p, Good(p, tls), Begun(p, tls), p.exit = Running,
         NEW q, q = CR!proc_cur_cmd(p)
  PROVE  Good(q, tls) /\ Begun(q, tls)
<1>a. p \in Programs /\ InStep(p, tls)
  BY DEF Good
<1>b. p.cur_cmd \in Texts /\ p.log \in Seq(Entries)
  BY <1>a DEF Programs
<1>1. PICK c : c = p.cur_cmd
  OBVIOUS
<1>2. PICK e : e = Command(c)
  OBVIOUS
<1>3. e \in Entries /\ IsCommand(e)
  BY <1>b, <1>1, <1>2, EntriesAre DEF Command, IsCommand
<1>4. PICK r : r = just_log(p, e)
  OBVIOUS
<1>5. /\ r \in Programs /\ r.log = WithEntry(p.log, e) /\ SameSettings(p, r)
      /\ r.out = p.out /\ r.exit = p.exit /\ r.conn = p.conn
  BY <1>a, <1>3, <1>4, JustLogs
<1>6. r.log # <<>> /\ Last(r.log) = e /\ Said(r.log) = Said(p.log)
  BY <1>b, <1>3, <1>5, Appended, SaidOfLogged
<1>7. InStep(r, tls) /\ Begun(r, tls)
  BY <1>a, <1>5, <1>6 DEF InStep, Begun
<1>8. Good(r, tls)
  <2>1. Farewell(r, tls)
    BY <1>5, StatusesDiffer DEF Farewell
  <2> QED BY <1>5, <1>7, <2>1 DEF Good
<1>9. CASE c = OFF /\ q = myexit(print_and_log(r, Shutdown), 0)
  BY <1>2, <1>5, <1>6, <1>7, <1>9, ShutdownIsGood
<1>10. CASE \/ \E stop \in BOOLEAN : q = [r EXCEPT !.should_stop = stop]
            \/ \E scale \in {"C", "F"} : q = [r EXCEPT !.scale = scale]
            \/ \E period \in Nat : q = [r EXCEPT !.period = period]
            \/ q = r
  <2>1. ASSUME NEW stop \in BOOLEAN, q = [r EXCEPT !.should_stop = stop]
        PROVE  q \in Programs /\ q.log = r.log /\ q.out = r.out /\ q.exit = r.exit /\ q.conn = r.conn
    BY <1>5, <2>1 DEF Programs
  <2>2. ASSUME NEW scale \in {"C", "F"}, q = [r EXCEPT !.scale = scale]
        PROVE  q \in Programs /\ q.log = r.log /\ q.out = r.out /\ q.exit = r.exit /\ q.conn = r.conn
    BY <1>5, <2>2 DEF Programs
  <2>3. ASSUME NEW period \in Nat, q = [r EXCEPT !.period = period]
        PROVE  q \in Programs /\ q.log = r.log /\ q.out = r.out /\ q.exit = r.exit /\ q.conn = r.conn
    BY <1>5, <2>3 DEF Programs
  <2>4. q \in Programs /\ q.log = r.log /\ q.out = r.out /\ q.exit = r.exit /\ q.conn = r.conn
    BY <1>5, <1>10, <2>1, <2>2, <2>3
  <2> QED BY <1>7, <1>8, <2>4, Settles
<1>11. q = CASE c = OFF -> myexit(print_and_log(r, Shutdown), 0)
             [] c = STOP -> [r EXCEPT !.should_stop = TRUE]
             [] c = START -> [r EXCEPT !.should_stop = FALSE]
             [] c = SCALE("F") -> [r EXCEPT !.scale = "F"]
             [] c = SCALE("C") -> [r EXCEPT !.scale = "C"]
             [] Len(c) > 1 /\ c[1] = "PERIOD=" -> [r EXCEPT !.period = CR!atoi(Tail(c))]
             [] OTHER -> r
  <2>1. r = CR!just_log(p, CR!Command(p.cur_cmd))
    BY <1>1, <1>2, <1>4, SameOperators
  <2> QED BY <1>1, <2>1, SameOperators DEF CR!proc_cur_cmd
<1>12. CR!atoi(Tail(c)) \in Nat
  BY DEF CR!atoi
<1> QED BY <1>9, <1>10, <1>11, <1>12

(* One turn of read_command()'s loop.                                       *)
LEMMA ReadCharIsGood ==
  ASSUME NEW p, Good(p, tls), Begun(p, tls), NEW ch \in Pieces,
         NEW q, q = CR!read_char(p, ch)
  PROVE  Good(q, tls) /\ Begun(q, tls)
<1>a. p \in Programs /\ InStep(p, tls) /\ p.cur_cmd \in Texts
  BY DEF Good, Programs
<1>1. CASE q = p
  BY <1>1
<1>2. CASE p.exit = Running /\ q = [CR!proc_cur_cmd(p) EXCEPT !.cur_cmd = <<>>]
  <2>1. PICK r : r = CR!proc_cur_cmd(p)
    OBVIOUS
  <2>2. Good(r, tls) /\ Begun(r, tls)
    BY <1>2, <2>1, ProcIsGood
  <2>3. <<>> \in Texts
    BY DEF Texts
  <2>4. q = [r EXCEPT !.cur_cmd = <<>>]
    BY <1>2, <2>1
  <2>5. r \in Programs
    BY <2>2 DEF Good
  <2>6. q \in Programs /\ q.log = r.log /\ q.out = r.out /\ q.exit = r.exit /\ q.conn = r.conn
    BY <2>3, <2>4, <2>5 DEF Programs
  <2> QED BY <2>2, <2>6, Settles
<1>3. CASE p.exit = Running /\ q = myexit(p, 1)
  <2>1. q = [p EXCEPT !.exit = 1]
    BY <1>3 DEF myexit
  <2>2. q \in Programs /\ q.log = p.log /\ q.out = p.out /\ q.exit = 1 /\ q.conn = p.conn
    BY <1>a, <2>1 DEF Programs
  <2> QED BY <1>a, <2>2 DEF Good, InStep, Begun, Farewell
<1>4. CASE q = [p EXCEPT !.cur_cmd = Append(@, ch)]
  <2>1. Append(p.cur_cmd, ch) \in Texts
    BY <1>a DEF Texts
  <2>2. q \in Programs /\ q.log = p.log /\ q.out = p.out /\ q.exit = p.exit /\ q.conn = p.conn
    BY <1>4, <1>a, <2>1 DEF Programs
  <2> QED BY <2>2, Settles
<1> QED BY <1>1, <1>2, <1>3, <1>4, SameOperators DEF CR!read_char

-----------------------------------------------------------------------------
(* The inductive invariant.                                                 *)

Inv ==
  /\ Good(prog, tls)
  /\ pc \in {"connect", "identify"} => prog.out = <<>> /\ prog.log = <<>>
  /\ pc \in {"poll", "report", "read"} => Begun(prog, tls)
  /\ pc # "done" => prog.exit = Running
  /\ buf \in Texts /\ Len(buf) = BUFSIZ
  /\ script \in Texts /\ sent \in 0..Len(script) /\ taken \in 0..sent

LEMMA InitInv == Init => Inv
<1> SUFFICES ASSUME Init PROVE Inv
  OBVIOUS
<1>1. /\ prog \in Globals /\ pc = "connect" /\ script \in Scripts /\ sent = 0 /\ taken = 0
      /\ buf = [i \in 1..BUFSIZ |-> CR!NUL]
  BY DEF Init
<1>2. prog \in Programs
  <2>1. <<>> \in Texts /\ <<>> \in Seq(Entries)
    BY DEF Texts
  <2> QED BY <1>1, <2>1, PeriodsAssumption DEF Globals, Programs
<1>3. prog.out = <<>> /\ prog.log = <<>> /\ prog.exit = Running
  BY <1>1 DEF Globals
<1>4. Good(prog, tls)
  BY <1>2, <1>3, StatusesDiffer, SaidOfNothing, NothingWritten DEF Good, InStep, Farewell
<1>5. buf \in Texts /\ Len(buf) = BUFSIZ
  <2>1. CR!NUL \in Pieces /\ BUFSIZ \in Nat
    BY SizesAssumption DEF Pieces, B!Pieces, B!CR!NUL, CR!NUL
  <2>2. buf \in [1..BUFSIZ -> Pieces]
    BY <1>1, <2>1
  <2> QED BY <2>1, <2>2 DEF Texts
<1>6. script \in Texts
  <2>1. \A t \in Seq(STRING) : t \in Texts
    BY DEF Texts, Pieces, B!Pieces
  <2> QED BY <1>1, <2>1, TextsAssumption
<1>7. sent \in 0..Len(script) /\ taken \in 0..sent
  BY <1>1, <1>6 DEF Texts
<1> QED BY <1>1, <1>3, <1>4, <1>5, <1>6, <1>7 DEF Inv

(* The socket may change at any time; the rest of the globals stay.         *)
LEMMA SocketChanges ==
  ASSUME NEW p, Good(p, tls), NEW c \in {"open", "closed", "written", "reset", "broken"},
         p.conn # "broken" \/ c = "broken", NEW q, q = [p EXCEPT !.conn = c]
  PROVE  /\ Good(q, tls) /\ (Begun(p, tls) => Begun(q, tls))
         /\ q.out = p.out /\ q.log = p.log /\ q.exit = p.exit
<1>1. p \in Programs
  BY DEF Good
<1>2. q \in Programs /\ q.out = p.out /\ q.log = p.log /\ q.exit = p.exit /\ q.conn = c
  BY <1>1 DEF Programs
<1> QED BY <1>2 DEF Good, InStep, Farewell, Begun

(* What is left of a program that ends before it has said anything, or with *)
(* another status than 0.                                                   *)
LEMMA FailsWell ==
  ASSUME NEW p \in Programs, InStep(p, tls), p.exit # 0, NEW status \in {2, SIGSEGV},
         NEW q, q = myexit(p, status)
  PROVE  Good(q, tls) /\ q.exit # Running /\ q.out = p.out /\ q.log = p.log
<1>1. CASE p.exit = Running
  <2>1. q = [p EXCEPT !.exit = status]
    BY <1>1 DEF myexit
  <2>2. q \in Programs /\ q.exit = status /\ q.out = p.out /\ q.log = p.log /\ q.conn = p.conn
    BY <2>1 DEF Programs
  <2> QED BY <2>2, StatusesDiffer DEF Good, InStep, Farewell
<1>2. CASE p.exit # Running
  BY <1>2 DEF myexit, Good, Farewell
<1> QED BY <1>1, <1>2

(* read_command(): the buffer is filled and obeyed.                         *)
LEMMA CommandsAreGood ==
  ASSUME NEW p, Good(p, tls), Begun(p, tls), NEW b \in Texts, NEW q, q = CR!obey(p, b)
  PROVE  Good(q, tls) /\ Begun(q, tls)
<1> DEFINE S == {u \in Programs : Good(u, tls) /\ Begun(u, tls)}
           text == CR!Text(b)
<1>1. text \in Texts
  BY TextIs
<1>2. Len(text) \in Nat /\ \A i \in 1..Len(text) : text[i] \in Pieces
  BY <1>1 DEF Texts
<1> HIDE DEF text
<1>3. ASSUME NEW u \in S, NEW i \in 1..Len(text)
      PROVE  CR!read_char(u, text[i]) \in S
  <2>1. Good(CR!read_char(u, text[i]), tls) /\ Begun(CR!read_char(u, text[i]), tls)
    BY <1>2, ReadCharIsGood
  <2> QED BY <2>1 DEF Good
<1>4. p \in S
  BY DEF Good
<1> HIDE DEF S
<1>5. CR!obey(p, b) \in S
  BY <1>2, <1>3, <1>4, ObeyStays DEF text
<1> QED BY <1>5 DEF S

LEMMA InvKept == Inv /\ [Next]_vars => Inv'
<1> SUFFICES ASSUME Inv, [Next]_vars PROVE Inv'
  OBVIOUS
<1>a. /\ Good(prog, tls) /\ prog \in Programs /\ InStep(prog, tls)
      /\ pc \in {"connect", "identify"} => prog.out = <<>> /\ prog.log = <<>>
      /\ pc \in {"poll", "report", "read"} => Begun(prog, tls)
      /\ pc # "done" => prog.exit = Running
  BY DEF Inv, Good
<1>b. /\ buf \in Texts /\ Len(buf) = BUFSIZ
      /\ script \in Texts /\ sent \in 0..Len(script) /\ taken \in 0..sent
      /\ Len(script) \in Nat /\ BUFSIZ \in Nat /\ sent \in Nat /\ taken \in Nat
  BY SizesAssumption DEF Inv, Texts
<1> DEFINE Data == /\ buf \in Texts /\ Len(buf) = BUFSIZ
                   /\ script \in Texts /\ sent \in 0..Len(script) /\ taken \in 0..sent
<1>1. CASE Connect
  <2>1. prog' = prog \/ \E status \in {2, SIGSEGV} : prog' = myexit(prog, status)
    BY <1>1 DEF Connect, ssl_connect, client_connect
  <2>2. prog.exit = Running /\ prog.exit # 0 /\ prog.out = <<>> /\ prog.log = <<>>
    BY <1>1, <1>a, StatusesDiffer DEF Connect
  <2>3. Good(prog', tls) /\ prog'.out = <<>> /\ prog'.log = <<>>
    <3>1. CASE prog' = prog
      BY <1>a, <2>2, <3>1
    <3>2. CASE \E status \in {2, SIGSEGV} : prog' = myexit(prog, status)
      <4>1. PICK status \in {2, SIGSEGV} : prog' = myexit(prog, status)
        BY <3>2
      <4> QED BY <1>a, <2>2, <4>1, FailsWell
    <3> QED BY <2>1, <3>1, <3>2
  <2>4. pc' = IF prog'.exit = Running THEN "identify" ELSE "done"
    BY <1>1 DEF Connect, Continue
  <2>5. tls' = tls /\ Data'
    BY <1>1, <1>b DEF Connect, input, server
  <2> QED BY <2>3, <2>4, <2>5 DEF Inv
<1>2. CASE Identify
  <2>1. prog.exit = Running /\ prog.out = <<>> /\ prog.log = <<>>
    BY <1>2, <1>a DEF Identify
  <2>2. PICK r : r = put(prog, Identity)
    OBVIOUS
  <2>3. /\ r \in Programs /\ InStep(r, tls) /\ r.exit \in {Running, 2, SIGPIPE}
        /\ r.exit = Running => Begun(r, tls)
    BY <1>a, <2>1, <2>2, Identifies
  <2>4. r.exit # 0 /\ Good(r, tls)
    BY <2>3, StatusesDiffer DEF Good, Farewell
  <2>5. prog' = r \/ prog' = myexit(r, 2)
    BY <1>2, <2>2 DEF Identify, put, init_sensors
  <2>6. Good(prog', tls) /\ (prog'.exit = Running => Begun(prog', tls))
    <3>1. CASE prog' = r
      BY <2>3, <2>4, <3>1
    <3>2. CASE prog' = myexit(r, 2)
      <4>1. PICK status \in {2, SIGSEGV} : status = 2
        OBVIOUS
      <4> QED BY <2>3, <2>4, <3>2, <4>1, FailsWell
    <3> QED BY <2>5, <3>1, <3>2
  <2>7. pc' = IF prog'.exit = Running THEN "poll" ELSE "done"
    BY <1>2 DEF Identify, Continue
  <2>8. tls' = tls /\ Data'
    BY <1>2, <1>b DEF Identify, input, server
  <2> QED BY <2>6, <2>7, <2>8 DEF Inv
<1>3. CASE Poll
  <2>1. prog' = prog /\ pc = "poll" /\ pc' = "report" /\ tls' = tls /\ Data'
    BY <1>3, <1>b DEF Poll, input, server
  <2> QED BY <1>a, <2>1 DEF Inv
<1>4. CASE ReportTemperature
  <2>1. pc = "report" /\ prog.exit = Running /\ Begun(prog, tls)
    BY <1>4, <1>a DEF ReportTemperature
  <2>2. prog' = prog \/ prog' = CR!report_temp(prog)
    BY <1>4 DEF ReportTemperature
  <2>3. Good(prog', tls) /\ Begun(prog', tls)
    BY <1>a, <2>1, <2>2, ReportTempIsGood
  <2>4. pc' = IF prog'.exit = Running THEN "read" ELSE "done"
    BY <1>4 DEF ReportTemperature, Continue
  <2>5. tls' = tls /\ Data'
    BY <1>4, <1>b DEF ReportTemperature, input, server
  <2> QED BY <2>3, <2>4, <2>5 DEF Inv
<1>5. CASE read_command
  <2> DEFINE data == SubSeq(script, taken + 1, Min({sent, taken + BUFSIZ}))
  <2>1. /\ pc = "read" /\ taken < sent
        /\ buf' \in CR!Filled(buf, data)
        /\ taken' = taken + Len(data)
        /\ prog' = CR!obey(prog, buf')
        /\ pc' = IF prog'.exit = Running THEN "poll" ELSE "done"
        /\ tls' = tls /\ script' = script /\ sent' = sent
    BY <1>5 DEF read_command, Continue, server
  <2>2. data \in Texts /\ Len(data) <= BUFSIZ /\ Len(data) <= sent - taken /\ Len(data) \in Nat
    <3>1. PICK end : end = Min({sent, taken + BUFSIZ})
      OBVIOUS
    <3>2. end \in Nat /\ end <= sent /\ end <= taken + BUFSIZ /\ taken <= end
      <4>1. sent \in Int /\ taken + BUFSIZ \in Int /\ taken < sent
        BY <1>b, <2>1
      <4>2. end = IF sent <= taken + BUFSIZ THEN sent ELSE taken + BUFSIZ
        BY <3>1, <4>1, MinIs
      <4> QED BY <1>b, <4>1, <4>2
    <3>3. data = SubSeq(script, taken + 1, end)
      BY <3>1
    <3>4. end <= Len(script)
      BY <1>b, <3>2
    <3> HIDE DEF data
    <3> QED BY <1>b, <3>2, <3>3, <3>4 DEF Texts
  <2> HIDE DEF data
  <2>3. buf' \in Texts /\ Len(buf') = BUFSIZ
    BY <1>b, <2>1, <2>2, FilledIs
  <2>4. taken' \in 0..sent
    BY <1>b, <2>1, <2>2
  <2>5. Good(prog', tls) /\ Begun(prog', tls)
    BY <1>a, <2>1, <2>3, CommandsAreGood
  <2> QED BY <1>b, <2>1, <2>3, <2>4, <2>5 DEF Inv
<1>6. CASE ReadNothing
  <2>1. pc = "read" /\ pc' = "poll" /\ tls' = tls /\ Data'
    BY <1>6, <1>b DEF ReadNothing, input, server
  <2>2. prog' = prog \/ prog' = [prog EXCEPT !.conn = "broken"]
    BY <1>6 DEF ReadNothing
  <2>3. Good(prog', tls) /\ Begun(prog', tls) /\ prog'.exit = Running
    BY <1>a, <2>1, <2>2, SocketChanges
  <2> QED BY <2>1, <2>3 DEF Inv
<1>7. CASE Send
  <2>1. prog' = prog /\ pc' = pc /\ tls' = tls
    BY <1>7 DEF Send
  <2>2. Data'
    BY <1>7, <1>b DEF Send, input
  <2> QED BY <1>a, <2>1, <2>2 DEF Inv
<1>8. CASE HangUp \/ Reset
  <2>1. PICK c \in {"closed", "reset", "broken"} :
          prog' = [prog EXCEPT !.conn = c] /\ prog.conn # "broken"
    BY <1>8 DEF HangUp, Reset
  <2>2. pc' = pc /\ tls' = tls /\ Data'
    BY <1>8, <1>b DEF HangUp, Reset, input, server
  <2>3. /\ Good(prog', tls) /\ (Begun(prog, tls) => Begun(prog', tls))
        /\ prog'.out = prog.out /\ prog'.log = prog.log /\ prog'.exit = prog.exit
    BY <1>a, <2>1, SocketChanges
  <2> QED BY <1>a, <2>2, <2>3 DEF Inv
<1>9. CASE Tick
  <2>1. prog' = prog /\ pc' = pc /\ tls' = tls /\ Data'
    BY <1>9, <1>b DEF Tick, input, server
  <2> QED BY <1>a, <2>1 DEF Inv
<1>10. CASE UNCHANGED vars
  <2>1. prog' = prog /\ pc' = pc /\ tls' = tls /\ Data'
    BY <1>10, <1>b DEF vars
  <2> QED BY <1>a, <2>1 DEF Inv
<1> QED BY <1>1, <1>2, <1>3, <1>4, <1>5, <1>6, <1>7, <1>8, <1>9, <1>10
        DEF Next, main, Terminated

(* The globals are good in every reachable state.                           *)
LEMMA GlobalsAreGood == Spec => []Inv
BY InitInv, InvKept, PTL DEF Spec

(* lab4c_tls's log holds the commands and exactly what was written after    *)
(* the ID, in this order, whenever and however the connection fails         *)
(* (lab4c_tls.c:269); lab4c_tcp's holds at most one line more               *)
(* (lab4c_tcp.c:212).                                                       *)
THEOREM LogIsWhatWasWritten == Spec => []LoggedIsWritten
<1>1. Inv => LoggedIsWritten
  BY DEF Inv, Good, InStep, LoggedIsWritten
<1> QED BY <1>1, GlobalsAreGood, PTL

(* Status 0 means that an OFF was obeyed and SHUTDOWN was logged after it,  *)
(* and, by lab4c_tls, written (lab4c_tls.c:204, lab4c_tcp.c:147).           *)
THEOREM ZeroIsHonest == Spec => []ZeroMeansShutdownSent
<1>1. Inv => ZeroMeansShutdownSent
  BY DEF Inv, Good, Farewell, ZeroMeansShutdownSent
<1> QED BY <1>1, GlobalsAreGood, PTL
====
