----------------------------- MODULE Lab4b_proof -----------------------------
(***************************************************************************)
(* Proofs about Lab4b: the line buffer is never outgrown, the log keeps what *)
(* the commands ask of the reports, and SHUTDOWN is the last thing written. *)
(*                                                                         *)
(* The three follow from one invariant of the globals, Good(prog, s), where *)
(* s is the scale the options gave.  It adds to the properties that the     *)
(* variables should_stop and scale are what the log's last switch and last  *)
(* SCALE command asked for (LogSays), so that the next report will obey     *)
(* too.  Every function of the program keeps it, and so does the loop of    *)
(* read_command(), whatever its buffer holds (ObeyStays).                   *)
(*                                                                         *)
(* That the lines obeyed are the lines typed, in order, needs in addition   *)
(* that cur_cmd is what was read of the next line (Obeyed).  The reference  *)
(* definition of the lines of a text grows with the text (LinesGrow), and a *)
(* turn of the loop obeys what one more piece says (ReadCharObeys).         *)
(***************************************************************************)
EXTENDS Lab4b, NaturalsInduction, SequenceTheorems, WellFoundedInduction, TLAPS

(* The pieces of a text.  (They are strings all; the provers do not know    *)
(* that a string constant is in STRING.)                                   *)
Pieces == STRING \cup {"C", "F", CR!NUL}
Texts == Seq(Pieces)
Entries == [kind : {"command", "report", "shutdown"}, text : Texts]
-----------------------------------------------------------------------------
(* The last command of some kind in a log.                                 *)

(* The places of some commands among the first n entries.                  *)
At(file, n, choices) == {i \in 1..n : IsCommand(file[i]) /\ file[i].text \in choices}

(* A set of places has a last one, or is empty.                            *)
LEMMA LastPlace ==
  ASSUME NEW n \in Nat, NEW S \in SUBSET (1..n), S # {}
  PROVE  \E m \in S : \A i \in S : i <= m
<1> DEFINE back == {n - i : i \in S}
<1>1. back \subseteq Nat /\ back # {}
  <2>1. \A i \in S : i \in 1..n /\ n - i \in Nat
    OBVIOUS
  <2>2. PICK i \in S : TRUE
    OBVIOUS
  <2>3. n - i \in back
    OBVIOUS
  <2> QED BY <2>1, <2>3
<1>2. PICK b \in back : \A c \in back : ~(<<c, b>> \in OpToRel(<, Nat))
  <2> HIDE DEF back
  <2> QED BY <1>1, NatLessThanWellFounded, WFMin
<1>3. PICK m \in S : b = n - m
  BY <1>2
<1>4. ASSUME NEW i \in S
      PROVE  i <= m
  <2>1. n - i \in back /\ n - i \in Nat /\ b \in Nat
    BY <1>1, <1>2
  <2>2. ~(n - i < b)
    BY <1>2, <2>1 DEF OpToRel
  <2>3. i \in 1..n /\ m \in 1..n
    BY <1>3
  <2> QED BY <1>3, <2>2, <2>3
<1> QED BY <1>4

(* It is what Max picks.                                                   *)
LEMMA MaxIs ==
  ASSUME NEW S, S \subseteq Int, NEW m \in S, \A i \in S : i <= m
  PROVE  Max(S) = m
<1>1. m \in S /\ \A y \in S : m >= y
  OBVIOUS
<1>2. PICK M : M = Max(S)
  OBVIOUS
<1>3. M = CHOOSE x \in S : \A y \in S : x >= y
  BY <1>2 DEF Max
<1>4. M \in S /\ \A y \in S : M >= y
  BY <1>1, <1>3
<1>5. M >= m /\ m >= M
  BY <1>1, <1>4
<1>6. M \in Int /\ m \in Int
  BY <1>4
<1> QED BY <1>2, <1>5, <1>6

(* So Max picks one of the places.                                          *)
LEMMA MaxIsLast ==
  ASSUME NEW n \in Nat, NEW S \in SUBSET (1..n), S # {}
  PROVE  Max(S) \in S /\ \A i \in S : i <= Max(S)
<1>1. PICK m \in S : \A i \in S : i <= m
  BY LastPlace
<1>2. S \subseteq Int
  OBVIOUS
<1>3. Max(S) = m
  BY <1>1, <1>2, MaxIs
<1> QED BY <1>1, <1>3

(* LastOf() in terms of the places.                                        *)
LEMMA LastOfIs ==
  ASSUME NEW file \in Seq(Entries), NEW n \in 0..Len(file), NEW choices, NEW default
  PROVE  LET I == At(file, n, choices)
         IN  LastOf(file, n, choices, default) = IF I = {} THEN default ELSE file[Max(I)].text
<1> DEFINE I == {i \in 1..n : IsCommand(file[i]) /\ file[i].text \in choices}
           at == IF I # {} THEN Max(I) ELSE 0
<1>1. LastOf(file, n, choices, default) = IF at = 0 THEN default ELSE file[at].text
  BY DEF LastOf, SelectLastInSubSeq
<1>2. I = At(file, n, choices)
  BY DEF At
<1>3. I \subseteq 1..n
  OBVIOUS
<1> HIDE DEF I
<1>4. I # {} => Max(I) # 0
  <2>1. SUFFICES ASSUME I # {}
                 PROVE  Max(I) \in 1..n
    OBVIOUS
  <2>2. n \in Nat
    OBVIOUS
  <2> QED BY <1>3, <2>1, <2>2, MaxIsLast
<1> QED BY <1>1, <1>2, <1>4

(* With no such command it is the default.                                  *)
LEMMA LastOfNone ==
  ASSUME NEW file, NEW n, NEW choices, NEW default, At(file, n, choices) = {}
  PROVE  LastOf(file, n, choices, default) = default
<1>1. {i \in 1..n : IsCommand(file[i]) /\ file[i].text \in choices} = {}
  BY DEF At
<1> QED BY <1>1 DEF LastOf, SelectLastInSubSeq

(* One more entry: what was asked before it stays asked, and itself counts *)
(* if it is one of the commands.                                           *)
LEMMA LastOfAppend ==
  ASSUME NEW file \in Seq(Entries), NEW e \in Entries, NEW choices, NEW default,
         NEW g \in Seq(Entries), Len(g) = Len(file) + 1, g[Len(g)] = e,
         \A i \in 1..Len(file) : g[i] = file[i]
  PROVE  /\ \A n \in 0..Len(file) :
               LastOf(g, n, choices, default) = LastOf(file, n, choices, default)
         /\ IsCommand(e) /\ e.text \in choices
              => LastOf(g, Len(g), choices, default) = e.text
         /\ ~(IsCommand(e) /\ e.text \in choices)
              => LastOf(g, Len(g), choices, default) = LastOf(file, Len(file), choices, default)
<1>1. /\ g \in Seq(Entries) /\ Len(g) = Len(file) + 1 /\ Len(file) \in Nat
      /\ \A i \in 1..Len(file) : g[i] = file[i]
      /\ g[Len(g)] = e
  OBVIOUS
<1>2. \A n \in 0..Len(file) : At(g, n, choices) = At(file, n, choices)
  BY <1>1 DEF At
<1>3. ASSUME NEW n \in 0..Len(file), NEW k \in 0..Len(g),
             At(g, k, choices) = At(file, n, choices)
      PROVE  LastOf(g, k, choices, default) = LastOf(file, n, choices, default)
  <2> DEFINE I == At(file, n, choices)
  <2>1. LastOf(file, n, choices, default) = IF I = {} THEN default ELSE file[Max(I)].text
    BY LastOfIs
  <2>2. LastOf(g, k, choices, default) = IF I = {} THEN default ELSE g[Max(I)].text
    <3>1. PICK J : J = At(g, k, choices)
      OBVIOUS
    <3>2. LastOf(g, k, choices, default) = IF J = {} THEN default ELSE g[Max(J)].text
      <4>1. k \in Nat
        BY <1>1
      <4> QED BY <3>1, <4>1, LastOfIs
    <3> QED BY <1>3, <3>1, <3>2
  <2>3. I # {} => Max(I) \in 1..Len(file)
    <3>1. I \in SUBSET (1..n) /\ n \in Nat /\ n <= Len(file)
      BY <1>1 DEF At
    <3>2. I # {} => Max(I) \in I
      BY <3>1, MaxIsLast
    <3> QED BY <1>1, <3>1, <3>2
  <2> QED BY <1>1, <2>1, <2>2, <2>3
<1>4. \A n \in 0..Len(file) :
         LastOf(g, n, choices, default) = LastOf(file, n, choices, default)
  BY <1>1, <1>2, <1>3
<1>5. CASE IsCommand(e) /\ e.text \in choices
  <2> DEFINE I == At(g, Len(g), choices)
  <2>1. Len(g) \in I /\ I \subseteq Int /\ \A i \in I : i <= Len(g)
    BY <1>1, <1>5 DEF At
  <2>2. Max(I) = Len(g) /\ I # {}
    BY <2>1, MaxIs
  <2>3. LastOf(g, Len(g), choices, default) = IF I = {} THEN default ELSE g[Max(I)].text
    <3>1. Len(g) \in Nat
      BY <1>1
    <3> QED BY <3>1, LastOfIs
  <2> QED BY <1>1, <1>4, <1>5, <2>2, <2>3
<1>6. CASE ~(IsCommand(e) /\ e.text \in choices)
  <2>1. At(g, Len(g), choices) = At(file, Len(file), choices)
    BY <1>1, <1>6 DEF At
  <2>2. Len(file) \in 0..Len(file) /\ Len(g) \in 0..Len(g)
    BY <1>1
  <2>3. LastOf(g, Len(g), choices, default) = LastOf(file, Len(file), choices, default)
    BY <1>3, <2>1, <2>2
  <2> QED BY <1>4, <1>6, <2>3
<1> QED BY <1>4, <1>5, <1>6
-----------------------------------------------------------------------------
(* read_command()'s loop.                                                  *)

(* Applying a function of n turns to p: the states after 0, 1, ..., n.      *)
Turns(h, p, turn, n) ==
  /\ h[0] = p
  /\ \A i \in 1..n : h[i] = turn[<<h[i - 1], i>>]

(* There are such states when each turn stays in S.                         *)
LEMMA TurnsExist ==
  ASSUME NEW n \in Nat, NEW S, NEW p \in S, NEW turn \in [S \X (1..n) -> S]
  PROVE  \E h \in [0..n -> S] : Turns(h, p, turn, n)
<1> DEFINE Can(k) == \E h \in [0..k -> S] : Turns(h, p, turn, k)
           X == {k \in 0..n : ~Can(k)}
<1>1. Can(0)
  <2>1. [i \in 0..0 |-> p] \in [0..0 -> S]
    OBVIOUS
  <2>2. Turns([i \in 0..0 |-> p], p, turn, 0)
    BY DEF Turns
  <2> QED BY <2>1, <2>2
<1>2. ASSUME NEW k \in 1..n, Can(k - 1)
      PROVE  Can(k)
  <2>1. PICK h \in [0..(k - 1) -> S] : Turns(h, p, turn, k - 1)
    BY <1>2
  <2> DEFINE v == turn[<<h[k - 1], k>>]
             g == [i \in 0..k |-> IF i = k THEN v ELSE h[i]]
  <2>2. v \in S
    <3>1. k - 1 \in 0..(k - 1)
      OBVIOUS
    <3>2. h[k - 1] \in S
      BY <3>1
    <3>3. <<h[k - 1], k>> \in S \X (1..n)
      BY <3>2
    <3> QED BY <3>3
  <2>3. g \in [0..k -> S]
    <3> HIDE DEF v
    <3>1. ASSUME NEW i \in 0..k PROVE (IF i = k THEN v ELSE h[i]) \in S
      <4>1. CASE i = k
        BY <2>2, <4>1
      <4>2. CASE i # k
        <5>1. i \in 0..(k - 1)
          BY <4>2
        <5> QED BY <4>2, <5>1
      <4> QED BY <4>1, <4>2
    <3> QED BY <3>1
  <2>4. Turns(g, p, turn, k)
    <3>1. /\ h[0] = p
          /\ \A i \in 1..(k - 1) : h[i] = turn[<<h[i - 1], i>>]
      BY <2>1 DEF Turns
    <3>2. g[0] = p
      BY <3>1
    <3>3. ASSUME NEW i \in 1..k
          PROVE  g[i] = turn[<<g[i - 1], i>>]
      <4>1. i - 1 \in 0..k /\ i - 1 # k
        OBVIOUS
      <4>2. g[i - 1] = h[i - 1]
        BY <4>1
      <4>3. CASE i = k
        <5>1. g[k] = v
          OBVIOUS
        <5> HIDE DEF g
        <5> QED BY <4>2, <4>3, <5>1
      <4>4. CASE i # k
        <5>1. i \in 1..(k - 1) /\ i \in 0..k
          BY <4>4
        <5>2. g[i] = h[i]
          BY <4>4, <5>1
        <5> HIDE DEF g
        <5> QED BY <3>1, <4>2, <5>1, <5>2
      <4> QED BY <4>3, <4>4
    <3> HIDE DEF g
    <3> QED BY <3>2, <3>3 DEF Turns
  <2> HIDE DEF g
  <2> QED BY <2>3, <2>4
<1> HIDE DEF Can
<1>3. X = {}
  <2> SUFFICES ASSUME X # {} PROVE FALSE
    OBVIOUS
  <2>1. PICK k \in X : \A j \in X : ~(<<j, k>> \in OpToRel(<, Nat))
    <3>1. X \subseteq Nat
      OBVIOUS
    <3> HIDE DEF X
    <3> QED BY <3>1, NatLessThanWellFounded, WFMin
  <2>2. k \in 0..n /\ ~Can(k)
    OBVIOUS
  <2>3. k # 0
    BY <1>1, <2>2
  <2>4. k \in 1..n /\ k - 1 \in 0..n /\ k - 1 < k /\ k - 1 \in Nat /\ k \in Nat
    BY <2>2, <2>3
  <2>5. k - 1 \notin X
    <3>1. <<k - 1, k>> \in OpToRel(<, Nat)
      BY <2>4 DEF OpToRel
    <3> HIDE DEF X
    <3> QED BY <2>1, <3>1
  <2> QED BY <1>2, <2>2, <2>4, <2>5
<1>4. n \in 0..n
  OBVIOUS
<1>5. Can(n)
  BY <1>3, <1>4
<1> QED BY <1>5 DEF Can

(* The loop goes through such states, from p to what it ends in.            *)
LEMMA ObeyTurns ==
  ASSUME NEW S, NEW p \in S, NEW b,
         LET text == CR!Text(b)
         IN  /\ Len(text) \in Nat
             /\ \A q \in S, i \in 1..Len(text) : CR!read_char(q, text[i]) \in S
  PROVE  LET text == CR!Text(b)
         IN  \E h \in [0..Len(text) -> S] :
               /\ h[0] = p
               /\ \A i \in 1..Len(text) : h[i] = CR!read_char(h[i - 1], text[i])
               /\ CR!obey(p, b) = h[Len(text)]
<1> DEFINE text == CR!Text(b)
           n == Len(text)
           F(f) == [i \in 0..n |->
                      IF i = 0 THEN {p} ELSE {CR!read_char(q, text[i]) : q \in f[i - 1]}]
           after == CHOOSE f : f = F(f)
           turn == [a \in S \X (1..n) |-> CR!read_char(a[1], text[a[2]])]
<1>1. CR!obey(p, b) = CHOOSE q \in after[n] : TRUE
  BY DEF CR!obey
<1>2. turn \in [S \X (1..n) -> S]
  <2>1. ASSUME NEW a \in S \X (1..n) PROVE CR!read_char(a[1], text[a[2]]) \in S
    OBVIOUS
  <2> QED BY <2>1
<1>3. \A q \in S, i \in 1..n : turn[<<q, i>>] = CR!read_char(q, text[i])
  OBVIOUS
<1>n. n \in Nat
  OBVIOUS
<1> HIDE DEF turn, text, n
<1>4. PICK h \in [0..n -> S] : Turns(h, p, turn, n)
  BY <1>2, <1>n, TurnsExist
<1>5. after = F(after)
  <2> DEFINE f == [i \in 0..n |-> {h[i]}]
  <2>1. ASSUME NEW i \in 0..n
        PROVE  f[i] = IF i = 0 THEN {p} ELSE {CR!read_char(q, text[i]) : q \in f[i - 1]}
    <3>1. CASE i = 0
      BY <1>4, <1>n, <3>1 DEF Turns
    <3>2. CASE i # 0
      <4>1. i - 1 \in 0..n /\ i \in 1..n
        BY <1>n, <3>2
      <4>2. f[i - 1] = {h[i - 1]} /\ h[i - 1] \in S
        BY <4>1
      <4>3. h[i] = CR!read_char(h[i - 1], text[i])
        BY <1>3, <1>4, <4>1, <4>2 DEF Turns
      <4>4. f[i] = {h[i]}
        OBVIOUS
      <4> HIDE DEF f
      <4> QED BY <3>2, <4>2, <4>3, <4>4
    <3> QED BY <3>1, <3>2
  <2>2. f = [i \in 0..n |-> f[i]]
    OBVIOUS
  <2>3. f = F(f)
    <3> HIDE DEF f
    <3> QED BY <2>1, <2>2
  <2> HIDE DEF f, F
  <2> QED BY <2>3
<1> DEFINE Inside(i) == after[i] = {h[i]}
           X == {i \in 0..n : ~Inside(i)}
<1>6. \A i \in 0..n :
         after[i] = IF i = 0 THEN {p} ELSE {CR!read_char(q, text[i]) : q \in after[i - 1]}
  <2> HIDE DEF after
  <2>1. PICK a : a = after
    OBVIOUS
  <2>2. a = F(a)
    BY <1>5, <2>1
  <2>3. \A i \in 0..n :
         a[i] = IF i = 0 THEN {p} ELSE {CR!read_char(q, text[i]) : q \in a[i - 1]}
    BY <2>2
  <2> QED BY <2>1, <2>3
<1> HIDE DEF after
<1>h. h[0] = p /\ \A i \in 1..n : h[i] = CR!read_char(h[i - 1], text[i])
  <2>1. ASSUME NEW i \in 1..n
        PROVE  h[i] = CR!read_char(h[i - 1], text[i])
    <3>1. i - 1 \in 0..n
      BY <1>n
    <3>2. h[i - 1] \in S
      BY <3>1
    <3> QED BY <1>3, <1>4, <3>2 DEF Turns
  <2> QED BY <1>4, <2>1 DEF Turns
<1>7. Inside(0)
  <2>1. 0 \in 0..n
    BY <1>n
  <2>2. after[0] = {p}
    BY <1>6, <2>1
  <2> QED BY <1>h, <2>2
<1>8. ASSUME NEW i \in 1..n, Inside(i - 1)
      PROVE  Inside(i)
  <2>1. i \in 0..n /\ i # 0
    BY <1>n
  <2>2. after[i] = {CR!read_char(q, text[i]) : q \in after[i - 1]}
    BY <1>6, <2>1
  <2> QED BY <1>h, <1>8, <2>2
<1> HIDE DEF Inside
<1>9. X = {}
  <2> SUFFICES ASSUME X # {} PROVE FALSE
    OBVIOUS
  <2>1. PICK k \in X : \A j \in X : ~(<<j, k>> \in OpToRel(<, Nat))
    <3>1. X \subseteq Nat
      BY <1>n
    <3> HIDE DEF X
    <3> QED BY <3>1, NatLessThanWellFounded, WFMin
  <2>2. k \in 0..n /\ ~Inside(k)
    OBVIOUS
  <2>3. k # 0
    BY <1>7, <2>2
  <2>4. k \in 1..n /\ k - 1 \in 0..n /\ k - 1 < k /\ k - 1 \in Nat /\ k \in Nat
    BY <1>n, <2>2, <2>3
  <2>5. k - 1 \notin X
    BY <2>1, <2>4 DEF OpToRel
  <2> QED BY <1>8, <2>2, <2>4, <2>5
<1>10. Inside(n)
  BY <1>9, <1>n
<1>11. CR!obey(p, b) = h[n]
  BY <1>1, <1>10 DEF Inside
<1> QED BY <1>4, <1>h, <1>11 DEF text, n

(* What every turn of the loop keeps in S, the loop keeps in S.             *)
LEMMA ObeyStays ==
  ASSUME NEW S, NEW p \in S, NEW b,
         LET text == CR!Text(b)
         IN  /\ Len(text) \in Nat
             /\ \A q \in S, i \in 1..Len(text) : CR!read_char(q, text[i]) \in S
  PROVE  CR!obey(p, b) \in S
<1>1. PICK n \in Nat : n = Len(CR!Text(b))
  OBVIOUS
<1>2. \E h \in [0..n -> S] : CR!obey(p, b) = h[n]
  BY <1>1, ObeyTurns
<1> QED BY <1>2
-----------------------------------------------------------------------------
(* The program's globals.                                                  *)

Programs ==
  [cur_cmd : Texts, should_stop : BOOLEAN, scale : {"C", "F"}, period : 0..MaxPeriod,
   should_log : BOOLEAN, log : Seq(Entries), out : Seq(Entries), exit : {Running, 0, 1}]

Switches == {STOP, START}
Scales == {SCALE("C"), SCALE("F")}

SwitchOf(log) == LastOf(log, Len(log), Switches, START)
ScaleOf(log, s) == LastOf(log, Len(log), Scales, SCALE(s))

(* The log, and what its last switch and its last scale are.                *)
LogSays(p, s, stop, scale) ==
  /\ ReportsObey(p.log, s)
  /\ p.should_log => /\ SwitchOf(p.log) = IF stop THEN STOP ELSE START
                     /\ ScaleOf(p.log, s) = SCALE(scale)
  /\ ~p.should_log => p.log = <<>>

Ends(file, exit) ==
  /\ \A i \in DOMAIN file : file[i].kind = "shutdown" => i = Len(file)
  /\ (exit = 0) <=> \E i \in DOMAIN file : file[i].kind = "shutdown"

EndsWell(p) == Ends(p.out, p.exit) /\ (p.should_log => Ends(p.log, p.exit))

Good(p, s) ==
  /\ p \in Programs
  /\ Len(p.cur_cmd) < CMDSIZE
  /\ EndsWell(p)
  /\ LogSays(p, s, p.should_stop, p.scale)

(* The commands that matter to a log are different lines.                   *)
LEMMA TheCommandsDiffer ==
  /\ STOP # START /\ OFF \notin Switches \cup Scales /\ Switches \cap Scales = {}
  /\ \A c, d : SCALE(c) = SCALE(d) => c = d
  /\ \A c : Tail(SCALE(c)) = <<c>>
<1>1. STOP[2] = "OP" /\ START[2] = "ART" /\ STOP[1] = "ST" /\ START[1] = "ST"
  BY DEF STOP, START
<1>2. OFF[1] = "OFF"
  BY DEF OFF
<1>3. \A c : SCALE(c)[1] = "SCALE=" /\ SCALE(c)[2] = c
  BY DEF SCALE
<1>4. \A c : Tail(SCALE(c)) = <<c>>
  BY DEF SCALE
<1> QED BY <1>1, <1>2, <1>3, <1>4 DEF Switches, Scales

(* What is written to the files is an entry.                                *)
LEMMA EntriesAre ==
  /\ \A line \in Texts : Command(line) \in Entries
  /\ \A c \in {"C", "F"} : Report(c) \in Entries
  /\ Shutdown \in Entries
BY DEF Entries, Texts, Pieces, Command, Report, Shutdown

(* One more entry in a file.                                               *)
LEMMA Appended ==
  ASSUME NEW file \in Seq(Entries), NEW e \in Entries
  PROVE  \/ WithEntry(file, e) = file /\ e.kind = "report"
         \/ /\ WithEntry(file, e) \in Seq(Entries)
            /\ Len(WithEntry(file, e)) = Len(file) + 1
            /\ WithEntry(file, e)[Len(WithEntry(file, e))] = e
            /\ \A i \in 1..Len(file) : WithEntry(file, e)[i] = file[i]
<1>1. (WithEntry(file, e) = file /\ e.kind = "report") \/ WithEntry(file, e) = Append(file, e)
  BY DEF WithEntry
<1>2. LET g == Append(file, e)
      IN  /\ g \in Seq(Entries) /\ Len(g) = Len(file) + 1 /\ g[Len(g)] = e
          /\ \A i \in 1..Len(file) : g[i] = file[i]
  OBVIOUS
<1> QED BY <1>1, <1>2

(* What one more entry does to a log that obeys: a report must be due in    *)
(* the scale last asked for.                                               *)
LEMMA LogGrows ==
  ASSUME NEW file \in Seq(Entries), NEW e \in Entries, NEW s, ReportsObey(file, s),
         e.kind = "report" => /\ SwitchOf(file) = START
                              /\ e.text = Tail(ScaleOf(file, s)),
         NEW g, g = WithEntry(file, e)
  PROVE  /\ g \in Seq(Entries)
         /\ ReportsObey(g, s)
         /\ SwitchOf(g) = IF IsCommand(e) /\ e.text \in Switches THEN e.text ELSE SwitchOf(file)
         /\ ScaleOf(g, s) = IF IsCommand(e) /\ e.text \in Scales THEN e.text ELSE ScaleOf(file, s)
<1>1. CASE g = file /\ e.kind = "report"
  BY <1>1 DEF IsCommand
<1>2. CASE /\ g \in Seq(Entries) /\ Len(g) = Len(file) + 1 /\ g[Len(g)] = e
           /\ \A i \in 1..Len(file) : g[i] = file[i]
  <2>1. /\ \A n \in 0..Len(file) : LastOf(g, n, Switches, START) = LastOf(file, n, Switches, START)
        /\ SwitchOf(g) = IF IsCommand(e) /\ e.text \in Switches THEN e.text ELSE SwitchOf(file)
    <3> HIDE DEF Switches
    <3> QED BY <1>2, LastOfAppend DEF SwitchOf
  <2>2. /\ \A n \in 0..Len(file) : LastOf(g, n, Scales, SCALE(s)) = LastOf(file, n, Scales, SCALE(s))
        /\ ScaleOf(g, s) = IF IsCommand(e) /\ e.text \in Scales THEN e.text ELSE ScaleOf(file, s)
    BY <1>2, LastOfAppend DEF ScaleOf
  <2>3. ASSUME NEW i \in DOMAIN g, g[i].kind = "report"
        PROVE  /\ LastOf(g, i, Switches, START) = START
               /\ g[i].text = Tail(LastOf(g, i, Scales, SCALE(s)))
    <3>1. i \in 1..Len(g) /\ Len(file) \in Nat
      BY <1>2
    <3>2. CASE i = Len(g)
      <4>1. e.kind = "report" /\ ~IsCommand(e)
        BY <1>2, <2>3, <3>2 DEF IsCommand
      <4>2. SwitchOf(g) = START /\ ScaleOf(g, s) = ScaleOf(file, s) /\ g[i].text = Tail(ScaleOf(file, s))
        BY <1>2, <2>1, <2>2, <3>2, <4>1
      <4> QED BY <3>2, <4>2 DEF SwitchOf, ScaleOf
    <3>3. CASE i # Len(g)
      <4>1. i \in 1..Len(file) /\ i \in 0..Len(file) /\ i \in DOMAIN file
        BY <1>2, <3>1, <3>3
      <4>2. g[i] = file[i]
        BY <1>2, <4>1
      <4>3. /\ LastOf(file, i, Switches, START) = START
            /\ file[i].text = Tail(LastOf(file, i, Scales, SCALE(s)))
        BY <2>3, <4>1, <4>2 DEF ReportsObey, Switches, Scales
      <4> QED BY <2>1, <2>2, <4>1, <4>2, <4>3
    <3> QED BY <3>2, <3>3
  <2>4. ReportsObey(g, s)
    BY <2>3 DEF ReportsObey, Switches, Scales
  <2> QED BY <1>2, <2>1, <2>2, <2>4
<1> QED BY <1>1, <1>2, Appended

(* A file that has no SHUTDOWN has none either after another entry.          *)
LEMMA EndsStay ==
  ASSUME NEW file \in Seq(Entries), NEW e \in Entries, NEW exit, Ends(file, exit), exit # 0
  PROVE  /\ e.kind # "shutdown" => Ends(WithEntry(file, e), exit)
         /\ e.kind = "shutdown" => Ends(WithEntry(file, e), 0)
<1> DEFINE g == WithEntry(file, e)
<1>1. \A i \in 1..Len(file) : file[i].kind # "shutdown"
  BY DEF Ends
<1>2. CASE g = file /\ e.kind = "report"
  BY <1>2
<1>3. CASE /\ g \in Seq(Entries) /\ Len(g) = Len(file) + 1 /\ g[Len(g)] = e
           /\ \A i \in 1..Len(file) : g[i] = file[i]
  <2> HIDE DEF g
  <2>1. \A i \in DOMAIN g : i \in 1..Len(g) /\ (i # Len(g) => i \in 1..Len(file))
    BY <1>3
  <2>2. \A i \in DOMAIN g : i # Len(g) => g[i].kind # "shutdown"
    BY <1>1, <1>3, <2>1
  <2>3. Len(g) \in DOMAIN g
    BY <1>3
  <2>4. e.kind # "shutdown" => Ends(g, exit)
    BY <1>3, <2>2 DEF Ends
  <2>5. e.kind = "shutdown" => Ends(g, 0)
    BY <1>3, <2>2, <2>3 DEF Ends
  <2> QED BY <2>4, <2>5 DEF g
<1> QED BY <1>2, <1>3, Appended
-----------------------------------------------------------------------------
(* What the functions do to the globals.                                   *)

StopAfter(e, stop) ==
  IF IsCommand(e) /\ e.text = STOP THEN TRUE
  ELSE IF IsCommand(e) /\ e.text = START THEN FALSE ELSE stop

ScaleAfter(e, scale) ==
  IF IsCommand(e) /\ e.text = SCALE("C") THEN "C"
  ELSE IF IsCommand(e) /\ e.text = SCALE("F") THEN "F" ELSE scale

ExitAfter(e, exit) == IF e.kind = "shutdown" THEN 0 ELSE exit

(* p and q have the same values but for their files.                        *)
SameButFiles(p, q) ==
  /\ q.cur_cmd = p.cur_cmd /\ q.should_stop = p.should_stop /\ q.scale = p.scale
  /\ q.period = p.period /\ q.should_log = p.should_log /\ q.exit = p.exit

(* just_log().                                                             *)
LEMMA JustLogs ==
  ASSUME NEW p \in Programs, NEW e \in Entries, NEW s, NEW stop \in BOOLEAN,
         NEW scale \in {"C", "F"}, LogSays(p, s, stop, scale),
         p.should_log => Ends(p.log, p.exit), p.exit # 0,
         e.kind = "report" => ~stop /\ e = Report(scale),
         NEW q, q = just_log(p, e)
  PROVE  /\ q \in Programs /\ SameButFiles(p, q) /\ q.out = p.out
         /\ LogSays(q, s, StopAfter(e, stop), ScaleAfter(e, scale))
         /\ q.should_log => Ends(q.log, ExitAfter(e, p.exit))
<1>0. p.log \in Seq(Entries) /\ p.should_log \in BOOLEAN
  BY DEF Programs
<1>1. CASE ~p.should_log
  <2>1. q = p
    BY <1>1 DEF just_log
  <2> QED BY <1>1, <2>1 DEF LogSays, SameButFiles
<1>2. CASE p.should_log
  <2>1. PICK g : g = WithEntry(p.log, e)
    OBVIOUS
  <2>2. /\ ReportsObey(p.log, s)
        /\ SwitchOf(p.log) = IF stop THEN STOP ELSE START
        /\ ScaleOf(p.log, s) = SCALE(scale)
    BY <1>2 DEF LogSays
  <2>3. e.kind = "report" => SwitchOf(p.log) = START /\ e.text = Tail(ScaleOf(p.log, s))
    <3>1. SUFFICES ASSUME e.kind = "report"
                   PROVE  SwitchOf(p.log) = START /\ e.text = Tail(ScaleOf(p.log, s))
      OBVIOUS
    <3>2. e.text = <<scale>>
      BY <3>1 DEF Report
    <3>3. Tail(ScaleOf(p.log, s)) = <<scale>>
      BY <2>2, TheCommandsDiffer
    <3>4. SwitchOf(p.log) = START
      BY <2>2, <3>1
    <3> QED BY <3>2, <3>3, <3>4
  <2>4. /\ g \in Seq(Entries) /\ ReportsObey(g, s)
        /\ SwitchOf(g) = IF IsCommand(e) /\ e.text \in Switches THEN e.text ELSE SwitchOf(p.log)
        /\ ScaleOf(g, s) = IF IsCommand(e) /\ e.text \in Scales THEN e.text ELSE ScaleOf(p.log, s)
    BY <1>0, <2>1, <2>2, <2>3, LogGrows
  <2>5. q = [p EXCEPT !.log = g]
    BY <1>2, <2>1 DEF just_log
  <2>6. q \in Programs /\ SameButFiles(p, q) /\ q.out = p.out /\ q.log = g
    BY <2>4, <2>5 DEF Programs, SameButFiles
  <2>7. SwitchOf(g) = IF StopAfter(e, stop) THEN STOP ELSE START
    BY <2>2, <2>4, TheCommandsDiffer DEF StopAfter, Switches
  <2>8. ScaleOf(g, s) = SCALE(ScaleAfter(e, scale))
    BY <2>2, <2>4, TheCommandsDiffer DEF ScaleAfter, Scales
  <2>9. LogSays(q, s, StopAfter(e, stop), ScaleAfter(e, scale))
    BY <1>2, <2>4, <2>6, <2>7, <2>8 DEF LogSays, SameButFiles
  <2>10. Ends(g, ExitAfter(e, p.exit))
    <3>1. Ends(p.log, p.exit)
      BY <1>2
    <3>2. /\ e.kind # "shutdown" => Ends(WithEntry(p.log, e), p.exit)
          /\ e.kind = "shutdown" => Ends(WithEntry(p.log, e), 0)
      BY <1>0, <3>1, EndsStay
    <3> QED BY <2>1, <3>2 DEF ExitAfter
  <2> QED BY <2>6, <2>9, <2>10
<1> QED BY <1>0, <1>1, <1>2

(* print_and_log().                                                        *)
LEMMA PrintsAndLogs ==
  ASSUME NEW p \in Programs, NEW e \in Entries, NEW s, NEW stop \in BOOLEAN,
         NEW scale \in {"C", "F"}, LogSays(p, s, stop, scale), EndsWell(p), p.exit # 0,
         e.kind = "report" => ~stop /\ e = Report(scale),
         NEW q, q = print_and_log(p, e)
  PROVE  /\ q \in Programs /\ SameButFiles(p, q)
         /\ LogSays(q, s, StopAfter(e, stop), ScaleAfter(e, scale))
         /\ q.should_log => Ends(q.log, ExitAfter(e, p.exit))
         /\ Ends(q.out, ExitAfter(e, p.exit))
<1>0. p.out \in Seq(Entries) /\ p.should_log \in BOOLEAN
  BY DEF Programs
<1>1. PICK g : g = WithEntry(p.out, e)
  OBVIOUS
<1>2. PICK r : r = [p EXCEPT !.out = g]
  OBVIOUS
<1>3. q = just_log(r, e)
  BY <1>1, <1>2 DEF print_and_log
<1>4. g \in Seq(Entries)
  BY <1>0, <1>1, Appended
<1>5. r \in Programs /\ SameButFiles(p, r) /\ r.log = p.log /\ r.out = g
  BY <1>2, <1>4 DEF Programs, SameButFiles
<1>6. LogSays(r, s, stop, scale) /\ (r.should_log => Ends(r.log, r.exit)) /\ r.exit # 0
  BY <1>5 DEF LogSays, EndsWell, SameButFiles
<1>7. /\ q \in Programs /\ SameButFiles(r, q) /\ q.out = r.out
      /\ LogSays(q, s, StopAfter(e, stop), ScaleAfter(e, scale))
      /\ q.should_log => Ends(q.log, ExitAfter(e, r.exit))
  BY <1>3, <1>5, <1>6, JustLogs
<1>8. Ends(g, ExitAfter(e, p.exit))
  <2>1. Ends(p.out, p.exit)
    BY DEF EndsWell
  <2>2. /\ e.kind # "shutdown" => Ends(WithEntry(p.out, e), p.exit)
        /\ e.kind = "shutdown" => Ends(WithEntry(p.out, e), 0)
    BY <1>0, <2>1, EndsStay
  <2> QED BY <1>1, <2>2 DEF ExitAfter
<1> QED BY <1>5, <1>7, <1>8 DEF SameButFiles

(* The copies of SensorLog's operators inside CR are the same operators.    *)
LEMMA SameOperators ==
  /\ \A p, e : CR!just_log(p, e) = just_log(p, e)
  /\ \A line : CR!Command(line) = Command(line)
  /\ \A c : CR!Report(c) = Report(c)
  /\ \A p, status : CR!myexit(p, status) = myexit(p, status)
  /\ CR!Shutdown = Shutdown /\ CR!OFF = OFF /\ CR!STOP = STOP /\ CR!START = START
  /\ \A c : CR!SCALE(c) = SCALE(c)
  /\ CR!Running = Running
<1>1. \A file, e : CR!WithEntry(file, e) = WithEntry(file, e)
  BY DEF CR!WithEntry, WithEntry, CR!Last, Last
<1>2. \A p, e : CR!just_log(p, e) = just_log(p, e)
  BY <1>1 DEF CR!just_log, just_log
<1>3. CR!Running = Running
  BY DEF CR!Running, Running
<1>4. \A p, status : CR!myexit(p, status) = myexit(p, status)
  BY <1>3 DEF CR!myexit, myexit
<1>5. /\ \A line : CR!Command(line) = Command(line)
      /\ \A c : CR!Report(c) = Report(c)
      /\ CR!Shutdown = Shutdown
  BY DEF CR!Command, Command, CR!Report, Report, CR!Shutdown, Shutdown
<1>6. CR!OFF = OFF /\ CR!STOP = STOP /\ CR!START = START /\ \A c : CR!SCALE(c) = SCALE(c)
  BY DEF CR!OFF, OFF, CR!STOP, STOP, CR!START, START, CR!SCALE, SCALE
<1> QED BY <1>2, <1>3, <1>4, <1>5, <1>6

(* report_temp(), when should_stop is 0.                                   *)
LEMMA ReportTempIsGood ==
  ASSUME NEW p, NEW s, Good(p, s), p.exit = Running, ~p.should_stop,
         NEW q, q = CR!report_temp(p)
  PROVE  Good(q, s) /\ q.exit = Running
<1>1. q = print_and_log(p, Report(p.scale))
  BY SameOperators DEF CR!report_temp
<1>a. p \in Programs
  BY DEF Good
<1>b. p.scale \in {"C", "F"} /\ p.should_stop \in BOOLEAN
  BY <1>a DEF Programs
<1>2. p.scale \in {"C", "F"} /\ p.should_stop \in BOOLEAN /\ p \in Programs
  BY <1>a, <1>b
<1>3. PICK e : e = Report(p.scale)
  OBVIOUS
<1>4. e \in Entries /\ e.kind = "report" /\ ~IsCommand(e)
  BY <1>2, <1>3, EntriesAre DEF Report, IsCommand
<1>5. p.exit # 0
  BY DEF Running
<1>6. EndsWell(p) /\ LogSays(p, s, p.should_stop, p.scale)
  BY DEF Good
<1>7. /\ q \in Programs /\ SameButFiles(p, q)
      /\ LogSays(q, s, StopAfter(e, p.should_stop), ScaleAfter(e, p.scale))
      /\ q.should_log => Ends(q.log, ExitAfter(e, p.exit))
      /\ Ends(q.out, ExitAfter(e, p.exit))
  BY <1>1, <1>2, <1>3, <1>4, <1>5, <1>6, PrintsAndLogs
<1>8. /\ StopAfter(e, p.should_stop) = p.should_stop /\ ScaleAfter(e, p.scale) = p.scale
      /\ ExitAfter(e, p.exit) = p.exit
  BY <1>4 DEF StopAfter, ScaleAfter, ExitAfter
<1> QED BY <1>7, <1>8 DEF Good, SameButFiles, EndsWell

(* print_and_log("SHUTDOWN") and exit(0).                                  *)
LEMMA ShutdownIsGood ==
  ASSUME NEW p \in Programs, NEW s, NEW stop \in BOOLEAN, NEW scale \in {"C", "F"},
         LogSays(p, s, stop, scale), EndsWell(p), p.exit = Running,
         NEW q, q = myexit(print_and_log(p, Shutdown), 0)
  PROVE  /\ q \in Programs /\ q.exit = 0 /\ EndsWell(q) /\ LogSays(q, s, stop, scale)
         /\ q.cur_cmd = p.cur_cmd /\ q.should_stop = p.should_stop /\ q.scale = p.scale
<1>1. PICK r : r = print_and_log(p, Shutdown)
  OBVIOUS
<1>2. Shutdown \in Entries /\ Shutdown.kind = "shutdown" /\ ~IsCommand(Shutdown)
  BY EntriesAre DEF Shutdown, IsCommand
<1>3. p.exit # 0
  BY DEF Running
<1>4. /\ r \in Programs /\ SameButFiles(p, r)
      /\ LogSays(r, s, StopAfter(Shutdown, stop), ScaleAfter(Shutdown, scale))
      /\ r.should_log => Ends(r.log, ExitAfter(Shutdown, p.exit))
      /\ Ends(r.out, ExitAfter(Shutdown, p.exit))
  BY <1>1, <1>2, <1>3, PrintsAndLogs
<1>5. /\ StopAfter(Shutdown, stop) = stop /\ ScaleAfter(Shutdown, scale) = scale
      /\ ExitAfter(Shutdown, p.exit) = 0
  BY <1>2 DEF StopAfter, ScaleAfter, ExitAfter
<1>6. q = [r EXCEPT !.exit = 0]
  BY <1>1, <1>4 DEF myexit, SameButFiles
<1>7. q \in Programs /\ q.exit = 0 /\ q.log = r.log /\ q.out = r.out /\ q.should_log = r.should_log
      /\ q.cur_cmd = r.cur_cmd /\ q.should_stop = r.should_stop /\ q.scale = r.scale
  BY <1>4, <1>6 DEF Programs
<1>8. LogSays(q, s, stop, scale)
  BY <1>4, <1>5, <1>7 DEF LogSays
<1>9. EndsWell(q)
  BY <1>4, <1>5, <1>7 DEF EndsWell
<1> QED BY <1>4, <1>7, <1>8, <1>9 DEF SameButFiles

(* A program that differs from r in the settings that the log asks for, or  *)
(* in the line that is read and the period.                                *)
LEMMA Settles ==
  ASSUME NEW r \in Programs, NEW s, NEW stop, NEW scale, EndsWell(r),
         LogSays(r, s, stop, scale),
         NEW q \in Programs, q.log = r.log, q.out = r.out, q.should_log = r.should_log,
         q.exit = r.exit, q.should_stop = stop, q.scale = scale, Len(q.cur_cmd) < CMDSIZE
  PROVE  Good(q, s)
<1>1. EndsWell(q)
  BY DEF EndsWell
<1>2. LogSays(q, s, q.should_stop, q.scale)
  BY DEF LogSays
<1> QED BY <1>1, <1>2 DEF Good

(* The commands are told apart.                                            *)
LEMMA CommandsApart ==
  /\ OFF # STOP /\ OFF # START /\ STOP # START
  /\ \A c : OFF # SCALE(c) /\ STOP # SCALE(c) /\ START # SCALE(c)
  /\ SCALE("C") # SCALE("F")
  /\ \A cmd : cmd[1] = "PERIOD=" =>
       /\ cmd # OFF /\ cmd # STOP /\ cmd # START
       /\ cmd # SCALE("C") /\ cmd # SCALE("F")
<1>1. STOP[2] = "OP" /\ START[2] = "ART" /\ STOP[1] = "ST" /\ START[1] = "ST"
  BY DEF STOP, START
<1>2. OFF[1] = "OFF"
  BY DEF OFF
<1>3. \A c : SCALE(c)[1] = "SCALE=" /\ SCALE(c)[2] = c
  BY DEF SCALE
<1> QED BY <1>1, <1>2, <1>3

(* proc_cur_cmd().                                                         *)
LEMMA ProcIsGood ==
  ASSUME NEW p, NEW s, Good(p, s), p.exit = Running,
         NEW q, q = CR!proc_cur_cmd(p)
  PROVE  Good(q, s)
<1>a. p \in Programs /\ EndsWell(p) /\ LogSays(p, s, p.should_stop, p.scale)
      /\ Len(p.cur_cmd) < CMDSIZE
  BY DEF Good
<1>b. p.should_stop \in BOOLEAN /\ p.scale \in {"C", "F"} /\ p.cur_cmd \in Texts
  BY <1>a DEF Programs
<1>c. PICK c : c = p.cur_cmd
  OBVIOUS
<1>d. PICK e : e = Command(c)
  OBVIOUS
<1>e. e \in Entries /\ IsCommand(e) /\ e.text = c /\ e.kind # "report" /\ e.kind # "shutdown"
  BY <1>b, <1>c, <1>d, EntriesAre DEF Command, IsCommand
<1>f. PICK r : r = just_log(p, e)
  OBVIOUS
<1>g. p.exit # 0 /\ (p.should_log => Ends(p.log, p.exit))
  BY <1>a DEF Running, EndsWell
<1>h. /\ r \in Programs /\ SameButFiles(p, r) /\ r.out = p.out
      /\ LogSays(r, s, StopAfter(e, p.should_stop), ScaleAfter(e, p.scale))
      /\ r.should_log => Ends(r.log, ExitAfter(e, p.exit))
  BY <1>a, <1>b, <1>e, <1>f, <1>g, JustLogs
<1>i. EndsWell(r)
  BY <1>a, <1>e, <1>h DEF EndsWell, SameButFiles, ExitAfter
<1>j. r.cur_cmd = c /\ Len(c) < CMDSIZE /\ r.exit = Running
  BY <1>a, <1>c, <1>h DEF SameButFiles
<1>k. r.should_stop = p.should_stop /\ r.scale = p.scale
  BY <1>h DEF SameButFiles
<1>l. q = CASE c = OFF -> myexit(print_and_log(r, Shutdown), 0)
            [] c = STOP -> [r EXCEPT !.should_stop = TRUE]
            [] c = START -> [r EXCEPT !.should_stop = FALSE]
            [] c = SCALE("F") -> [r EXCEPT !.scale = "F"]
            [] c = SCALE("C") -> [r EXCEPT !.scale = "C"]
            [] Len(c) > 1 /\ c[1] = "PERIOD=" -> [r EXCEPT !.period = CR!atoi(Tail(c))]
            [] OTHER -> r
  <2>1. r = CR!just_log(p, CR!Command(p.cur_cmd))
    BY <1>c, <1>d, <1>f, SameOperators
  <2> QED BY <1>c, <2>1, SameOperators DEF CR!proc_cur_cmd
<1>m. LogSays(r, s, StopAfter(e, r.should_stop), ScaleAfter(e, r.scale))
  BY <1>h, <1>k
<1>n. r.should_stop \in BOOLEAN /\ r.scale \in {"C", "F"}
  BY <1>b, <1>k
<1>1. CASE c = OFF
  <2>1. q = myexit(print_and_log(r, Shutdown), 0)
    BY <1>1, <1>l, CommandsApart
  <2>2. LogSays(r, s, r.should_stop, r.scale)
    BY <1>1, <1>e, <1>m, CommandsApart DEF StopAfter, ScaleAfter
  <2>3. /\ q \in Programs /\ q.exit = 0 /\ EndsWell(q) /\ LogSays(q, s, r.should_stop, r.scale)
        /\ q.cur_cmd = r.cur_cmd /\ q.should_stop = r.should_stop /\ q.scale = r.scale
    BY <1>h, <1>i, <1>j, <1>n, <2>1, <2>2, ShutdownIsGood
  <2> QED BY <1>j, <2>3 DEF Good
<1>2. CASE c = STOP
  <2>1. q = [r EXCEPT !.should_stop = TRUE]
    BY <1>2, <1>l, CommandsApart
  <2>2. /\ q \in Programs /\ q.log = r.log /\ q.out = r.out /\ q.should_log = r.should_log
        /\ q.exit = r.exit /\ q.should_stop = TRUE /\ q.scale = r.scale /\ q.cur_cmd = r.cur_cmd
    BY <1>h, <2>1 DEF Programs
  <2>3. LogSays(r, s, TRUE, r.scale)
    BY <1>2, <1>e, <1>m, CommandsApart DEF StopAfter, ScaleAfter
  <2> QED BY <1>h, <1>i, <1>j, <2>2, <2>3, Settles
<1>3. CASE c = START
  <2>1. q = [r EXCEPT !.should_stop = FALSE]
    BY <1>3, <1>l, CommandsApart
  <2>2. /\ q \in Programs /\ q.log = r.log /\ q.out = r.out /\ q.should_log = r.should_log
        /\ q.exit = r.exit /\ q.should_stop = FALSE /\ q.scale = r.scale /\ q.cur_cmd = r.cur_cmd
    BY <1>h, <2>1 DEF Programs
  <2>3. LogSays(r, s, FALSE, r.scale)
    BY <1>3, <1>e, <1>m, CommandsApart DEF StopAfter, ScaleAfter
  <2> QED BY <1>h, <1>i, <1>j, <2>2, <2>3, Settles
<1>4. ASSUME NEW d \in {"C", "F"}, c = SCALE(d)
      PROVE  Good(q, s)
  <2>1. q = [r EXCEPT !.scale = d]
    BY <1>4, <1>l, CommandsApart
  <2>2. /\ q \in Programs /\ q.log = r.log /\ q.out = r.out /\ q.should_log = r.should_log
        /\ q.exit = r.exit /\ q.should_stop = r.should_stop /\ q.scale = d /\ q.cur_cmd = r.cur_cmd
    BY <1>4, <1>h, <2>1 DEF Programs
  <2>3. LogSays(r, s, r.should_stop, d)
    BY <1>4, <1>e, <1>m, CommandsApart DEF StopAfter, ScaleAfter
  <2> QED BY <1>h, <1>i, <1>j, <2>2, <2>3, Settles
<1>5. ASSUME c # OFF, c # STOP, c # START, c # SCALE("C"), c # SCALE("F")
      PROVE  Good(q, s)
  <2>1. LogSays(r, s, r.should_stop, r.scale)
    BY <1>5, <1>e, <1>m DEF StopAfter, ScaleAfter
  <2>2. q = r \/ \E period \in 0..MaxPeriod : q = [r EXCEPT !.period = period]
    <3>1. CR!atoi(Tail(c)) \in 0..MaxPeriod
      <4>1. CR!atoi(Tail(c)) \in {0, 1, 2}
        BY DEF CR!atoi
      <4> QED BY <4>1, PeriodsAssumption
    <3>2. q = r \/ q = [r EXCEPT !.period = CR!atoi(Tail(c))]
      BY <1>5, <1>l
    <3> QED BY <3>1, <3>2
  <2>3. /\ q \in Programs /\ q.log = r.log /\ q.out = r.out /\ q.should_log = r.should_log
        /\ q.exit = r.exit /\ q.should_stop = r.should_stop /\ q.scale = r.scale /\ q.cur_cmd = r.cur_cmd
    BY <1>h, <2>2 DEF Programs
  <2> QED BY <1>h, <1>i, <1>j, <2>1, <2>3, Settles
<1> QED BY <1>1, <1>2, <1>3, <1>4, <1>5

(* The exit on failure.                                                    *)
LEMMA ExitOneIsGood ==
  ASSUME NEW p, NEW s, Good(p, s), p.exit = Running, NEW q, q = myexit(p, 1)
  PROVE  Good(q, s)
<1>a. p \in Programs /\ EndsWell(p) /\ LogSays(p, s, p.should_stop, p.scale)
      /\ Len(p.cur_cmd) < CMDSIZE
  BY DEF Good
<1>1. q = [p EXCEPT !.exit = 1]
  BY DEF myexit
<1>2. /\ q \in Programs /\ q.log = p.log /\ q.out = p.out /\ q.should_log = p.should_log
      /\ q.exit = 1 /\ q.should_stop = p.should_stop /\ q.scale = p.scale /\ q.cur_cmd = p.cur_cmd
  BY <1>a, <1>1 DEF Programs
<1>3. EndsWell(q)
  BY <1>a, <1>2 DEF EndsWell, Ends, Running
<1>4. LogSays(q, s, q.should_stop, q.scale)
  BY <1>a, <1>2 DEF LogSays
<1> QED BY <1>a, <1>2, <1>3, <1>4 DEF Good

(* One turn of read_command().                                             *)
LEMMA ReadCharIsGood ==
  ASSUME NEW p, NEW s, Good(p, s), NEW ch \in Pieces,
         NEW q, q = CR!read_char(p, ch)
  PROVE  Good(q, s)
<1>a. p \in Programs /\ EndsWell(p) /\ LogSays(p, s, p.should_stop, p.scale)
      /\ Len(p.cur_cmd) < CMDSIZE /\ CMDSIZE \in Nat \ {0}
  BY SizesAssumption DEF Good
<1>b. p.cur_cmd \in Seq(Pieces) /\ p.exit \in {Running, 0, 1}
  BY <1>a DEF Programs, Texts
<1>1. CASE q = p
  BY <1>1
<1>2. CASE p.exit = Running /\ q = [CR!proc_cur_cmd(p) EXCEPT !.cur_cmd = <<>>]
  <2>1. PICK r : r = CR!proc_cur_cmd(p)
    OBVIOUS
  <2>2. Good(r, s)
    BY <1>2, <2>1, ProcIsGood
  <2>3. r \in Programs /\ EndsWell(r) /\ LogSays(r, s, r.should_stop, r.scale)
    BY <2>2 DEF Good
  <2>4. <<>> \in Texts /\ Len(<<>>) = 0
    BY DEF Texts
  <2>5. q = [r EXCEPT !.cur_cmd = <<>>]
    BY <1>2, <2>1
  <2>6. /\ q \in Programs /\ q.log = r.log /\ q.out = r.out /\ q.should_log = r.should_log
        /\ q.exit = r.exit /\ q.should_stop = r.should_stop /\ q.scale = r.scale /\ q.cur_cmd = <<>>
    BY <2>3, <2>4, <2>5 DEF Programs
  <2>7. Len(q.cur_cmd) < CMDSIZE
    BY <1>a, <2>4, <2>6
  <2> QED BY <2>3, <2>6, <2>7, Settles
<1>3. CASE p.exit = Running /\ q = myexit(p, 1)
  BY <1>3, ExitOneIsGood
<1>4. CASE ~(Len(p.cur_cmd) > CMDSIZE - 2) /\ q = [p EXCEPT !.cur_cmd = Append(@, ch)]
  <2>1. Append(p.cur_cmd, ch) \in Texts /\ Len(Append(p.cur_cmd, ch)) = Len(p.cur_cmd) + 1
        /\ Len(p.cur_cmd) \in Nat
    BY <1>b DEF Texts
  <2>2. /\ q \in Programs /\ q.log = p.log /\ q.out = p.out /\ q.should_log = p.should_log
        /\ q.exit = p.exit /\ q.should_stop = p.should_stop /\ q.scale = p.scale
        /\ q.cur_cmd = Append(p.cur_cmd, ch)
    BY <1>4, <1>a, <2>1 DEF Programs
  <2>3. Len(q.cur_cmd) < CMDSIZE
    BY <1>4, <1>a, <2>1, <2>2
  <2> QED BY <1>a, <2>2, <2>3, Settles
<1> QED BY <1>1, <1>2, <1>3, <1>4, SameOperators DEF CR!read_char
-----------------------------------------------------------------------------
(* The buffer of read_command().                                           *)

(* Min of two numbers.                                                     *)
LEMMA MinIs ==
  ASSUME NEW a \in Int, NEW b \in Int
  PROVE  Min({a, b}) = IF a <= b THEN a ELSE b
<1>1. \E x \in {a, b} : \A y \in {a, b} : x <= y
  OBVIOUS
<1>2. Min({a, b}) = CHOOSE x \in {a, b} : \A y \in {a, b} : x <= y
  BY DEF Min
<1>3. PICK m : m = Min({a, b})
  OBVIOUS
<1>4. m \in {a, b} /\ m <= a /\ m <= b
  BY <1>1, <1>2, <1>3
<1> QED BY <1>3, <1>4

(* read() leaves a buffer of the same length.                               *)
LEMMA FilledIs ==
  ASSUME NEW old \in Texts, Len(old) = BUFSIZ, NEW data \in Texts, Len(data) <= BUFSIZ,
         NEW b \in CR!Filled(old, data)
  PROVE  b \in Texts /\ Len(b) = BUFSIZ
<1>a. BUFSIZ \in Nat /\ Len(data) \in Nat
  BY SizesAssumption DEF Texts
<1>1. PICK rest \in {old, [i \in DOMAIN old |-> CR!NUL]} :
         b = data \o SubSeq(rest, Len(data) + 1, Len(old))
  BY DEF CR!Filled
<1>2. rest \in Texts /\ Len(rest) = BUFSIZ
  <2>1. CASE rest = old
    BY <2>1
  <2>2. CASE rest = [i \in DOMAIN old |-> CR!NUL]
    <3>1. DOMAIN old = 1..BUFSIZ
      BY DEF Texts
    <3>2. CR!NUL \in Pieces
      BY DEF Pieces
    <3>3. rest \in [1..BUFSIZ -> Pieces]
      BY <2>2, <3>1, <3>2
    <3> QED BY <1>a, <3>3 DEF Texts
  <2> QED BY <1>1, <2>1, <2>2
<1>3. PICK end : end = SubSeq(rest, Len(data) + 1, BUFSIZ)
  OBVIOUS
<1>4. end \in Texts /\ Len(end) = BUFSIZ - Len(data)
  BY <1>2, <1>3, <1>a DEF Texts
<1>5. b = data \o end
  BY <1>1, <1>3
<1>6. ASSUME NEW u \in Seq(Pieces), NEW v \in Seq(Pieces)
      PROVE  u \o v \in Seq(Pieces) /\ Len(u \o v) = Len(u) + Len(v)
  OBVIOUS
<1>7. data \o end \in Seq(Pieces) /\ Len(data \o end) = Len(data) + Len(end)
  BY <1>4, <1>6 DEF Texts
<1>8. Len(data) + Len(end) = BUFSIZ
  BY <1>4, <1>a
<1> QED BY <1>5, <1>7, <1>8 DEF Texts

(* A set of places has a first one, or is empty.                            *)
LEMMA MinIsIn ==
  ASSUME NEW n \in Nat, NEW S \in SUBSET (1..n), S # {}
  PROVE  Min(S) \in S
<1>1. PICK m \in S : \A i \in S : ~(<<i, m>> \in OpToRel(<, Nat))
  <2>1. S \subseteq Nat
    OBVIOUS
  <2> QED BY <2>1, NatLessThanWellFounded, WFMin
<1>2. ASSUME NEW i \in S
      PROVE  m <= i
  <2>1. i \in Nat /\ m \in Nat
    OBVIOUS
  <2>2. ~(i < m)
    BY <1>1, <2>1 DEF OpToRel
  <2> QED BY <2>1, <2>2
<1>3. \E x \in S : \A y \in S : x <= y
  BY <1>2
<1> QED BY <1>3 DEF Min

(* The loop reads pieces.                                                   *)
LEMMA TextIs ==
  ASSUME NEW b \in Texts
  PROVE  CR!Text(b) \in Texts
<1> DEFINE I == {i \in 1..Len(b) : b[i] = CR!NUL}
           nul == IF I # {} THEN CR!Min(I) ELSE 0
<1>1. CR!Text(b) = IF nul = 0 THEN b ELSE SubSeq(b, 1, nul - 1)
  BY DEF CR!Text, CR!SelectInSeq
<1>2. nul \in 0..Len(b)
  <2>1. I \in SUBSET (1..Len(b)) /\ Len(b) \in Nat
    BY DEF Texts
  <2> HIDE DEF I
  <2>2. CR!Min(I) = Min(I)
    BY DEF CR!Min, Min
  <2>3. I # {} => Min(I) \in 1..Len(b)
    BY <2>1, MinIsIn
  <2> QED BY <2>1, <2>2, <2>3
<1> HIDE DEF nul
<1> QED BY <1>1, <1>2 DEF Texts
-----------------------------------------------------------------------------
(* The inductive invariant: the globals are good, the program runs unless it *)
(* is done, and the buffer and the input have their types.                  *)

Inv ==
  /\ \E s \in {"C", "F"} : Good(prog, s)
  /\ pc # "done" => prog.exit = Running
  /\ buf \in Texts /\ Len(buf) = BUFSIZ
  /\ script \in Texts /\ typed \in 0..Len(script) /\ taken \in 0..typed

(* The program starts in it.                                                *)
LEMMA InitInv == Init => Inv
<1> SUFFICES ASSUME Init PROVE Inv
  OBVIOUS
<1>0. prog \in Globals /\ buf \in Leftovers /\ script \in Scripts /\ typed = 0 /\ taken = 0
  BY DEF Init
<1>1. /\ prog.cur_cmd = <<>> /\ prog.should_stop = FALSE /\ prog.scale \in {"C", "F"}
      /\ prog.log = <<>> /\ prog.out = <<>> /\ prog.exit = Running
  BY <1>0, OptionsAssumption DEF Globals
<1>2. prog \in Programs
  <2>1. <<>> \in Texts /\ <<>> \in Seq(Entries)
    BY DEF Texts
  <2> QED BY <1>0, <2>1, OptionsAssumption, PeriodsAssumption DEF Globals, Programs
<1>3. PICK s \in {"C", "F"} : s = prog.scale
  BY <1>1
<1>4. Len(<<>>) = 0 /\ DOMAIN <<>> = {}
  OBVIOUS
<1>5. EndsWell(prog)
  BY <1>1, <1>4 DEF EndsWell, Ends, Running
<1>6. LastOf(<<>>, 0, Switches, START) = START /\ LastOf(<<>>, 0, Scales, SCALE(s)) = SCALE(s)
  <2>1. \A choices : At(<<>>, 0, choices) = {}
    BY DEF At
  <2>2. PICK none : none = <<>>
    OBVIOUS
  <2>3. \A choices : At(none, 0, choices) = {}
    BY <2>1, <2>2
  <2>4. ASSUME NEW choices, NEW default
        PROVE  LastOf(none, 0, choices, default) = default
    <3>1. PICK n \in Nat : n = 0
      OBVIOUS
    <3>2. At(none, n, choices) = {}
      BY <2>3, <3>1
    <3>3. LastOf(none, n, choices, default) = default
      BY <3>2, LastOfNone
    <3> QED BY <3>1, <3>3
  <2> QED BY <2>2, <2>4
<1>7. LogSays(prog, s, prog.should_stop, prog.scale)
  BY <1>1, <1>3, <1>4, <1>6 DEF LogSays, ReportsObey, SwitchOf, ScaleOf
<1>8. Len(prog.cur_cmd) < CMDSIZE
  BY <1>1, <1>4, SizesAssumption
<1>9. buf \in Texts /\ Len(buf) = BUFSIZ /\ script \in Texts
  <2>1. \A t \in Seq(STRING) : t \in Texts
    BY DEF Texts, Pieces
  <2> QED BY <1>0, <2>1, TextsAssumption
<1>10. typed \in 0..Len(script) /\ taken \in 0..typed
  BY <1>0, <1>9 DEF Texts
<1>11. Good(prog, s)
  BY <1>2, <1>5, <1>7, <1>8 DEF Good
<1> QED BY <1>1, <1>9, <1>10, <1>11 DEF Inv

(* Every step keeps it.                                                    *)
LEMMA InvKept == Inv /\ [Next]_vars => Inv'
<1> SUFFICES ASSUME Inv, [Next]_vars PROVE Inv'
  OBVIOUS
<1>a. PICK s \in {"C", "F"} : Good(prog, s)
  BY DEF Inv
<1>b. /\ pc # "done" => prog.exit = Running
      /\ buf \in Texts /\ Len(buf) = BUFSIZ
      /\ script \in Texts /\ typed \in 0..Len(script) /\ taken \in 0..typed
  BY DEF Inv
<1>c. prog \in Programs /\ Len(script) \in Nat /\ BUFSIZ \in Nat /\ typed \in Nat /\ taken \in Nat
  BY <1>a, <1>b, SizesAssumption DEF Good, Texts
<1>1. CASE InitSensors
  <2>1. Good(prog', s) /\ (pc' # "done" => prog'.exit = Running)
    <3>1. prog.exit = Running
      BY <1>1, <1>b DEF InitSensors
    <3>2. CASE prog' = prog
      BY <1>a, <3>1, <3>2
    <3>3. CASE prog' = myexit(prog, 1) /\ pc' = "done"
      BY <1>a, <3>1, <3>3, ExitOneIsGood
    <3> QED BY <1>1, <3>2, <3>3 DEF InitSensors
  <2> QED BY <1>1, <1>b, <2>1 DEF InitSensors, Inv, input, user
<1>2. CASE ReportTemperature
  <2>1. Good(prog', s) /\ prog'.exit = Running
    <3>1. prog.exit = Running
      BY <1>2, <1>b DEF ReportTemperature
    <3>2. CASE ReportDue /\ prog' = CR!report_temp(prog)
      BY <1>a, <3>1, <3>2, ReportTempIsGood DEF ReportDue
    <3>3. CASE prog' = prog
      BY <1>a, <3>1, <3>3
    <3> QED BY <1>2, <3>2, <3>3 DEF ReportTemperature
  <2> QED BY <1>2, <1>b, <2>1 DEF ReportTemperature, Inv, input, user
<1>3. CASE PollTimesOut
  BY <1>3, <1>a, <1>b DEF PollTimesOut, Inv, input, user
<1>4. CASE read_command
  <2> DEFINE data == SubSeq(script, taken + 1, Min({typed, taken + BUFSIZ}))
  <2>1. /\ pc = "poll" /\ taken < typed
        /\ buf' \in CR!Filled(buf, data)
        /\ taken' = taken + Len(data)
        /\ prog' = CR!obey(prog, buf')
        /\ pc' = IF prog'.exit = Running THEN "button" ELSE "done"
        /\ UNCHANGED <<elapsed, user>>
    BY <1>4 DEF read_command
  <2>2. data \in Texts /\ Len(data) <= BUFSIZ /\ Len(data) <= typed - taken /\ Len(data) \in Nat
    <3>1. PICK end : end = Min({typed, taken + BUFSIZ})
      OBVIOUS
    <3>2. end \in Nat /\ end <= typed /\ end <= taken + BUFSIZ /\ taken <= end
      BY <1>b, <1>c, <2>1, <3>1, MinIs
    <3>3. data = SubSeq(script, taken + 1, end)
      BY <3>1
    <3>4. end <= Len(script)
      BY <1>b, <1>c, <3>2
    <3> HIDE DEF data
    <3> QED BY <1>b, <1>c, <3>2, <3>3, <3>4 DEF Texts
  <2> HIDE DEF data
  <2>3. buf' \in Texts /\ Len(buf') = BUFSIZ
    BY <1>b, <2>1, <2>2, FilledIs
  <2>4. script' = script /\ typed' = typed
    BY <2>1 DEF user
  <2>5. taken' \in 0..typed
    BY <1>b, <1>c, <2>1, <2>2
  <2>6. Good(prog', s)
    <3> DEFINE S == {p \in Programs : Good(p, s)}
               text == CR!Text(buf')
    <3>1. text \in Texts
      BY <2>3, TextIs
    <3>2. Len(text) \in Nat /\ \A i \in 1..Len(text) : text[i] \in Pieces
      BY <3>1 DEF Texts
    <3> HIDE DEF text
    <3>3. ASSUME NEW p \in S, NEW i \in 1..Len(text)
          PROVE  CR!read_char(p, text[i]) \in S
      <4>1. Good(CR!read_char(p, text[i]), s)
        BY <3>2, ReadCharIsGood
      <4> QED BY <4>1 DEF Good
    <3>4. prog \in S
      BY <1>a, <1>c
    <3> HIDE DEF S
    <3>5. CR!obey(prog, buf') \in S
      BY <3>2, <3>3, <3>4, ObeyStays DEF text
    <3> QED BY <2>1, <3>5 DEF S
  <2> QED BY <2>1, <2>3, <2>4, <2>5, <2>6, <1>b DEF Inv
<1>5. CASE ReadNothing
  BY <1>5, <1>a, <1>b DEF ReadNothing, Inv, input, user
<1>6. CASE CheckButton
  <2>0. prog.exit = Running
    BY <1>6, <1>b DEF CheckButton
  <2>1. Good(prog', s) /\ (pc' # "done" => prog'.exit = Running)
    <3>1. CASE prog' = myexit(print_and_log(prog, Shutdown), 0) /\ pc' = "done"
      <4>1. EndsWell(prog) /\ LogSays(prog, s, prog.should_stop, prog.scale)
            /\ Len(prog.cur_cmd) < CMDSIZE
        BY <1>a DEF Good
      <4>2. prog.should_stop \in BOOLEAN /\ prog.scale \in {"C", "F"}
        BY <1>c DEF Programs
      <4>3. /\ prog' \in Programs /\ prog'.exit = 0 /\ EndsWell(prog')
            /\ LogSays(prog', s, prog.should_stop, prog.scale)
            /\ prog'.cur_cmd = prog.cur_cmd /\ prog'.should_stop = prog.should_stop
            /\ prog'.scale = prog.scale
        <5>1. PICK q : q = prog'
          OBVIOUS
        <5>2. q = myexit(print_and_log(prog, Shutdown), 0)
          BY <3>1, <5>1
        <5>3. /\ q \in Programs /\ q.exit = 0 /\ EndsWell(q)
              /\ LogSays(q, s, prog.should_stop, prog.scale)
              /\ q.cur_cmd = prog.cur_cmd /\ q.should_stop = prog.should_stop
              /\ q.scale = prog.scale
          BY <1>c, <2>0, <4>1, <4>2, <5>2, ShutdownIsGood
        <5> QED BY <5>1, <5>3
      <4> QED BY <3>1, <4>1, <4>3 DEF Good
    <3>2. CASE prog' = prog
      BY <1>a, <2>0, <3>2
    <3> QED BY <1>6, <3>1, <3>2 DEF CheckButton
  <2> QED BY <1>6, <1>b, <2>1 DEF CheckButton, Inv, input, user
<1>7. CASE Type
  <2>1. typed' \in 0..Len(script) /\ taken \in 0..typed'
    BY <1>7, <1>b, <1>c DEF Type
  <2> QED BY <1>7, <1>a, <1>b, <2>1 DEF Type, Inv, input
<1>8. CASE CloseInput
  BY <1>8, <1>a, <1>b DEF CloseInput, Inv, input
<1>9. CASE Press
  BY <1>9, <1>a, <1>b DEF Press, Inv, input
<1>10. CASE Tick
  BY <1>10, <1>a, <1>b DEF Tick, Inv, input, user
<1>11. CASE UNCHANGED vars
  BY <1>11, <1>a, <1>b DEF vars, Inv
<1> QED BY <1>1, <1>2, <1>3, <1>4, <1>5, <1>6, <1>7, <1>8, <1>9, <1>10, <1>11 DEF Next, main

(* The globals are good in every reachable state.                           *)
THEOREM GlobalsAreGood == Spec => []Inv
BY InitInv, InvKept, PTL DEF Spec

(* A line and its final NUL never outgrow cur_cmd, whatever is typed and     *)
(* however the reads cut it, stale data included (lab4b.c:125).             *)
THEOREM LinesFit == Spec => []CommandFits
<1>1. Inv => CommandFits
  <2> SUFFICES ASSUME Inv PROVE CommandFits
    OBVIOUS
  <2>1. PICK s : Good(prog, s)
    BY DEF Inv
  <2>2. prog \in Programs /\ Len(prog.cur_cmd) < CMDSIZE
    BY <2>1 DEF Good
  <2>3. DOMAIN buf = 1..BUFSIZ
    BY DEF Inv, Texts
  <2> QED BY <2>2, <2>3 DEF CommandFits, Programs
<1> QED BY <1>1, GlobalsAreGood, PTL

(* The log shows no report between STOP and START, and none in a scale that *)
(* the last SCALE command did not ask for (lab4b.c:57, 133).                *)
THEOREM ReportsObeyTheLog == Spec => []ReportsObeyCommands
<1>1. Inv => ReportsObeyCommands
  BY DEF Inv, Good, LogSays, ReportsObeyCommands
<1> QED BY <1>1, GlobalsAreGood, PTL

(* The program exits with status 0 exactly when it has printed SHUTDOWN,    *)
(* which ends its output and its log.                                      *)
THEOREM ShutdownEndsTheFiles == Spec => []ShutdownIsLast
<1>1. Inv => ShutdownIsLast
  BY DEF Inv, Good, EndsWell, Ends, ShutdownIsLast
<1> QED BY <1>1, GlobalsAreGood, PTL
-----------------------------------------------------------------------------
(* InOrder().                                                              *)

(* h[i] is the sequence of the members of S up to i.                        *)
Picking(h, S, n) ==
  /\ h[0] = <<>>
  /\ \A i \in 1..n : h[i] = IF i \in S THEN Append(h[i - 1], i) ELSE h[i - 1]

(* The same members up to n.                                                *)
Alike(S, T, n) == \A i \in 1..n : i \in S <=> i \in T

LEMMA PickingExists ==
  ASSUME NEW n \in Nat, NEW S
  PROVE  \E h \in [0..n -> Seq(1..n)] : Picking(h, S, n)
<1> DEFINE Some == Seq(1..n)
           turn == [a \in Some \X (1..n) |-> IF a[2] \in S THEN Append(a[1], a[2]) ELSE a[1]]
<1>1. turn \in [Some \X (1..n) -> Some]
  <2>1. ASSUME NEW a \in Some \X (1..n)
        PROVE  (IF a[2] \in S THEN Append(a[1], a[2]) ELSE a[1]) \in Some
    <3>1. a[1] \in Some /\ a[2] \in 1..n
      OBVIOUS
    <3>2. \A f \in Seq(1..n), i \in 1..n : Append(f, i) \in Seq(1..n)
      OBVIOUS
    <3> QED BY <3>1, <3>2
  <2> QED BY <2>1
<1>2. \A f \in Some, i \in 1..n :
         turn[<<f, i>>] = IF i \in S THEN Append(f, i) ELSE f
  OBVIOUS
<1>3. PICK none \in Some : none = <<>>
  <2>1. <<>> \in Seq(1..n)
    OBVIOUS
  <2> QED BY <2>1
<1> HIDE DEF turn, Some
<1>4. PICK h \in [0..n -> Some] : Turns(h, none, turn, n)
  BY <1>1, TurnsExist
<1>5. ASSUME NEW i \in 1..n
      PROVE  h[i] = IF i \in S THEN Append(h[i - 1], i) ELSE h[i - 1]
  <2>1. i - 1 \in 0..n
    OBVIOUS
  <2>2. h[i - 1] \in Some
    BY <2>1
  <2>3. h[i] = turn[<<h[i - 1], i>>]
    BY <1>4 DEF Turns
  <2> QED BY <1>2, <2>2, <2>3
<1>6. h[0] = <<>>
  BY <1>3, <1>4 DEF Turns
<1> QED BY <1>5, <1>6 DEF Picking, Some

(* Two such histories of sets that agree up to n are the same.              *)
LEMMA PickingAgrees ==
  ASSUME NEW n \in Nat, NEW S, NEW T, Alike(S, T, n),
         NEW f, NEW g, Picking(f, S, n), Picking(g, T, n)
  PROVE  \A i \in 0..n : f[i] = g[i]
<1> DEFINE X == {i \in 0..n : f[i] # g[i]}
<1>1. SUFFICES ASSUME X # {} PROVE FALSE
  OBVIOUS
<1>2. PICK k \in X : \A j \in X : ~(<<j, k>> \in OpToRel(<, Nat))
  <2>1. X \subseteq Nat
    OBVIOUS
  <2> HIDE DEF X
  <2> QED BY <1>1, <2>1, NatLessThanWellFounded, WFMin
<1>3. k \in 0..n /\ f[k] # g[k]
  OBVIOUS
<1>4. k # 0
  BY <1>3 DEF Picking
<1>5. k \in 1..n /\ k - 1 \in 0..n /\ k - 1 < k /\ k - 1 \in Nat /\ k \in Nat
  BY <1>3, <1>4
<1>6. k - 1 \notin X
  BY <1>2, <1>5 DEF OpToRel
<1>7. f[k - 1] = g[k - 1]
  BY <1>5, <1>6
<1> QED BY <1>3, <1>5, <1>7 DEF Picking, Alike

(* It is the function in the definition of InOrder().                       *)
LEMMA InOrderIs ==
  ASSUME NEW n \in Nat, NEW S
  PROVE  \E h \in [0..n -> Seq(1..n)] : Picking(h, S, n) /\ InOrder(n, S) = h[n]
<1> DEFINE F(f) == [i \in 0..n |->
                      IF i = 0 THEN <<>>
                      ELSE IF i \in S THEN Append(f[i - 1], i) ELSE f[i - 1]]
           upTo == CHOOSE f : f = F(f)
<1>1. InOrder(n, S) = upTo[n]
  BY DEF InOrder
<1>2. PICK h \in [0..n -> Seq(1..n)] : Picking(h, S, n)
  BY PickingExists
<1>3. h = F(h)
  <2>1. h = [i \in 0..n |-> h[i]]
    OBVIOUS
  <2>2. ASSUME NEW i \in 0..n
        PROVE  h[i] = IF i = 0 THEN <<>>
                      ELSE IF i \in S THEN Append(h[i - 1], i) ELSE h[i - 1]
    <3>1. i = 0 \/ i \in 1..n
      OBVIOUS
    <3> QED BY <1>2, <3>1 DEF Picking
  <2> QED BY <2>1, <2>2
<1>4. upTo = F(upTo)
  <2> HIDE DEF F
  <2> QED BY <1>3
<1>5. \A i \in 0..n : upTo[i] = IF i = 0 THEN <<>>
         ELSE IF i \in S THEN Append(upTo[i - 1], i) ELSE upTo[i - 1]
  <2> HIDE DEF upTo
  <2>1. PICK a : a = upTo
    OBVIOUS
  <2>2. a = F(a)
    BY <1>4, <2>1
  <2>3. \A i \in 0..n : a[i] = IF i = 0 THEN <<>>
         ELSE IF i \in S THEN Append(a[i - 1], i) ELSE a[i - 1]
    BY <2>2
  <2> QED BY <2>1, <2>3
<1> HIDE DEF upTo
<1>6. Picking(upTo, S, n)
  <2>1. 0 \in 0..n /\ \A i \in 1..n : i \in 0..n /\ i # 0
    OBVIOUS
  <2> QED BY <1>5, <2>1 DEF Picking
<1>7. upTo[n] = h[n]
  <2>1. \A i \in 0..n : upTo[i] = h[i]
    BY <1>2, <1>6, PickingAgrees DEF Alike
  <2> QED BY <2>1
<1> QED BY <1>1, <1>2, <1>7

(* The empty range has no members, and n + 1 comes last if it is one.        *)
LEMMA InOrderGrows ==
  ASSUME NEW n \in Nat, NEW S, NEW T, Alike(S, T, n)
  PROVE  /\ InOrder(0, S) = <<>>
         /\ InOrder(n, S) \in Seq(1..n)
         /\ InOrder(n + 1, T) = IF n + 1 \in T THEN Append(InOrder(n, S), n + 1)
                                ELSE InOrder(n, S)
<1>1. InOrder(0, S) = <<>>
  <2>1. PICK z \in Nat : z = 0
    OBVIOUS
  <2>2. \E h : Picking(h, S, z) /\ InOrder(z, S) = h[z]
    BY InOrderIs
  <2> QED BY <2>1, <2>2 DEF Picking
<1>2. PICK h \in [0..n -> Seq(1..n)] : Picking(h, S, n) /\ InOrder(n, S) = h[n]
  BY InOrderIs
<1>3. PICK m \in Nat : m = n + 1
  OBVIOUS
<1>4. PICK g : Picking(g, T, m) /\ InOrder(m, T) = g[m]
  BY InOrderIs
<1>5. Picking(g, T, n)
  <2>1. \A i \in 1..n : i \in 1..m
    BY <1>3
  <2> QED BY <1>4, <2>1 DEF Picking
<1>6. g[n] = h[n]
  <2>1. Picking(h, S, n) /\ Picking(g, T, n)
    BY <1>2, <1>5
  <2>2. \A i \in 0..n : h[i] = g[i]
    BY <2>1, PickingAgrees
  <2> QED BY <2>2
<1>7. g[m] = IF m \in T THEN Append(g[m - 1], m) ELSE g[m - 1]
  <2>1. m \in 1..m
    BY <1>3
  <2> QED BY <1>4, <2>1 DEF Picking
<1>8. m - 1 = n
  BY <1>3
<1> QED BY <1>1, <1>2, <1>3, <1>4, <1>6, <1>7, <1>8
-----------------------------------------------------------------------------
(* The lines of a text.                                                    *)

(* Texts that agree up to e have the same pieces up to e.                   *)
LEMMA SamePart ==
  ASSUME NEW s \in Texts, NEW t \in Texts, NEW m \in Nat \ {0}, NEW e \in Nat,
         e <= Len(s), e <= Len(t), \A i \in 1..e : s[i] = t[i]
  PROVE  SubSeq(s, m, e) = SubSeq(t, m, e) /\ SubSeq(s, m, e) \in Texts
<1>1. CASE m <= e
  <2>1. /\ SubSeq(s, m, e) \in Texts /\ Len(SubSeq(s, m, e)) = e - m + 1
        /\ \A i \in 1..(e - m + 1) : SubSeq(s, m, e)[i] = s[m + i - 1]
    BY <1>1, SubSeqProperties DEF Texts
  <2>2. /\ SubSeq(t, m, e) \in Texts /\ Len(SubSeq(t, m, e)) = e - m + 1
        /\ \A i \in 1..(e - m + 1) : SubSeq(t, m, e)[i] = t[m + i - 1]
    BY <1>1, SubSeqProperties DEF Texts
  <2>3. \A i \in 1..(e - m + 1) : SubSeq(s, m, e)[i] = SubSeq(t, m, e)[i]
    <3>1. ASSUME NEW i \in 1..(e - m + 1) PROVE m + i - 1 \in 1..e
      OBVIOUS
    <3> QED BY <2>1, <2>2, <3>1
  <2> QED BY <2>1, <2>2, <2>3, SeqEqual DEF Texts
<1>2. CASE ~(m <= e)
  <2>1. SubSeq(s, m, e) = <<>> /\ SubSeq(t, m, e) = <<>>
    BY <1>2, SubSeqEmpty DEF Texts
  <2> QED BY <2>1 DEF Texts
<1> QED BY <1>1, <1>2

(* And so it is with one more piece.                                        *)
LEMMA OneMore ==
  ASSUME NEW u \in Texts, NEW ch \in Pieces, NEW m \in 1..(Len(u) + 1)
  PROVE  /\ Append(u, ch) \in Texts /\ Len(Append(u, ch)) = Len(u) + 1
         /\ Append(u, ch)[Len(u) + 1] = ch /\ \A i \in 1..Len(u) : Append(u, ch)[i] = u[i]
         /\ SubSeq(u, m, Len(u)) \in Texts
         /\ SubSeq(Append(u, ch), m, Len(u)) = SubSeq(u, m, Len(u))
         /\ SubSeq(Append(u, ch), m, Len(u) + 1) = Append(SubSeq(u, m, Len(u)), ch)
<1>1. PICK t : t = Append(u, ch)
  OBVIOUS
<1>2. /\ t \in Texts /\ Len(t) = Len(u) + 1 /\ t[Len(u) + 1] = ch
      /\ \A i \in 1..Len(u) : t[i] = u[i]
  BY <1>1, AppendProperties DEF Texts
<1>3. Len(u) \in Nat
  BY DEF Texts
<1>4. /\ SubSeq(u, m, Len(u)) = SubSeq(t, m, Len(u)) /\ SubSeq(u, m, Len(u)) \in Texts
  <2>1. m \in Nat \ {0} /\ Len(u) <= Len(t)
    BY <1>2, <1>3
  <2> QED BY <1>2, <1>3, <2>1, SamePart
<1>5. SubSeq(t, m, Len(u) + 1) = SubSeq(t, m, (Len(u) + 1) - 1) \o <<t[Len(u) + 1]>>
  <2>1. t \in Seq(Pieces) /\ m \in 1..Len(t) /\ Len(u) + 1 \in m..Len(t)
    BY <1>2, <1>3 DEF Texts
  <2> QED BY <2>1, SubSeqRecursiveSecond
<1>6. (Len(u) + 1) - 1 = Len(u)
  BY <1>3
<1>7. SubSeq(t, m, Len(u)) \o <<ch>> = Append(SubSeq(t, m, Len(u)), ch)
  BY <1>4, AppendIsConcat DEF Texts
<1> QED BY <1>1, <1>2, <1>4, <1>5, <1>6, <1>7

(* The first of some places.                                               *)
LEMMA MinIsFirst ==
  ASSUME NEW S, S \subseteq Int, NEW m \in S, \A i \in S : m <= i
  PROVE  CR!Min(S) = m
<1>1. PICK M : M = CR!Min(S)
  OBVIOUS
<1>2. M = CHOOSE x \in S : \A y \in S : x <= y
  BY <1>1 DEF CR!Min
<1>3. M \in S /\ \A y \in S : M <= y
  BY <1>2
<1>4. M <= m /\ m <= M /\ M \in Int /\ m \in Int
  BY <1>3
<1> QED BY <1>1, <1>4

(* A line without its indentation, as it grows.                             *)
LEMMA UnindentedGrows ==
  ASSUME NEW u \in Texts, NEW ch \in Pieces
  PROVE  /\ CR!Unindented(u) \in Texts
         /\ CR!Unindented(Append(u, ch)) =
              IF CR!Unindented(u) = <<>> /\ ch \in CR!Blanks THEN <<>>
              ELSE Append(CR!Unindented(u), ch)
<1> DEFINE n == Len(u)
           t == Append(u, ch)
           I(line) == {i \in 1..Len(line) : line[i] \notin CR!Blanks}
           start(line) == IF I(line) # {} THEN CR!Min(I(line)) ELSE 0
<1>1. \A line : CR!Unindented(line) =
         IF start(line) = 0 THEN <<>> ELSE SubSeq(line, start(line), Len(line))
  BY DEF CR!Unindented, CR!SelectInSeq
<1>2. /\ t \in Texts /\ Len(t) = n + 1 /\ t[n + 1] = ch /\ \A i \in 1..n : t[i] = u[i]
  BY AppendProperties DEF Texts
<1>3. n \in Nat
  BY DEF Texts
<1> HIDE DEF n, t, start
<1>4. I(t) = IF ch \in CR!Blanks THEN I(u) ELSE I(u) \cup {n + 1}
  BY <1>2, <1>3 DEF n
<1>5. I(u) \in SUBSET (1..n)
  BY DEF n
<1> HIDE DEF I
<1>6. CASE I(u) = {}
  <2>1. CR!Unindented(u) = <<>>
    BY <1>1, <1>6 DEF start
  <2>2. CASE ch \in CR!Blanks
    <3>1. CR!Unindented(t) = <<>>
      BY <1>1, <1>4, <1>6, <2>2 DEF start
    <3> QED BY <2>1, <2>2, <3>1 DEF t, Texts
  <2>3. CASE ch \notin CR!Blanks
    <3>1. I(t) = {n + 1}
      BY <1>4, <1>6, <2>3
    <3>2. CR!Min(I(t)) = n + 1
      BY <1>3, <3>1, MinIsFirst
    <3>3. start(t) = n + 1 /\ n + 1 # 0
      BY <1>3, <3>1, <3>2 DEF start
    <3>4. CR!Unindented(t) = SubSeq(t, n + 1, n + 1)
      BY <1>1, <1>2, <3>3
    <3>5. SubSeq(t, n + 1, n + 1) = Append(SubSeq(u, n + 1, n), ch) /\ SubSeq(u, n + 1, n) = <<>>
      BY <1>3, OneMore, SubSeqEmpty DEF t, n, Texts
    <3>6. CR!Unindented(t) = Append(CR!Unindented(u), ch)
      BY <2>1, <3>4, <3>5
    <3>7. CR!Unindented(u) \in Texts
      BY <2>1 DEF Texts
    <3> QED BY <2>3, <3>6, <3>7 DEF t
  <2> QED BY <2>2, <2>3
<1>7. CASE I(u) # {}
  <2>1. PICK m \in 1..n : m \in I(u) /\ CR!Min(I(u)) = m /\ \A i \in I(u) : m <= i
    <3>1. PICK x \in I(u) : \A y \in I(u) : ~(<<y, x>> \in OpToRel(<, Nat))
      <4>1. I(u) \subseteq Nat
        BY <1>5
      <4> QED BY <1>7, <4>1, NatLessThanWellFounded, WFMin
    <3>2. ASSUME NEW i \in I(u)
          PROVE  x <= i
      <4>1. i \in Nat /\ x \in Nat
        BY <1>5
      <4>2. ~(i < x)
        BY <3>1, <4>1 DEF OpToRel
      <4> QED BY <4>1, <4>2
    <3>3. I(u) \subseteq Int
      BY <1>5
    <3> QED BY <1>5, <3>2, <3>3, MinIsFirst
  <2>2. start(u) = m /\ m # 0
    BY <1>3, <1>7, <2>1 DEF start
  <2>3. CR!Unindented(u) = SubSeq(u, m, n)
    BY <1>1, <2>2 DEF n
  <2>4. start(t) = m
    <3>1. I(t) \subseteq Int /\ m \in I(t) /\ \A i \in I(t) : m <= i
      BY <1>3, <1>4, <1>5, <2>1
    <3>2. CR!Min(I(t)) = m
      BY <3>1, MinIsFirst
    <3> QED BY <3>1, <3>2 DEF start
  <2>5. CR!Unindented(t) = SubSeq(t, m, n + 1)
    BY <1>1, <1>2, <2>2, <2>4
  <2>6. m \in 1..(n + 1)
    BY <1>3, <2>1
  <2>7. SubSeq(t, m, n + 1) = Append(SubSeq(u, m, n), ch) /\ SubSeq(u, m, n) \in Texts
    BY <2>6, OneMore DEF t, n
  <2>8. SubSeq(u, m, n) # <<>>
    <3>1. Len(SubSeq(u, m, n)) = n - m + 1
      BY <1>3, <2>1, SubSeqProperties DEF n, Texts
    <3>2. Len(SubSeq(u, m, n)) # 0
      BY <1>3, <2>1, <3>1
    <3>3. Len(<<>>) = 0
      OBVIOUS
    <3> QED BY <3>2, <3>3
  <2> QED BY <2>3, <2>5, <2>7, <2>8 DEF t
<1> QED BY <1>6, <1>7

(* Where a text has newlines, and where the line after the last one begins. *)
Newlines(u) == InOrder(Len(u), {i \in DOMAIN u : u[i] = CR!Newline})
LineBegin(ends, k) == IF k = 1 THEN 1 ELSE ends[k - 1] + 1

(* What there is of that line.                                             *)
Unfinished(u) ==
  CR!Unindented(SubSeq(u, LineBegin(Newlines(u), Len(Newlines(u)) + 1), Len(u)))

LEMMA LinesAre ==
  ASSUME NEW u
  PROVE  CR!Lines(u) =
           [k \in DOMAIN Newlines(u) |->
              CR!Unindented(SubSeq(u, LineBegin(Newlines(u), k), Newlines(u)[k] - 1))]
<1>1. \A n, S : CR!InOrder(n, S) = InOrder(n, S)
  BY DEF CR!InOrder, InOrder
<1> QED BY <1>1 DEF CR!Lines, Newlines, LineBegin

LEMMA UnindentedNone == CR!Unindented(<<>>) = <<>>
<1>1. {i \in 1..Len(<<>>) : <<>>[i] \notin CR!Blanks} = {}
  OBVIOUS
<1> QED BY <1>1 DEF CR!Unindented, CR!SelectInSeq

(* The newlines of a text that grows.                                       *)
LEMMA NewlinesGrow ==
  ASSUME NEW u \in Texts, NEW ch \in Pieces
  PROVE  /\ Newlines(u) \in Seq(1..Len(u))
         /\ Newlines(Append(u, ch)) = IF ch = CR!Newline THEN Append(Newlines(u), Len(u) + 1)
                                      ELSE Newlines(u)
<1> DEFINE n == Len(u)
           t == Append(u, ch)
           N(x) == {i \in DOMAIN x : x[i] = CR!Newline}
<1>1. /\ t \in Texts /\ Len(t) = n + 1 /\ t[n + 1] = ch /\ \A i \in 1..n : t[i] = u[i]
  BY AppendProperties DEF Texts
<1>2. n \in Nat /\ DOMAIN u = 1..n /\ DOMAIN t = 1..(n + 1)
  BY <1>1 DEF Texts
<1>3. Newlines(u) = InOrder(n, N(u)) /\ Newlines(t) = InOrder(n + 1, N(t))
  BY <1>1 DEF Newlines
<1> HIDE DEF n, t
<1>4. Alike(N(u), N(t), n) /\ (n + 1 \in N(t) <=> ch = CR!Newline)
  BY <1>1, <1>2 DEF Alike
<1> HIDE DEF N
<1>5. /\ InOrder(n, N(u)) \in Seq(1..n)
      /\ InOrder(n + 1, N(t)) = IF n + 1 \in N(t) THEN Append(InOrder(n, N(u)), n + 1)
                                ELSE InOrder(n, N(u))
  BY <1>2, <1>4, InOrderGrows
<1> QED BY <1>3, <1>4, <1>5 DEF n, t

(* The lines of a text that grows, and what of a line is unfinished.        *)
LEMMA LinesGrow ==
  ASSUME NEW u \in Texts, NEW ch \in Pieces
  PROVE  LET t == Append(u, ch)
             line == Unfinished(u)
         IN  /\ CR!Lines(u) \in Seq(Texts) /\ line \in Texts
             /\ ch = CR!Newline => /\ CR!Lines(t) = Append(CR!Lines(u), line)
                                   /\ Unfinished(t) = <<>>
             /\ ch # CR!Newline => /\ CR!Lines(t) = CR!Lines(u)
                                   /\ Unfinished(t) = IF line = <<>> /\ ch \in CR!Blanks
                                                        THEN <<>> ELSE Append(line, ch)
<1> DEFINE n == Len(u)
           t == Append(u, ch)
           ends == Newlines(u)
           last == LineBegin(ends, Len(ends) + 1)
           part(x, e, k) == SubSeq(x, LineBegin(e, k), e[k] - 1)
<1>1. /\ t \in Texts /\ Len(t) = n + 1 /\ t[n + 1] = ch /\ \A i \in 1..n : t[i] = u[i]
  BY AppendProperties DEF Texts
<1>2. n \in Nat
  BY DEF Texts
<1>3. ends \in Seq(1..n) /\ Newlines(t) = IF ch = CR!Newline THEN Append(ends, n + 1) ELSE ends
  BY NewlinesGrow
<1> HIDE DEF n, t, ends
<1>4. Len(ends) \in Nat /\ DOMAIN ends = 1..Len(ends) /\ \A k \in 1..Len(ends) : ends[k] \in 1..n
  BY <1>3, LenProperties, ElementOfSeq
<1>5. \A k \in 1..(Len(ends) + 1) : LineBegin(ends, k) \in 1..(n + 1)
  <2>1. ASSUME NEW k \in 1..(Len(ends) + 1)
        PROVE  LineBegin(ends, k) \in 1..(n + 1)
    <3>1. CASE k = 1
      BY <1>2, <3>1 DEF LineBegin
    <3>2. CASE k # 1
      <4>1. k - 1 \in 1..Len(ends)
        BY <1>4, <3>2
      <4>2. ends[k - 1] \in 1..n
        BY <1>4, <4>1
      <4> QED BY <1>2, <3>2, <4>2 DEF LineBegin
    <3> QED BY <3>1, <3>2
  <2> QED BY <2>1
<1>6. ASSUME NEW k \in 1..Len(ends)
      PROVE  part(t, ends, k) = part(u, ends, k) /\ part(u, ends, k) \in Texts
  <2>1. ends[k] - 1 \in Nat /\ ends[k] - 1 <= n
    BY <1>2, <1>4
  <2>2. LineBegin(ends, k) \in Nat \ {0}
    <3>1. k \in 1..(Len(ends) + 1)
      BY <1>4
    <3> QED BY <1>2, <1>5, <3>1
  <2>3. PICK e \in Nat : e = ends[k] - 1
    BY <2>1
  <2>4. PICK m \in Nat \ {0} : m = LineBegin(ends, k)
    BY <2>2
  <2>5. e <= Len(u) /\ e <= Len(t) /\ \A i \in 1..e : u[i] = t[i]
    BY <1>1, <1>2, <2>1, <2>3 DEF n
  <2>6. SubSeq(u, m, e) = SubSeq(t, m, e) /\ SubSeq(u, m, e) \in Texts
    BY <1>1, <2>5, SamePart
  <2> QED BY <2>3, <2>4, <2>6
<1>7. /\ last \in 1..(n + 1)
      /\ SubSeq(t, last, n) = SubSeq(u, last, n) /\ SubSeq(u, last, n) \in Texts
      /\ SubSeq(t, last, n + 1) = Append(SubSeq(u, last, n), ch)
  <2>1. last \in 1..(n + 1)
    BY <1>4, <1>5
  <2> HIDE DEF last
  <2> QED BY <2>1, OneMore DEF t, n
<1>8. Unfinished(u) = CR!Unindented(SubSeq(u, last, n))
  BY DEF Unfinished, ends, n
<1> DEFINE L(x, e, k) == CR!Unindented(part(x, e, k))
<1>9. /\ CR!Lines(u) = [k \in DOMAIN ends |-> L(u, ends, k)]
      /\ CR!Lines(t) = [k \in DOMAIN Newlines(t) |-> L(t, Newlines(t), k)]
  BY LinesAre DEF ends
<1>10. \A k \in 1..Len(ends) : L(t, ends, k) = L(u, ends, k) /\ L(u, ends, k) \in Texts
  <2> HIDE DEF part
  <2>1. \A x \in Texts : CR!Unindented(x) \in Texts
    BY UnindentedGrows
  <2> QED BY <1>6, <2>1
<1> HIDE DEF L, last
<1>11. CR!Lines(u) \in Seq(Texts)
  <2>1. CR!Lines(u) \in [1..Len(ends) -> Texts]
    BY <1>4, <1>9, <1>10
  <2> QED BY <1>4, <2>1
<1>12. Unfinished(u) \in Texts
  BY <1>7, <1>8, UnindentedGrows
<1>13. ASSUME ch = CR!Newline
       PROVE  CR!Lines(t) = Append(CR!Lines(u), Unfinished(u)) /\ Unfinished(t) = <<>>
  <2>1. PICK e : e = Newlines(t)
    OBVIOUS
  <2>2. /\ e \in Seq(1..(n + 1)) /\ Len(e) = Len(ends) + 1 /\ e[Len(ends) + 1] = n + 1
        /\ \A k \in 1..Len(ends) : e[k] = ends[k]
    <3>1. e = Append(ends, n + 1) /\ ends \in Seq(1..(n + 1)) /\ n + 1 \in 1..(n + 1)
      BY <1>2, <1>3, <1>13, <2>1
    <3> QED BY <3>1, AppendProperties
  <2>3. \A k \in 1..(Len(ends) + 1) : LineBegin(e, k) = LineBegin(ends, k)
    <3>1. \A k \in 1..(Len(ends) + 1) : k # 1 => k - 1 \in 1..Len(ends)
      BY <1>4
    <3> QED BY <2>2, <3>1 DEF LineBegin
  <2>4. \A k \in 1..Len(ends) : L(t, e, k) = L(u, ends, k)
    <3>1. \A k \in 1..Len(ends) : k \in 1..(Len(ends) + 1)
      BY <1>4
    <3>2. \A k \in 1..Len(ends) : L(t, e, k) = L(t, ends, k)
      BY <2>2, <2>3, <3>1 DEF L
    <3> QED BY <1>10, <3>2
  <2>5. L(t, e, Len(ends) + 1) = Unfinished(u)
    <3>1. LineBegin(e, Len(ends) + 1) = last /\ e[Len(ends) + 1] - 1 = n
      BY <1>2, <1>4, <2>2, <2>3 DEF last
    <3> QED BY <1>7, <1>8, <3>1 DEF L
  <2>6. CR!Lines(t) = Append(CR!Lines(u), Unfinished(u))
    <3>1. CR!Lines(t) = [k \in 1..(Len(ends) + 1) |-> L(t, e, k)]
      <4>1. DOMAIN e = 1..(Len(ends) + 1)
        BY <2>2
      <4> QED BY <1>9, <2>1, <4>1
    <3>2. CR!Lines(u) = [k \in 1..Len(ends) |-> L(u, ends, k)]
      BY <1>4, <1>9
    <3>3. ASSUME NEW k \in 1..(Len(ends) + 1)
          PROVE  L(t, e, k) = IF k = Len(ends) + 1 THEN Unfinished(u) ELSE L(u, ends, k)
      <4>1. k = Len(ends) + 1 \/ k \in 1..Len(ends)
        BY <1>4
      <4>2. ~(Len(ends) + 1 \in 1..Len(ends))
        BY <1>4
      <4> QED BY <2>4, <2>5, <4>1, <4>2
    <3>4. PICK A : A = Append(CR!Lines(u), Unfinished(u))
      OBVIOUS
    <3>5. /\ A \in Seq(Texts) /\ Len(A) = Len(ends) + 1
          /\ \A k \in 1..Len(ends) : A[k] = L(u, ends, k)
          /\ A[Len(ends) + 1] = Unfinished(u)
      <4>1. Len(CR!Lines(u)) = Len(ends)
        BY <1>4, <3>2
      <4>2. \A k \in 1..Len(ends) : CR!Lines(u)[k] = L(u, ends, k)
        BY <3>2
      <4> QED BY <1>11, <1>12, <3>4, <4>1, <4>2, AppendProperties
    <3>6. A = [k \in 1..(Len(ends) + 1) |-> A[k]]
      BY <3>5
    <3>7. \A k \in 1..(Len(ends) + 1) : A[k] = L(t, e, k)
      <4>1. \A k \in 1..(Len(ends) + 1) : k = Len(ends) + 1 \/ k \in 1..Len(ends)
        BY <1>4
      <4> QED BY <2>4, <2>5, <3>5, <4>1
    <3> QED BY <3>1, <3>4, <3>6, <3>7
  <2>7. Unfinished(t) = <<>>
    <3>1. LineBegin(e, Len(e) + 1) = n + 2
      BY <1>2, <1>4, <2>2 DEF LineBegin
    <3>2. SubSeq(t, n + 2, n + 1) = <<>>
      BY <1>1, <1>2, SubSeqEmpty DEF Texts
    <3> QED BY <1>1, <2>1, <3>1, <3>2, UnindentedNone DEF Unfinished
  <2> QED BY <2>6, <2>7
<1>14. ASSUME ch # CR!Newline
       PROVE  /\ CR!Lines(t) = CR!Lines(u)
              /\ Unfinished(t) = IF Unfinished(u) = <<>> /\ ch \in CR!Blanks THEN <<>>
                                 ELSE Append(Unfinished(u), ch)
  <2>1. Newlines(t) = ends
    BY <1>3, <1>14
  <2>2. CR!Lines(t) = CR!Lines(u)
    BY <1>4, <1>9, <1>10, <2>1
  <2>3. Unfinished(t) = CR!Unindented(Append(SubSeq(u, last, n), ch))
    BY <1>1, <1>7, <2>1 DEF Unfinished, last
  <2> QED BY <1>7, <1>8, <2>2, <2>3, UnindentedGrows
<1> QED BY <1>11, <1>12, <1>13, <1>14 DEF t

(* Nothing typed is no line.                                               *)
LEMMA LinesOfNothing == CR!Lines(<<>>) = <<>> /\ Unfinished(<<>>) = <<>>
<1>1. PICK z \in Nat : z = 0
  OBVIOUS
<1>2. PICK u \in Texts : u = <<>>
  <2>1. <<>> \in Texts
    BY DEF Texts
  <2> QED BY <2>1
<1>3. Newlines(u) = <<>>
  <2>1. \A S : InOrder(0, S) = <<>>
    BY <1>1, InOrderGrows DEF Alike
  <2> QED BY <1>2, <2>1 DEF Newlines
<1>4. CR!Lines(u) = <<>>
  BY <1>3, LinesAre
<1>5. Unfinished(u) = <<>>
  <2>1. SubSeq(u, 1, 0) = <<>>
    BY SubSeqEmpty DEF Texts
  <2>2. Len(u) = 0 /\ Len(Newlines(u)) = 0
    BY <1>2, <1>3
  <2>3. LineBegin(Newlines(u), Len(Newlines(u)) + 1) = 1
    BY <2>2 DEF LineBegin
  <2> QED BY <2>1, <2>2, <2>3, UnindentedNone DEF Unfinished
<1> QED BY <1>2, <1>4, <1>5
-----------------------------------------------------------------------------
(* The commands in a log.                                                  *)

LEMMA CommandsGrow ==
  ASSUME NEW file \in Seq(Entries), NEW e \in Entries
  PROVE  /\ Commands(file) \in Seq(Texts)
         /\ Commands(Append(file, e)) = IF IsCommand(e) THEN Append(Commands(file), e.text)
                                        ELSE Commands(file)
<1> DEFINE n == Len(file)
           g == Append(file, e)
           N(x) == {i \in DOMAIN x : IsCommand(x[i])}
           at == InOrder(n, N(file))
           next == InOrder(n + 1, N(g))
<1>1. /\ g \in Seq(Entries) /\ Len(g) = n + 1 /\ g[n + 1] = e
      /\ \A i \in 1..n : g[i] = file[i] /\ file[i] \in Entries
  BY AppendProperties
<1>2. n \in Nat /\ DOMAIN file = 1..n /\ DOMAIN g = 1..(n + 1)
  BY <1>1
<1>3. /\ Commands(file) = [k \in DOMAIN at |-> file[at[k]].text]
      /\ Commands(g) = [k \in DOMAIN next |-> g[next[k]].text]
  BY <1>1 DEF Commands
<1> HIDE DEF n, g
<1>4. Alike(N(file), N(g), n) /\ (n + 1 \in N(g) <=> IsCommand(e))
  BY <1>1, <1>2 DEF Alike
<1> HIDE DEF N
<1>5. at \in Seq(1..n) /\ next = IF IsCommand(e) THEN Append(at, n + 1) ELSE at
  BY <1>2, <1>4, InOrderGrows
<1> HIDE DEF at, next
<1>6. Len(at) \in Nat /\ DOMAIN at = 1..Len(at) /\ \A k \in 1..Len(at) : at[k] \in 1..n
  BY <1>5, LenProperties, ElementOfSeq
<1>7. \A k \in 1..Len(at) : g[at[k]].text = file[at[k]].text /\ file[at[k]].text \in Texts
  <2>1. \A x \in Entries : x.text \in Texts
    BY DEF Entries
  <2> QED BY <1>1, <1>6, <2>1
<1>8. Commands(file) \in Seq(Texts)
  <2>1. Commands(file) \in [1..Len(at) -> Texts]
    BY <1>3, <1>6, <1>7
  <2> QED BY <1>6, <2>1
<1>9. ASSUME IsCommand(e)
      PROVE  Commands(g) = Append(Commands(file), e.text)
  <2>1. /\ next \in Seq(1..(n + 1)) /\ Len(next) = Len(at) + 1 /\ next[Len(at) + 1] = n + 1
        /\ \A k \in 1..Len(at) : next[k] = at[k]
    <3>1. next = Append(at, n + 1) /\ at \in Seq(1..(n + 1)) /\ n + 1 \in 1..(n + 1)
      BY <1>2, <1>5, <1>9
    <3> QED BY <3>1, AppendProperties
  <2>2. Commands(g) = [k \in 1..(Len(at) + 1) |-> g[next[k]].text]
    <3>1. DOMAIN next = 1..(Len(at) + 1)
      BY <2>1
    <3> QED BY <1>3, <3>1
  <2>3. /\ g[next[Len(at) + 1]].text = e.text
        /\ \A k \in 1..Len(at) : g[next[k]].text = file[at[k]].text
    BY <1>1, <1>7, <2>1
  <2>4. PICK A : A = Append(Commands(file), e.text)
    OBVIOUS
  <2>5. /\ A \in Seq(Texts) /\ Len(A) = Len(at) + 1 /\ A[Len(at) + 1] = e.text
        /\ \A k \in 1..Len(at) : A[k] = file[at[k]].text
    <3>1. Len(Commands(file)) = Len(at) /\ \A k \in 1..Len(at) : Commands(file)[k] = file[at[k]].text
      BY <1>3, <1>6
    <3>2. e.text \in Texts
      BY DEF Entries
    <3> QED BY <1>8, <2>4, <3>1, <3>2, AppendProperties
  <2>6. A = [k \in 1..(Len(at) + 1) |-> A[k]]
    BY <2>5
  <2>7. \A k \in 1..(Len(at) + 1) : A[k] = g[next[k]].text
    <3>1. \A k \in 1..(Len(at) + 1) : k = Len(at) + 1 \/ k \in 1..Len(at)
      BY <1>6
    <3> QED BY <2>3, <2>5, <3>1
  <2> QED BY <2>2, <2>4, <2>6, <2>7
<1>10. ASSUME ~IsCommand(e)
       PROVE  Commands(g) = Commands(file)
  <2>1. next = at
    BY <1>5, <1>10
  <2> QED BY <1>3, <1>6, <1>7, <2>1
<1> QED BY <1>8, <1>9, <1>10 DEF g

(* A report that is not repeated in the log makes no difference.            *)
LEMMA CommandsOfLogged ==
  ASSUME NEW file \in Seq(Entries), NEW e \in Entries
  PROVE  /\ WithEntry(file, e) \in Seq(Entries) /\ Commands(file) \in Seq(Texts)
         /\ Commands(WithEntry(file, e)) = IF IsCommand(e) THEN Append(Commands(file), e.text)
                                           ELSE Commands(file)
<1>1. CASE WithEntry(file, e) = file /\ e.kind = "report"
  BY <1>1, CommandsGrow DEF IsCommand
<1>2. CASE WithEntry(file, e) = Append(file, e)
  BY <1>2, CommandsGrow, AppendProperties
<1> QED BY <1>1, <1>2 DEF WithEntry

LEMMA CommandsOfNothing == Commands(<<>>) = <<>>
<1>1. PICK file : file = <<>>
  OBVIOUS
<1>2. Len(file) = 0
  BY <1>1
<1>3. PICK z \in Nat : z = 0
  OBVIOUS
<1>4. \A S : InOrder(0, S) = <<>>
  BY <1>3, InOrderGrows DEF Alike
<1>5. Commands(file) = [k \in DOMAIN <<>> |-> file[<<>>[k]].text]
  BY <1>2, <1>4 DEF Commands
<1> QED BY <1>1, <1>5

(* A list of lines begins with itself, and keeps its beginnings as it grows. *)
LEMMA BeginningsStay ==
  ASSUME NEW s \in Seq(Texts), NEW t \in Seq(Texts), NEW line \in Texts
  PROVE  /\ IsPrefix(s, s)
         /\ IsPrefix(s, t) => IsPrefix(s, Append(t, line))
<1>1. IsPrefix(s, s)
  BY DEF IsPrefix
<1>2. ASSUME IsPrefix(s, t)
      PROVE  IsPrefix(s, Append(t, line))
  <2>1. Len(s) <= Len(t) /\ SubSeq(s, 1, Len(s)) = SubSeq(t, 1, Len(s))
    BY <1>2 DEF IsPrefix
  <2>2. PICK g : g = Append(t, line)
    OBVIOUS
  <2>3. g \in Seq(Texts) /\ Len(g) = Len(t) + 1 /\ \A i \in 1..Len(t) : g[i] = t[i]
    BY <2>2, AppendProperties
  <2>4. SubSeq(g, 1, Len(s)) = SubSeq(t, 1, Len(s))
    <3>1. SubSeq(g, 1, Len(s)) = Restrict(g, 1..Len(s)) /\ SubSeq(t, 1, Len(s)) = Restrict(t, 1..Len(s))
      <4>1. Len(s) \in 0..Len(g) /\ Len(s) \in 0..Len(t)
        BY <2>1, <2>3
      <4> QED BY <2>3, <4>1, SubSeqRestrict
    <3>2. \A i \in 1..Len(s) : g[i] = t[i]
      BY <2>1, <2>3
    <3> QED BY <3>1, <3>2 DEF Restrict
  <2>5. Len(s) <= Len(g)
    BY <2>1, <2>3
  <2> QED BY <2>1, <2>2, <2>4, <2>5 DEF IsPrefix
<1> QED BY <1>1, <1>2
-----------------------------------------------------------------------------
(* The lines obeyed are those of a text: the log has them, and cur_cmd is   *)
(* what there is of the next.                                              *)
Obeyed(p, text) ==
  /\ p.exit = Running => p.cur_cmd = Unfinished(text)
  /\ p.should_log =>
       /\ IsPrefix(Commands(p.log), CR!Lines(text))
       /\ p.exit = Running => Commands(p.log) = CR!Lines(text)

(* Functions that read nothing and log no command keep it.                  *)
Idles(p, q) ==
  /\ q \in Programs
  /\ q.should_log = p.should_log /\ q.cur_cmd = p.cur_cmd
  /\ Commands(q.log) = Commands(p.log)
  /\ q.exit = Running => p.exit = Running

LEMMA IdleObeys ==
  ASSUME NEW p, NEW q, NEW text, Obeyed(p, text), Idles(p, q)
  PROVE  Obeyed(q, text)
BY DEF Obeyed, Idles

(* just_log() and print_and_log().                                         *)
LEMMA LogsCommands ==
  ASSUME NEW p \in Programs, NEW e \in Entries,
         NEW q, q = just_log(p, e) \/ q = print_and_log(p, e)
  PROVE  /\ q \in Programs
         /\ q.should_log = p.should_log /\ q.cur_cmd = p.cur_cmd /\ q.exit = p.exit
         /\ ~IsCommand(e) => Commands(q.log) = Commands(p.log)
         /\ IsCommand(e) /\ p.should_log => Commands(q.log) = Append(Commands(p.log), e.text)
<1>0. p.log \in Seq(Entries) /\ p.out \in Seq(Entries)
  BY DEF Programs
<1>1. ASSUME NEW r \in Programs, r.log = p.log, r.should_log = p.should_log,
             r.cur_cmd = p.cur_cmd, r.exit = p.exit, q = just_log(r, e)
      PROVE  /\ q \in Programs
             /\ q.should_log = p.should_log /\ q.cur_cmd = p.cur_cmd /\ q.exit = p.exit
             /\ ~IsCommand(e) => Commands(q.log) = Commands(p.log)
             /\ IsCommand(e) /\ p.should_log => Commands(q.log) = Append(Commands(p.log), e.text)
  <2>1. PICK g : g = WithEntry(p.log, e)
    OBVIOUS
  <2>2. g \in Seq(Entries) /\ Commands(g) = IF IsCommand(e) THEN Append(Commands(p.log), e.text)
                                            ELSE Commands(p.log)
    BY <1>0, <2>1, CommandsOfLogged
  <2>3. CASE p.should_log
    <3>1. q = [r EXCEPT !.log = g]
      BY <1>1, <2>1, <2>3 DEF just_log
    <3>2. /\ q \in Programs /\ q.log = g
          /\ q.should_log = r.should_log /\ q.cur_cmd = r.cur_cmd /\ q.exit = r.exit
      BY <2>2, <3>1 DEF Programs
    <3> QED BY <1>1, <2>2, <3>2
  <2>4. CASE ~p.should_log
    BY <1>1, <2>4 DEF just_log
  <2> QED BY <2>3, <2>4
<1>2. CASE q = just_log(p, e)
  BY <1>1, <1>2
<1>3. CASE q = print_and_log(p, e)
  <2>1. PICK g : g = WithEntry(p.out, e)
    OBVIOUS
  <2>2. PICK r : r = [p EXCEPT !.out = g]
    OBVIOUS
  <2>3. g \in Seq(Entries)
    BY <1>0, <2>1, CommandsOfLogged
  <2>4. /\ r \in Programs /\ r.log = p.log /\ r.should_log = p.should_log
        /\ r.cur_cmd = p.cur_cmd /\ r.exit = p.exit
    BY <2>2, <2>3 DEF Programs
  <2>5. q = just_log(r, e)
    BY <1>3, <2>1, <2>2 DEF print_and_log
  <2> QED BY <1>1, <2>4, <2>5
<1> QED BY <1>2, <1>3

(* Nothing but the status changes when the program exits.                   *)
LEMMA Exits ==
  ASSUME NEW p \in Programs, NEW status \in {0, 1}, NEW q, q = myexit(p, status)
  PROVE  Idles(p, q)
<1>1. CASE p.exit = Running
  <2>1. q = [p EXCEPT !.exit = status]
    BY <1>1 DEF myexit
  <2>2. /\ q \in Programs /\ q.should_log = p.should_log /\ q.cur_cmd = p.cur_cmd
        /\ q.log = p.log
    BY <2>1 DEF Programs
  <2> QED BY <1>1, <2>2 DEF Idles
<1>2. CASE p.exit # Running
  <2>1. q = p
    BY <1>2 DEF myexit
  <2> QED BY <2>1 DEF Idles
<1> QED BY <1>1, <1>2

(* report_temp(), SHUTDOWN and the exits.                                   *)
LEMMA OthersIdle ==
  ASSUME NEW p \in Programs, NEW q,
         \/ q = CR!report_temp(p)
         \/ q = myexit(print_and_log(p, Shutdown), 0)
         \/ q = myexit(p, 1)
  PROVE  Idles(p, q)
<1>1. CASE q = CR!report_temp(p)
  <2>1. q = print_and_log(p, Report(p.scale))
    BY <1>1, SameOperators DEF CR!report_temp
  <2>2. Report(p.scale) \in Entries /\ ~IsCommand(Report(p.scale))
    <3>1. p.scale \in {"C", "F"}
      BY DEF Programs
    <3> QED BY <3>1, EntriesAre DEF Report, IsCommand
  <2> QED BY <2>1, <2>2, LogsCommands DEF Idles
<1>2. CASE q = myexit(print_and_log(p, Shutdown), 0)
  <2>1. PICK r : r = print_and_log(p, Shutdown)
    OBVIOUS
  <2>2. Shutdown \in Entries /\ ~IsCommand(Shutdown)
    BY EntriesAre DEF Shutdown, IsCommand
  <2>3. /\ r \in Programs /\ r.should_log = p.should_log /\ r.cur_cmd = p.cur_cmd
        /\ Commands(r.log) = Commands(p.log) /\ r.exit = p.exit
    BY <2>1, <2>2, LogsCommands
  <2>4. q = myexit(r, 0)
    BY <1>2, <2>1
  <2>5. Idles(r, q)
    BY <2>3, <2>4, Exits
  <2> QED BY <2>3, <2>5 DEF Idles
<1>3. CASE q = myexit(p, 1)
  BY <1>3, Exits
<1> QED BY <1>1, <1>2, <1>3

(* proc_cur_cmd() logs the line.                                           *)
LEMMA ProcLogs ==
  ASSUME NEW p \in Programs, p.exit = Running, NEW q, q = CR!proc_cur_cmd(p)
  PROVE  /\ q \in Programs /\ q.should_log = p.should_log
         /\ p.should_log => Commands(q.log) = Append(Commands(p.log), p.cur_cmd)
<1> DEFINE e == Command(p.cur_cmd)
           r == just_log(p, e)
           c == p.cur_cmd
<1>1. e \in Entries /\ IsCommand(e) /\ e.text = p.cur_cmd
  <2>1. p.cur_cmd \in Texts
    BY DEF Programs
  <2> QED BY <2>1, EntriesAre DEF Command, IsCommand
<1>2. /\ r \in Programs /\ r.should_log = p.should_log
      /\ p.should_log => Commands(r.log) = Append(Commands(p.log), p.cur_cmd)
  BY <1>1, LogsCommands
<1>3. \/ q = myexit(print_and_log(r, Shutdown), 0)
      \/ q \in {r, [r EXCEPT !.should_stop = TRUE], [r EXCEPT !.should_stop = FALSE],
                [r EXCEPT !.scale = "F"], [r EXCEPT !.scale = "C"],
                [r EXCEPT !.period = CR!atoi(Tail(c))]}
  <2>1. r = CR!just_log(p, CR!Command(p.cur_cmd))
    BY SameOperators
  <2>2. q = CASE c = OFF -> myexit(print_and_log(r, Shutdown), 0)
              [] c = STOP -> [r EXCEPT !.should_stop = TRUE]
              [] c = START -> [r EXCEPT !.should_stop = FALSE]
              [] c = SCALE("F") -> [r EXCEPT !.scale = "F"]
              [] c = SCALE("C") -> [r EXCEPT !.scale = "C"]
              [] Len(c) > 1 /\ c[1] = "PERIOD=" -> [r EXCEPT !.period = CR!atoi(Tail(c))]
              [] OTHER -> r
    BY <2>1, SameOperators DEF CR!proc_cur_cmd
  <2> HIDE DEF r, c
  <2> QED BY <2>2
<1> HIDE DEF r, e
<1>4. CASE q = myexit(print_and_log(r, Shutdown), 0)
  <2>1. Idles(r, q)
    BY <1>2, <1>4, OthersIdle
  <2> QED BY <1>2, <2>1 DEF Idles
<1>5. ASSUME q \in {r, [r EXCEPT !.should_stop = TRUE], [r EXCEPT !.should_stop = FALSE],
                    [r EXCEPT !.scale = "F"], [r EXCEPT !.scale = "C"],
                    [r EXCEPT !.period = CR!atoi(Tail(c))]}
      PROVE  q \in Programs /\ q.should_log = r.should_log /\ q.log = r.log
  <2>1. CR!atoi(Tail(c)) \in 0..MaxPeriod
    <3>1. CR!atoi(Tail(c)) \in {0, 1, 2}
      BY DEF CR!atoi
    <3> QED BY <3>1, PeriodsAssumption
  <2> QED BY <1>2, <1>5, <2>1 DEF Programs
<1> QED BY <1>2, <1>3, <1>4, <1>5

(* One turn of read_command() obeys what one more piece says.               *)
LEMMA ReadCharObeys ==
  ASSUME NEW p \in Programs, NEW u \in Texts, NEW ch \in Pieces, Obeyed(p, u),
         NEW q, q = CR!read_char(p, ch)
  PROVE  Obeyed(q, Append(u, ch))
<1> DEFINE line == Unfinished(u)
           lines == CR!Lines(u)
<1>1. PICK t : t = Append(u, ch)
  OBVIOUS
<1>2. /\ lines \in Seq(Texts) /\ line \in Texts
      /\ ch = CR!Newline => CR!Lines(t) = Append(lines, line) /\ Unfinished(t) = <<>>
      /\ ch # CR!Newline => /\ CR!Lines(t) = lines
                            /\ Unfinished(t) = IF line = <<>> /\ ch \in CR!Blanks
                                                 THEN <<>> ELSE Append(line, ch)
  BY <1>1, LinesGrow
<1>3. /\ p.exit = Running => p.cur_cmd = line
      /\ p.should_log => /\ IsPrefix(Commands(p.log), lines)
                         /\ p.exit = Running => Commands(p.log) = lines
  BY DEF Obeyed
<1> HIDE DEF line, lines
<1>4. Commands(p.log) \in Seq(Texts)
  <2>1. p.log \in Seq(Entries)
    BY DEF Programs
  <2> QED BY <2>1, CommandsGrow, EntriesAre
<1>5. p.should_log => IsPrefix(Commands(p.log), CR!Lines(t))
  BY <1>2, <1>3, <1>4, BeginningsStay
<1>6. CR!Newline \notin CR!Blanks
  BY DEF CR!Newline, CR!Blanks
<1>7. CASE p.exit # Running
  <2>1. q = p
    BY <1>7, SameOperators DEF CR!read_char
  <2> QED BY <1>1, <1>5, <1>7, <2>1 DEF Obeyed
<1>8. CASE p.exit = Running /\ p.cur_cmd = <<>> /\ ch \in CR!Blanks
  <2>1. q = p
    BY <1>8 DEF CR!read_char
  <2>2. CR!Lines(t) = lines /\ Unfinished(t) = <<>>
    BY <1>2, <1>3, <1>6, <1>8
  <2> QED BY <1>1, <1>3, <1>8, <2>1, <2>2 DEF Obeyed
<1>9. CASE p.exit = Running /\ ch = CR!Newline
  <2>1. PICK r : r = CR!proc_cur_cmd(p)
    OBVIOUS
  <2>2. q = [r EXCEPT !.cur_cmd = <<>>]
    BY <1>6, <1>9, <2>1, SameOperators DEF CR!read_char
  <2>3. /\ r \in Programs /\ r.should_log = p.should_log
        /\ p.should_log => Commands(r.log) = Append(Commands(p.log), p.cur_cmd)
    BY <1>9, <2>1, ProcLogs
  <2>4. q.cur_cmd = <<>> /\ q.log = r.log /\ q.should_log = r.should_log
    BY <2>2, <2>3 DEF Programs
  <2>5. CR!Lines(t) = Append(lines, line) /\ Unfinished(t) = <<>>
    BY <1>2, <1>9
  <2>6. p.should_log => Commands(q.log) = CR!Lines(t)
    BY <1>3, <1>9, <2>3, <2>4, <2>5
  <2>7. CR!Lines(t) \in Seq(Texts) /\ IsPrefix(CR!Lines(t), CR!Lines(t))
    <3>1. Append(lines, line) \in Seq(Texts)
      BY <1>2, AppendProperties
    <3> QED BY <1>2, <2>5, <3>1, BeginningsStay
  <2> QED BY <1>1, <2>3, <2>4, <2>5, <2>6, <2>7 DEF Obeyed
<1>10. CASE p.exit = Running /\ ~(p.cur_cmd = <<>> /\ ch \in CR!Blanks) /\ ch # CR!Newline
  <2>1. CR!Lines(t) = lines /\ Unfinished(t) = Append(line, ch)
    BY <1>2, <1>3, <1>10
  <2>2. CASE q = myexit(p, 1)
    <3>1. q = [p EXCEPT !.exit = 1]
      BY <1>10, <2>2 DEF myexit
    <3>2. q.exit # Running /\ q.log = p.log /\ q.should_log = p.should_log
      BY <3>1 DEF Programs, Running
    <3> QED BY <1>1, <1>5, <3>2 DEF Obeyed
  <2>3. CASE q = [p EXCEPT !.cur_cmd = Append(@, ch)]
    <3>1. /\ q.cur_cmd = Append(p.cur_cmd, ch) /\ q.log = p.log /\ q.should_log = p.should_log
          /\ q.exit = p.exit
      BY <2>3 DEF Programs
    <3> QED BY <1>1, <1>3, <1>5, <1>10, <2>1, <3>1 DEF Obeyed
  <2>4. q = myexit(p, 1) \/ q = [p EXCEPT !.cur_cmd = Append(@, ch)]
    BY <1>10, SameOperators DEF CR!read_char
  <2> QED BY <2>2, <2>3, <2>4
<1> QED BY <1>7, <1>8, <1>9, <1>10

(* What the loop reads after a read() whose data are text, and are not      *)
(* followed by other data: these data.                                      *)
LEMMA FreshText ==
  ASSUME NEW old \in Texts, Len(old) = BUFSIZ, NEW data \in Texts, Len(data) <= BUFSIZ,
         \A i \in 1..Len(data) : data[i] # CR!NUL,
         NEW b \in CR!Filled(old, data), Len(CR!Text(b)) <= Len(data)
  PROVE  /\ Len(CR!Text(b)) = Len(data)
         /\ \A i \in 1..Len(data) : CR!Text(b)[i] = data[i]
<1> DEFINE I == {i \in 1..Len(b) : b[i] = CR!NUL}
           nul == IF I # {} THEN CR!Min(I) ELSE 0
<1>1. CR!Text(b) = IF nul = 0 THEN b ELSE SubSeq(b, 1, nul - 1)
  BY DEF CR!Text, CR!SelectInSeq
<1>2. b \in Texts /\ Len(b) = BUFSIZ
  BY FilledIs
<1>3. BUFSIZ \in Nat /\ Len(data) \in Nat
  BY SizesAssumption DEF Texts
<1>4. \A i \in 1..Len(data) : b[i] = data[i]
  <2>1. PICK rest \in {old, [i \in DOMAIN old |-> CR!NUL]} :
           b = data \o SubSeq(rest, Len(data) + 1, Len(old))
    BY DEF CR!Filled
  <2>2. rest \in Texts
    <3>1. CASE rest = old
      BY <3>1
    <3>2. CASE rest = [i \in DOMAIN old |-> CR!NUL]
      <4>1. DOMAIN old = 1..BUFSIZ
        BY DEF Texts
      <4>2. CR!NUL \in Pieces
        BY DEF Pieces
      <4>3. rest \in [1..BUFSIZ -> Pieces]
        BY <3>2, <4>1, <4>2
      <4> QED BY <1>3, <4>3 DEF Texts
    <3> QED BY <3>1, <3>2
  <2>3. PICK end : end = SubSeq(rest, Len(data) + 1, BUFSIZ)
    OBVIOUS
  <2>4. end \in Texts
    BY <1>3, <2>2, <2>3 DEF Texts
  <2>5. b = data \o end
    BY <2>1, <2>3
  <2> QED BY <2>4, <2>5, ConcatProperties DEF Texts
<1>5. I \in SUBSET (1..Len(b)) /\ \A i \in I : i \notin 1..Len(data)
  BY <1>4
<1> HIDE DEF I
<1>6. CASE I # {}
  <2>1. CR!Min(I) \in I
    <3>1. CR!Min(I) = Min(I)
      BY DEF CR!Min, Min
    <3> QED BY <1>2, <1>3, <1>5, <1>6, <3>1, MinIsIn
  <2>2. nul \in 1..Len(b) /\ Len(data) < nul
    <3>1. CR!Min(I) \in 1..Len(b) /\ CR!Min(I) \notin 1..Len(data)
      BY <1>5, <2>1
    <3>2. nul = CR!Min(I)
      BY <1>6
    <3> HIDE DEF nul
    <3> QED BY <1>2, <1>3, <3>1, <3>2
  <2> HIDE DEF nul
  <2>3. nul \in Nat \ {0} /\ nul - 1 <= Len(b)
    BY <1>2, <1>3, <2>2
  <2>4. CR!Text(b) = SubSeq(b, 1, nul - 1)
    BY <1>1, <2>3
  <2>5. Len(CR!Text(b)) = nul - 1 /\ \A i \in 1..(nul - 1) : CR!Text(b)[i] = b[i]
    BY <1>2, <2>3, <2>4 DEF Texts
  <2>6. nul - 1 = Len(data)
    BY <1>3, <2>2, <2>3, <2>5
  <2> QED BY <1>4, <2>5, <2>6
<1>7. CASE I = {}
  <2>1. CR!Text(b) = b
    BY <1>1, <1>7
  <2>2. Len(data) = Len(b)
    BY <1>2, <1>3, <2>1
  <2> QED BY <1>4, <2>1, <2>2
<1> QED BY <1>6, <1>7
-----------------------------------------------------------------------------
(* The lines are the typed ones: what is typed is text, and until a read     *)
(* takes other data for input, what is taken of it is what is obeyed.       *)

LinesInv ==
  /\ \A i \in 1..Len(script) : script[i] # CR!NUL
  /\ ~stale => Obeyed(prog, SubSeq(script, 1, taken))

LEMMA InitLines == Init => LinesInv
<1> SUFFICES ASSUME Init PROVE LinesInv
  OBVIOUS
<1>1. script \in Scripts /\ taken = 0
  BY DEF Init
<1>2. script \in Texts
  BY InitInv DEF Inv
<1>3. \A i \in 1..Len(script) : script[i] # CR!NUL
  BY <1>1, <1>2, NoNULAssumption DEF Texts
<1>4. SubSeq(script, 1, taken) = <<>>
  BY <1>1, <1>2, SubSeqEmpty DEF Texts
<1>5. prog.cur_cmd = <<>> /\ prog.log = <<>>
  BY DEF Init, Globals
<1>6. IsPrefix(<<>>, <<>>)
  BY DEF IsPrefix
<1>7. Obeyed(prog, <<>>)
  BY <1>5, <1>6, LinesOfNothing, CommandsOfNothing DEF Obeyed
<1> QED BY <1>3, <1>4, <1>7 DEF LinesInv

(* The read_command() step.                                                *)
LEMMA ReadObeys ==
  ASSUME Inv, LinesInv, read_command, ~stale'
  PROVE  Obeyed(prog', SubSeq(script, 1, taken'))
<1> DEFINE data == SubSeq(script, taken + 1, Min({typed, taken + BUFSIZ}))
           text == CR!Text(buf')
           m == Len(data)
<1>a. PICK s \in {"C", "F"} : Good(prog, s)
  BY DEF Inv
<1>b. /\ prog \in Programs /\ buf \in Texts /\ Len(buf) = BUFSIZ
      /\ script \in Texts /\ typed \in 0..Len(script) /\ taken \in 0..typed
      /\ Len(script) \in Nat /\ BUFSIZ \in Nat /\ typed \in Nat /\ taken \in Nat
  BY <1>a, SizesAssumption DEF Inv, Good, Texts
<1>1. /\ buf' \in CR!Filled(buf, data) /\ taken' = taken + m /\ taken < typed
      /\ prog' = CR!obey(prog, buf')
      /\ ~stale /\ Len(text) <= m
  <2>1. stale' = (stale \/ Len(text) > m)
    BY DEF read_command
  <2>2. Len(text) \in Nat /\ m \in Nat
    <3>1. buf' \in Texts /\ text \in Texts
      <4>1. Inv'
        BY InvKept DEF Next, main
      <4> QED BY <4>1, TextIs DEF Inv
    <3>2. data \in Texts
      <4>1. Min({typed, taken + BUFSIZ}) \in Nat /\ Min({typed, taken + BUFSIZ}) <= Len(script)
        BY <1>b, MinIs
      <4> QED BY <1>b, <4>1, SamePart
    <3> QED BY <3>1, <3>2 DEF Texts
  <2>3. ~stale /\ ~(Len(text) > m)
    BY <2>1
  <2>4. Len(text) <= m
    <3> HIDE DEF text, m
    <3> QED BY <2>2, <2>3
  <2> QED BY <2>3, <2>4 DEF read_command
<1>2. /\ data \in Texts /\ m \in Nat /\ m <= BUFSIZ /\ taken + m <= Len(script)
      /\ \A i \in 1..m : data[i] = script[taken + i]
  <2>1. PICK end : end = Min({typed, taken + BUFSIZ})
    OBVIOUS
  <2>2. end \in Nat /\ end <= typed /\ end <= taken + BUFSIZ /\ taken + 1 <= end
    <3>1. end = IF typed <= taken + BUFSIZ THEN typed ELSE taken + BUFSIZ
      BY <1>b, <2>1, MinIs
    <3>2. taken < typed /\ 1 <= BUFSIZ
      BY <1>1, SizesAssumption
    <3> QED BY <1>b, <3>1, <3>2
  <2>3. /\ data \in Texts /\ m = end - (taken + 1) + 1
        /\ \A i \in 1..(end - (taken + 1) + 1) : data[i] = script[(taken + 1) + i - 1]
    <3>1. /\ script \in Seq(Pieces) /\ taken + 1 \in 1..(Len(script) + 1)
          /\ end \in ((taken + 1) - 1)..Len(script)
      BY <1>b, <2>2 DEF Texts
    <3>2. PICK first : first = taken + 1
      OBVIOUS
    <3>3. /\ SubSeq(script, first, end) \in Seq(Pieces)
          /\ Len(SubSeq(script, first, end)) = IF first <= end THEN end - first + 1 ELSE 0
          /\ \A i \in 1..(end - first + 1) : SubSeq(script, first, end)[i] = script[first + i - 1]
      BY <3>1, <3>2, SubSeqProperties
    <3> QED BY <2>1, <2>2, <3>2, <3>3 DEF Texts
  <2> HIDE DEF data, m
  <2>4. m = end - taken
    BY <1>b, <2>2, <2>3
  <2>5. \A i \in 1..m : (taken + 1) + i - 1 = taken + i /\ i \in 1..(end - (taken + 1) + 1)
    BY <1>b, <2>2, <2>4
  <2> QED BY <1>b, <2>2, <2>3, <2>4, <2>5
<1> HIDE DEF data, m, text
<1>3. Len(text) = m /\ \A i \in 1..m : text[i] = script[taken + i]
  <2>1. \A i \in 1..m : data[i] # CR!NUL
    <3>1. \A i \in 1..m : taken + i \in 1..Len(script)
      BY <1>b, <1>2
    <3> QED BY <1>2, <3>1 DEF LinesInv
  <2>2. Len(CR!Text(buf')) = Len(data) /\ \A i \in 1..Len(data) : CR!Text(buf')[i] = data[i]
    BY <1>b, <1>1, <1>2, <2>1, FreshText DEF m, text
  <2> QED BY <1>2, <2>2 DEF m, text
<1>4. \A i \in 1..m : text[i] \in Pieces /\ taken + i \in 1..Len(script)
  <2>1. \A i \in 1..m : taken + i \in 1..Len(script)
    BY <1>b, <1>2
  <2> QED BY <1>b, <1>3, <2>1, ElementOfSeq DEF Texts
<1> DEFINE S == {p \in Programs : Good(p, s)}
<1>5. PICK h \in [0..m -> S] :
        /\ h[0] = prog
        /\ \A i \in 1..m : h[i] = CR!read_char(h[i - 1], text[i])
        /\ CR!obey(prog, buf') = h[m]
  <2>1. ASSUME NEW p \in S, NEW i \in 1..m
        PROVE  CR!read_char(p, text[i]) \in S
    <3>1. Good(CR!read_char(p, text[i]), s)
      BY <1>4, ReadCharIsGood
    <3> QED BY <3>1 DEF Good
  <2>2. prog \in S
    BY <1>a, <1>b
  <2> HIDE DEF S
  <2>3. PICK b : b = buf'
    OBVIOUS
  <2>4. PICK p \in S : p = prog
    BY <2>2
  <2>5. /\ Len(CR!Text(b)) \in Nat
        /\ \A q \in S, i \in 1..Len(CR!Text(b)) : CR!read_char(q, CR!Text(b)[i]) \in S
    BY <1>2, <1>3, <2>1, <2>3 DEF text
  <2>6. \E h \in [0..Len(CR!Text(b)) -> S] :
          /\ h[0] = p
          /\ \A i \in 1..Len(CR!Text(b)) : h[i] = CR!read_char(h[i - 1], CR!Text(b)[i])
          /\ CR!obey(p, b) = h[Len(CR!Text(b))]
    BY <2>5, ObeyTurns
  <2> QED BY <1>3, <2>3, <2>4, <2>6 DEF text
<1> DEFINE read(i) == SubSeq(script, 1, taken + i)
           X == {i \in 0..m : ~Obeyed(h[i], read(i))}
<1>6. Obeyed(h[0], read(0))
  <2>1. taken + 0 = taken
    BY <1>b
  <2> QED BY <1>1, <1>5, <2>1 DEF LinesInv
<1>7. ASSUME NEW i \in 1..m, Obeyed(h[i - 1], read(i - 1))
      PROVE  Obeyed(h[i], read(i))
  <2>1. i - 1 \in 0..m /\ taken + (i - 1) \in Nat /\ taken + i <= Len(script) /\ taken + i \in Nat
    BY <1>b, <1>2
  <2>2. h[i - 1] \in Programs
    BY <1>5, <2>1
  <2>3. read(i - 1) \in Texts /\ read(i) = Append(read(i - 1), text[i])
    <3>1. PICK k \in 1..Len(script) : k = taken + i
      BY <1>4
    <3>2. SubSeq(script, 1, k) = SubSeq(script, 1, k - 1) \o <<script[k]>>
      BY <1>b, <3>1, SubSeqRecursiveSecond DEF Texts
    <3>3. SubSeq(script, 1, k - 1) \in Texts
      BY <1>b, SamePart
    <3>4. script[k] = text[i]
      BY <1>3, <3>1
    <3>5. taken + (i - 1) = k - 1
      BY <1>b, <3>1
    <3>6. SubSeq(script, 1, k - 1) \o <<text[i]>> = Append(SubSeq(script, 1, k - 1), text[i])
      BY <1>4, <3>3, AppendIsConcat DEF Texts
    <3>7. read(i) = SubSeq(script, 1, k) /\ read(i - 1) = SubSeq(script, 1, k - 1)
      BY <3>1, <3>5
    <3> HIDE DEF read
    <3> QED BY <3>2, <3>3, <3>4, <3>6, <3>7
  <2>4. h[i] = CR!read_char(h[i - 1], text[i]) /\ text[i] \in Pieces
    BY <1>4, <1>5
  <2> HIDE DEF read
  <2> QED BY <1>7, <2>2, <2>3, <2>4, ReadCharObeys
<1> HIDE DEF read
<1>8. X = {}
  <2> SUFFICES ASSUME X # {} PROVE FALSE
    OBVIOUS
  <2>1. PICK k \in X : \A j \in X : ~(<<j, k>> \in OpToRel(<, Nat))
    <3>1. X \subseteq Nat
      BY <1>2
    <3> HIDE DEF X
    <3> QED BY <3>1, NatLessThanWellFounded, WFMin
  <2>2. k \in 0..m /\ ~Obeyed(h[k], read(k))
    OBVIOUS
  <2>3. k # 0
    BY <1>6, <2>2
  <2>4. k \in 1..m /\ k - 1 \in 0..m /\ k - 1 < k /\ k - 1 \in Nat /\ k \in Nat
    BY <1>2, <2>2, <2>3
  <2>5. k - 1 \notin X
    BY <2>1, <2>4 DEF OpToRel
  <2>6. Obeyed(h[k - 1], read(k - 1))
    BY <2>4, <2>5
  <2> QED BY <1>7, <2>2, <2>4, <2>6
<1>9. m \in 0..m
  BY <1>2
<1>10. Obeyed(h[m], read(m))
  BY <1>8, <1>9
<1> QED BY <1>1, <1>5, <1>10 DEF read

LEMMA LinesKept == Inv /\ LinesInv /\ [Next]_vars => LinesInv'
<1> SUFFICES ASSUME Inv, LinesInv, [Next]_vars PROVE LinesInv'
  OBVIOUS
<1>1. prog \in Programs
  BY DEF Inv, Good
<1>2. CASE read_command
  <2>1. script' = script
    BY <1>2 DEF read_command, user
  <2> QED BY <1>2, <2>1, ReadObeys DEF LinesInv
<1>3. ASSUME Idles(prog, prog') \/ prog' = prog, UNCHANGED <<script, taken, stale>>
      PROVE  LinesInv'
  <2>1. ASSUME ~stale PROVE Obeyed(prog', SubSeq(script, 1, taken))
    <3>1. Obeyed(prog, SubSeq(script, 1, taken))
      BY <2>1 DEF LinesInv
    <3> QED BY <1>3, <3>1, IdleObeys
  <2> QED BY <1>3, <2>1 DEF LinesInv
<1>4. CASE InitSensors
  BY <1>1, <1>3, <1>4, OthersIdle DEF InitSensors, input, user
<1>5. CASE ReportTemperature
  BY <1>1, <1>3, <1>5, OthersIdle DEF ReportTemperature, input, user
<1>6. CASE CheckButton
  BY <1>1, <1>3, <1>6, OthersIdle DEF CheckButton, input, user
<1>7. CASE PollTimesOut \/ ReadNothing
  BY <1>3, <1>7 DEF PollTimesOut, ReadNothing, input, user
<1>8. CASE Type \/ CloseInput \/ Press \/ Tick
  BY <1>3, <1>8 DEF Type, CloseInput, Press, Tick, input, user
<1>9. CASE UNCHANGED vars
  BY <1>3, <1>9 DEF vars
<1> QED BY <1>2, <1>4, <1>5, <1>6, <1>7, <1>8, <1>9 DEF Next, main

(* However the reads cut the input, each line typed is obeyed once and in   *)
(* order, as long as no read takes for input what it did not read           *)
(* (lab4b.c:117).                                                          *)
THEOREM LinesAreObeyed == Spec => []LinesAreTheTypedOnesUnlessStale
<1>1. LinesInv => LinesAreTheTypedOnesUnlessStale
  BY DEF LinesInv, Obeyed, LinesAreTheTypedOnesUnlessStale, LinesAreTheTypedOnes
<1>2. Spec => []LinesInv
  BY InitLines, LinesKept, GlobalsAreGood, PTL DEF Spec
<1> QED BY <1>1, <1>2, PTL
=============================================================================
