-------------------------- MODULE RunServicesProofs --------------------------
(***************************************************************************)
(* Proofs about RunServices, and so about the serial log (SerialLog) and   *)
(* the monitoring (Monitoring) it composes: for files and buffers of any   *)
(* size, any number of backups, and whatever earlier versions left.        *)
(***************************************************************************)
EXTENDS RunServices, SequenceTheorems, TLAPS

-----------------------------------------------------------------------------
(* The pieces of the log, as one function. *)

Files   == [Slots -> {None} \cup Seq(Nat)]
Layouts == [Pieces -> Seq(Nat)]

Laid(f, c, s) ==
  [k \in Pieces |-> IF k = 0 THEN f ELSE IF k = 1 THEN c
                    ELSE IF s[k - 2] = None THEN <<>> ELSE s[k - 2]]

\* From the last piece to the first, all was printed in order, and n is not before any.
Sorted(P, n) ==
  /\ \A k, l \in Pieces : \A i \in DOMAIN P[k], j \in DOMAIN P[l] :
       l < k \/ (l = k /\ i < j) => Before(P[k][i], P[l][j])
  /\ \A k \in Pieces : \A i \in DOMAIN P[k] : P[k][i] <= n

\* Of the bytes that were printed, those after a and none before, up to n.
Holds(P, a, n) ==
  /\ \A k \in Pieces : \A i \in DOMAIN P[k] : P[k][i] = 0 \/ P[k][i] > a
  /\ \A b \in (a + 1)..n : \E k \in Pieces : \E i \in DOMAIN P[k] : P[k][i] = b

\* The first n of a piece move to the end of the next one.
Poured(P, a, n) ==
  [P EXCEPT ![a + 1] = P[a + 1] \o SubSeq(P[a], 1, n), ![a] = SubSeq(P[a], n + 1, Len(P[a]))]

\* What that makes of a layout P, byte by byte.
Passed(P, Q, a, n) ==
  /\ \A k \in Pieces : k # a /\ k # a + 1 => Q[k] = P[k]
  /\ DOMAIN Q[a] = 1..(Len(P[a]) - n)
  /\ \A i \in 1..(Len(P[a]) - n) : Q[a][i] = P[a][n + i]
  /\ DOMAIN Q[a + 1] = 1..(Len(P[a + 1]) + n)
  /\ \A i \in 1..(Len(P[a + 1]) + n) :
       Q[a + 1][i] = IF i <= Len(P[a + 1]) THEN P[a + 1][i] ELSE P[a][i - Len(P[a + 1])]

\* A piece is lost.
Without(P, a) == [P EXCEPT ![a] = <<>>]

\* The byte printed last of a file's.
Newest(s) == IF s = None \/ s = <<>> THEN 0 ELSE s[Len(s)]

-----------------------------------------------------------------------------
(* The invariant of the log. *)

LogTypes ==
  /\ slots \in Files /\ fifo \in Seq(Nat) /\ chunk \in Seq(Nat)
  /\ produced \in Nat /\ whole \in BOOLEAN
  /\ copier[1] = "open" => copier[2] \in Slots
  /\ copier[1] = "rotate" => copier[2] \in 0..MaxBackups

\* The copy loop has a log only while it runs, and something to write until it reads again.
Unready == copier[1] \in {"none", "open", "pipe", "failed"}
Busy    == copier[1] \in {"write", "rotate", "reopen"}

Copying ==
  /\ main = "off" => copier[1] = "none"
  /\ main \notin {"off", "sink"} => ~Unready
  /\ Unready => fifo = <<>> /\ writers = {}
  /\ Busy <=> chunk # <<>>
  /\ output # "none" <=> Busy \/ copier[1] = "read"
  /\ output \notin {"none", "open"} => ~whole
  /\ Busy => output = "open"

\* A rotation has made room in slot k + 1 for what is in slot k.
Rotating ==
  /\ copier[1] = "pipe" => slots[0] # None
  /\ output = "open" /\ copier[1] # "reopen" => slots[0] # None
  /\ copier[1] = "rotate" =>
       /\ Len(slots[0]) = MaxSize
       /\ copier[2] # MaxBackups => slots[copier[2] + 1] = None
  /\ copier[1] = "reopen" => slots[0] = None

\* The sink has seen the file.
Seen(i) ==
  \/ produced > 0 \/ ~Unready \/ copier[1] = "pipe"
  \/ copier[1] = "open" /\ i # 0 /\ (copier[2] = 0 \/ i < copier[2])

Sized == \A i \in Slots : Seen(i) /\ slots[i] # None => Len(slots[i]) <= MaxSize

\* The stale backup is from before.
Ordered == Sorted(Laid(fifo, chunk, slots), produced) /\ Newest(slots[Stale]) = 0

-----------------------------------------------------------------------------
(* What a log that is whole holds. *)

Size(v) == v * MaxSize
Pos(n)  == IF n > 0 THEN n ELSE 0

\* Where a rotation has the file that was number v when it began; the oldest it keeps.
Moved(v) == copier[1] = "reopen" \/ (copier[1] = "rotate" /\ v > copier[2])
Home(v)  == IF Moved(v) THEN v + 1 ELSE v
Oldest   == IF Moved(MaxBackups) THEN MaxBackups - 1 ELSE MaxBackups

\* What was written, of it what is not in the active file.
Written == produced - Len(fifo) - Len(chunk)
Active  == IF copier[1] = "reopen" THEN MaxSize ELSE IF slots[0] = None THEN 0 ELSE Len(slots[0])
Edge    == Written - Active

\* Each file ends where the next one began, as if every backup were full, and what is
\* before the oldest is all that is gone.
Complete ==
  whole =>
    /\ Written \in Nat
    /\ \A i \in DOMAIN fifo : fifo[i] = Written + Len(chunk) + i
    /\ \A i \in DOMAIN chunk : chunk[i] = Written + i
    /\ Active > 0 => Newest(slots[Home(0)]) = Written
    /\ \A v \in 1..Oldest : Newest(slots[Home(v)]) = Pos(Edge - Size(v - 1))
    /\ Holds(Laid(fifo, chunk, slots), Pos(Edge - Size(Oldest)), produced)

LogInv == LogTypes /\ Copying /\ Rotating /\ Sized /\ Ordered /\ Complete

-----------------------------------------------------------------------------
(* The invariant of the monitoring. *)

States == RunStates \cup {"none"}
Snapshots ==
  [state : States, ping : {"none", "ok", "failed"},
   of : [Keys -> [status : {"pending", "ok", "failed"}, success : Int]]]
Works == [ok : BOOLEAN, state : States, at : Int]

MonTypes ==
  /\ now \in Nat /\ due \subseteq {"qmp", "guest"}
  /\ cache \in Snapshots /\ copy \in [{"collector", "ping"} -> Snapshots]
  /\ work \in [{"collector", "ping"} -> Works] /\ newest \in Works
  /\ collector[1] \in {"none", "seeded", "select", "ended"} => collector[2] = "idle"
  /\ ping[1] = "none" => ping[2] = "idle"

\* Before the monitoring begins.
Early == {"off", "sink", "start", "monitor"}

\* One goroutine at a time updates the snapshot, and starts from the one that is published.
Updating ==
  /\ main \in Early => server = "none"
  /\ server = "none" => collector = <<"none", "idle">> /\ ping = <<"none", "idle">>
  /\ \A a \in {"collector", "ping"} : mu = a => copy[a] = cache
  /\ collector[2] = "store" <=> mu = "collector"
  /\ ping[2] = "store" <=> mu = "ping"

\* What is published of QEMU is what was observed last, and when.
Current ==
  /\ newest.ok => newest.at \in Nat
  /\ collector[2] \in {"update", "store"} => work["collector"].at \in Nat
  /\ cache.of["qmp"].status = "ok" =>
       newest.ok /\ cache.state = newest.state /\ cache.of["qmp"].success = newest.at

MonInv == MonTypes /\ Updating /\ Current

-----------------------------------------------------------------------------
(* Sequences, and pieces of a log. *)

\* The bounds the code compiles in are positive numbers.
LEMMA Bounds == MaxSize \in Nat /\ MaxSize > 0 /\ MaxBackups \in Nat /\ MaxBackups > 0
                /\ BufferSize \in Nat /\ BufferSize > 0
BY SerialAssumption

LEMMA Splits ==
  ASSUME NEW s \in Seq(Nat), NEW n \in 0..Len(s)
  PROVE  /\ SubSeq(s, 1, n) \in Seq(Nat) /\ SubSeq(s, n + 1, Len(s)) \in Seq(Nat)
         /\ Len(SubSeq(s, 1, n)) = n /\ Len(SubSeq(s, n + 1, Len(s))) = Len(s) - n
         /\ \A i \in 1..n : SubSeq(s, 1, n)[i] = s[i]
         /\ \A i \in 1..(Len(s) - n) : SubSeq(s, n + 1, Len(s))[i] = s[n + i]
<1>1. Len(s) \in Nat /\ n \in Int /\ n + 1 \in Int /\ 1 \in Int
  BY LenProperties
<1>2. /\ \A i \in 1..n : s[i] \in Nat
      /\ \A i \in (n + 1)..Len(s) : s[i] \in Nat
  BY <1>1, ElementOfSeq
<1>3. /\ SubSeq(s, 1, n) \in Seq(Nat)
      /\ Len(SubSeq(s, 1, n)) = IF 1 <= n THEN n - 1 + 1 ELSE 0
      /\ \A i \in 1..(n - 1 + 1) : SubSeq(s, 1, n)[i] = s[1 + i - 1]
  BY <1>1, <1>2, SubSeqProperties
<1>4. /\ SubSeq(s, n + 1, Len(s)) \in Seq(Nat)
      /\ Len(SubSeq(s, n + 1, Len(s))) = IF n + 1 <= Len(s) THEN Len(s) - (n + 1) + 1 ELSE 0
      /\ \A i \in 1..(Len(s) - (n + 1) + 1) : SubSeq(s, n + 1, Len(s))[i] = s[n + 1 + i - 1]
  BY <1>1, <1>2, SubSeqProperties
<1>5. /\ \A i \in 1..n : 1 + i - 1 = i
      /\ \A i \in 1..(Len(s) - n) : n + 1 + i - 1 = n + i
      /\ n - 1 + 1 = n /\ Len(s) - (n + 1) + 1 = Len(s) - n
      /\ (IF 1 <= n THEN n - 1 + 1 ELSE 0) = n
      /\ (IF n + 1 <= Len(s) THEN Len(s) - (n + 1) + 1 ELSE 0) = Len(s) - n
  BY <1>1
<1> QED BY <1>3, <1>4, <1>5

\* A piece holds what its file, the pipe or the buffer holds.
LEMMA LaidIs ==
  ASSUME NEW f \in Seq(Nat), NEW c \in Seq(Nat), NEW s \in Files
  PROVE  /\ Laid(f, c, s) \in Layouts
         /\ Laid(f, c, s)[0] = f /\ Laid(f, c, s)[1] = c
         /\ \A i \in Slots : /\ i + 2 \in Pieces
                             /\ Laid(f, c, s)[i + 2] = IF s[i] = None THEN <<>> ELSE s[i]
         /\ \A k \in Pieces \ {0, 1} : k - 2 \in Slots
<1>1. /\ 0 \in Pieces /\ 1 \in Pieces
      /\ \A i \in Slots : i + 2 \in Pieces /\ i + 2 # 0 /\ i + 2 # 1 /\ i + 2 - 2 = i
      /\ \A k \in Pieces \ {0, 1} : k - 2 \in Slots
  BY Bounds DEF Pieces, Slots, Stale
<1>2. \A i \in Slots : s[i] = None \/ s[i] \in Seq(Nat)
  BY DEF Files
<1>3. <<>> \in Seq(Nat)
  BY EmptySeq
<1>4. ASSUME NEW k \in Pieces PROVE Laid(f, c, s)[k] \in Seq(Nat)
  <2>1. CASE k = 0 \/ k = 1
    BY <2>1 DEF Laid
  <2>2. CASE k \notin {0, 1}
    <3>1. s[k - 2] = None \/ s[k - 2] \in Seq(Nat)
      BY <1>1, <1>2, <2>2
    <3> QED BY <1>3, <2>2, <3>1 DEF Laid
  <2> QED BY <2>1, <2>2
<1>5. Laid(f, c, s) \in Layouts
  BY <1>4 DEF Laid, Layouts
<1>6. Laid(f, c, s)[0] = f /\ Laid(f, c, s)[1] = c
  BY <1>1 DEF Laid
<1>7. \A i \in Slots : Laid(f, c, s)[i + 2] = IF s[i] = None THEN <<>> ELSE s[i]
  BY <1>1 DEF Laid
<1> QED BY <1>1, <1>5, <1>6, <1>7

\* Two layouts are the same if their pieces are.
LEMMA SameLayout ==
  ASSUME NEW P \in Layouts, NEW Q \in Layouts, \A k \in Pieces : P[k] = Q[k]
  PROVE  P = Q
BY DEF Layouts

LEMMA PieceOf ==
  ASSUME NEW P \in Layouts, NEW k \in Pieces
  PROVE  /\ P[k] \in Seq(Nat) /\ Len(P[k]) \in Nat /\ DOMAIN P[k] = 1..Len(P[k])
         /\ \A i \in DOMAIN P[k] : P[k][i] \in Nat
<1>1. P[k] \in Seq(Nat)
  BY DEF Layouts
<1> QED BY <1>1, LenProperties, ElementOfSeq

\* What a piece ends with is the greatest it holds.
LEMMA NewestIs ==
  ASSUME NEW P \in Layouts, NEW n, Sorted(P, n), NEW k \in Pieces, P[k] # <<>>
  PROVE  /\ Len(P[k]) \in DOMAIN P[k] /\ Len(P[k]) > 0
         /\ \A i \in DOMAIN P[k] : P[k][i] <= P[k][Len(P[k])]
<1>1. Len(P[k]) \in Nat \ {0}
  BY EmptySeq, PieceOf
<1>2. /\ DOMAIN P[k] = 1..Len(P[k])
      /\ \A i \in DOMAIN P[k] : P[k][i] \in Nat
  BY PieceOf
<1>3. ASSUME NEW i \in DOMAIN P[k] PROVE P[k][i] <= P[k][Len(P[k])]
  <2>1. i = Len(P[k]) \/ i < Len(P[k])
    BY <1>1, <1>2
  <2>2. i < Len(P[k]) => Before(P[k][i], P[k][Len(P[k])])
    BY <1>1, <1>2 DEF Sorted
  <2> QED BY <1>1, <1>2, <2>1, <2>2 DEF Before
<1> QED BY <1>1, <1>2, <1>3

\* A piece moves on: what it passes by is nothing.
LEMMA PouringIs ==
  ASSUME NEW P \in Layouts, NEW a \in Pieces, a + 1 \in Pieces, NEW n \in 0..Len(P[a])
  PROVE  /\ Poured(P, a, n) \in Layouts
         /\ Poured(P, a, n)[a] = SubSeq(P[a], n + 1, Len(P[a]))
         /\ Poured(P, a, n)[a + 1] = P[a + 1] \o SubSeq(P[a], 1, n)
         /\ Passed(P, Poured(P, a, n), a, n)
<1>1. a # a + 1 /\ a \in Int
  BY Bounds DEF Pieces, Stale
<1>2. /\ P[a] \in Seq(Nat) /\ P[a + 1] \in Seq(Nat)
      /\ Len(P[a]) \in Nat /\ Len(P[a + 1]) \in Nat
  BY PieceOf
<1> DEFINE front == SubSeq(P[a], 1, n)
           rest  == SubSeq(P[a], n + 1, Len(P[a]))
           Q     == Poured(P, a, n)
<1>3. /\ front \in Seq(Nat) /\ rest \in Seq(Nat) /\ Len(front) = n /\ Len(rest) = Len(P[a]) - n
      /\ \A i \in 1..n : front[i] = P[a][i]
      /\ \A i \in 1..(Len(P[a]) - n) : rest[i] = P[a][n + i]
  BY <1>2, Splits
<1>4. Q = [P EXCEPT ![a + 1] = P[a + 1] \o front, ![a] = rest]
  BY DEF Poured
<1> HIDE DEF front, rest, Q
<1>5. /\ P[a + 1] \o front \in Seq(Nat) /\ Len(P[a + 1] \o front) = Len(P[a + 1]) + n
      /\ \A i \in 1..(Len(P[a + 1]) + n) : (P[a + 1] \o front)[i] =
           IF i <= Len(P[a + 1]) THEN P[a + 1][i] ELSE front[i - Len(P[a + 1])]
  <2>1. /\ P[a + 1] \o front \in Seq(Nat) /\ Len(P[a + 1] \o front) = Len(P[a + 1]) + Len(front)
        /\ \A i \in 1..(Len(P[a + 1]) + Len(front)) : (P[a + 1] \o front)[i] =
             IF i <= Len(P[a + 1]) THEN P[a + 1][i] ELSE front[i - Len(P[a + 1])]
    <3> DEFINE back == P[a + 1]
    <3>1. back \in Seq(Nat) /\ front \in Seq(Nat)
      BY <1>2, <1>3
    <3> HIDE DEF back
    <3>2. /\ back \o front \in Seq(Nat) /\ Len(back \o front) = Len(back) + Len(front)
          /\ \A i \in 1..(Len(back) + Len(front)) : (back \o front)[i] =
               IF i <= Len(back) THEN back[i] ELSE front[i - Len(back)]
      BY <3>1, ConcatProperties
    <3> QED BY <3>2 DEF back
  <2> QED BY <1>3, <2>1
<1>6. /\ Q \in Layouts /\ Q[a] = rest /\ Q[a + 1] = P[a + 1] \o front
      /\ \A k \in Pieces : k # a /\ k # a + 1 => Q[k] = P[k]
  BY <1>1, <1>3, <1>4, <1>5 DEF Layouts
<1>7. DOMAIN rest = 1..(Len(P[a]) - n) /\ DOMAIN (P[a + 1] \o front) = 1..(Len(P[a + 1]) + n)
  BY <1>3, <1>5, LenProperties
<1>8. \A i \in 1..(Len(P[a + 1]) + n) : ~(i <= Len(P[a + 1])) => i - Len(P[a + 1]) \in 1..n
  BY <1>2
<1>9. \A i \in 1..(Len(P[a + 1]) + n) : (P[a + 1] \o front)[i] =
        IF i <= Len(P[a + 1]) THEN P[a + 1][i] ELSE P[a][i - Len(P[a + 1])]
  BY <1>3, <1>5, <1>8
<1>10. Passed(P, Q, a, n)
  BY <1>3, <1>6, <1>7, <1>9 DEF Passed
<1> QED BY <1>6, <1>10 DEF Q, front, rest

LEMMA PouringSorts ==
  ASSUME NEW P \in Layouts, NEW top \in Nat, Sorted(P, top),
         NEW a \in Pieces, a + 1 \in Pieces, NEW n \in 0..Len(P[a])
  PROVE  Sorted(Poured(P, a, n), top)
<1> DEFINE Q == Poured(P, a, n)
           m == Len(P[a + 1])
           \* Where a byte came from.
           K(k, i) == IF k = a THEN a ELSE IF k = a + 1 THEN IF i <= m THEN a + 1 ELSE a ELSE k
           I(k, i) == IF k = a THEN n + i ELSE IF k = a + 1 THEN IF i <= m THEN i ELSE i - m ELSE i
<1>1. a \in Int /\ n \in Int /\ m \in Nat /\ Len(P[a]) \in Nat
  BY Bounds, PieceOf DEF Pieces, Stale
<1>2. /\ \A k \in Pieces : k # a /\ k # a + 1 => Q[k] = P[k]
      /\ DOMAIN Q[a] = 1..(Len(P[a]) - n)
      /\ \A i \in 1..(Len(P[a]) - n) : Q[a][i] = P[a][n + i]
      /\ DOMAIN Q[a + 1] = 1..(m + n)
      /\ \A i \in 1..(m + n) : Q[a + 1][i] = IF i <= m THEN P[a + 1][i] ELSE P[a][i - m]
  <2>1. Passed(P, Poured(P, a, n), a, n)
    BY PouringIs
  <2> QED BY <2>1 DEF Passed
<1>3. /\ DOMAIN P[a] = 1..Len(P[a]) /\ DOMAIN P[a + 1] = 1..m
      /\ \A k \in Pieces : DOMAIN P[k] = 1..Len(P[k])
  BY PieceOf
<1>7. \A k \in Pieces : k \in Int
  BY Bounds DEF Pieces, Stale
<1> HIDE DEF Q, m
<1>4. ASSUME NEW k \in Pieces, NEW i \in DOMAIN Q[k]
      PROVE  /\ K(k, i) \in Pieces /\ I(k, i) \in DOMAIN P[K(k, i)]
             /\ Q[k][i] = P[K(k, i)][I(k, i)]
             /\ k \in Int /\ i \in Int
             /\ k = a + 1 /\ i > m => I(k, i) <= n
  <2>1. CASE k = a
    <3>1. i \in 1..(Len(P[a]) - n) /\ Q[a][i] = P[a][n + i]
      <4>1. i \in DOMAIN Q[a] /\ DOMAIN Q[a] = 1..(Len(P[a]) - n)
        BY <1>2, <2>1
      <4> QED BY <1>2, <4>1
    <3>2. n + i \in 1..Len(P[a]) /\ i \in Int
      <4>1. n \in Nat
        BY <1>1
      <4> QED BY <1>1, <3>1, <4>1
    <3> QED BY <1>1, <1>3, <2>1, <3>1, <3>2
  <2>2. CASE k = a + 1
    <3>1. /\ i \in 1..(m + n) /\ k # a /\ k \in Int
          /\ Q[k][i] = IF i <= m THEN P[a + 1][i] ELSE P[a][i - m]
      <4>1. i \in DOMAIN Q[a + 1] /\ DOMAIN Q[a + 1] = 1..(m + n)
        BY <1>2, <2>2
      <4>2. i \in 1..(m + n) /\ Q[a + 1][i] = IF i <= m THEN P[a + 1][i] ELSE P[a][i - m]
        BY <1>2, <4>1
      <4> QED BY <1>1, <2>2, <4>2
    <3>2. CASE i <= m
      <4>1. K(k, i) = a + 1 /\ I(k, i) = i
        BY <2>2, <3>1, <3>2
      <4>2. i \in DOMAIN P[a + 1] /\ i \in Int /\ ~(i > m)
        BY <1>1, <1>3, <3>1, <3>2
      <4> QED BY <3>1, <3>2, <4>1, <4>2
    <3>3. CASE ~(i <= m)
      <4>1. K(k, i) = a /\ I(k, i) = i - m
        BY <2>2, <3>1, <3>3
      <4>2. i - m \in 1..n /\ i - m \in DOMAIN P[a] /\ i \in Int
        BY <1>1, <1>3, <3>1, <3>3
      <4> QED BY <3>1, <3>3, <4>1, <4>2
    <3> QED BY <3>2, <3>3
  <2>3. CASE k # a /\ k # a + 1
    BY <1>2, <1>3, <1>7, <2>3
  <2> QED BY <2>1, <2>2, <2>3
<1>5. ASSUME NEW k \in Pieces, NEW l \in Pieces, NEW i \in DOMAIN Q[k], NEW j \in DOMAIN Q[l],
             l < k \/ (l = k /\ i < j)
      PROVE  Before(Q[k][i], Q[l][j])
  <2>1. K(l, j) < K(k, i) \/ (K(l, j) = K(k, i) /\ I(k, i) < I(l, j))
    <3>1. k \in Int /\ i \in Int /\ l \in Int /\ j \in Int /\ (k = a + 1 /\ i > m => I(k, i) <= n)
      BY <1>4
    <3>2. CASE l < k
      <4>1. CASE k = a + 1 /\ l = a /\ i > m
        <5>1. j \in 1..(Len(P[a]) - n)
          BY <1>2, <4>1
        <5>2. K(l, j) = a /\ K(k, i) = a /\ I(l, j) = n + j /\ I(k, i) <= n
          BY <1>1, <3>1, <4>1
        <5> QED BY <1>1, <3>1, <5>1, <5>2
      <4>2. CASE ~(k = a + 1 /\ l = a /\ i > m)
        BY <1>1, <3>1, <3>2, <4>2
      <4> QED BY <4>1, <4>2
    <3>3. CASE l = k /\ i < j
      BY <1>1, <3>1, <3>3
    <3> QED BY <1>5, <3>2, <3>3
  <2> HIDE DEF K, I
  <2> QED BY <1>4, <2>1 DEF Sorted
<1>6. \A k \in Pieces : \A i \in DOMAIN Q[k] : Q[k][i] <= top
  <2> HIDE DEF K, I
  <2> QED BY <1>4 DEF Sorted
<1> QED BY <1>5, <1>6 DEF Q, Sorted

LEMMA PouringHolds ==
  ASSUME NEW P \in Layouts, NEW lo \in Nat, NEW top \in Nat, Holds(P, lo, top),
         NEW a \in Pieces, a + 1 \in Pieces, NEW n \in 0..Len(P[a])
  PROVE  Holds(Poured(P, a, n), lo, top)
<1> DEFINE Q == Poured(P, a, n)
           m == Len(P[a + 1])
<1>1. a \in Int /\ n \in Int /\ m \in Nat /\ Len(P[a]) \in Nat
  BY Bounds, PieceOf DEF Pieces, Stale
<1>2. /\ \A k \in Pieces : k # a /\ k # a + 1 => Q[k] = P[k]
      /\ DOMAIN Q[a] = 1..(Len(P[a]) - n)
      /\ \A i \in 1..(Len(P[a]) - n) : Q[a][i] = P[a][n + i]
      /\ DOMAIN Q[a + 1] = 1..(m + n)
      /\ \A i \in 1..(m + n) : Q[a + 1][i] = IF i <= m THEN P[a + 1][i] ELSE P[a][i - m]
  <2>1. Passed(P, Poured(P, a, n), a, n)
    BY PouringIs
  <2> QED BY <2>1 DEF Passed
<1>3. DOMAIN P[a] = 1..Len(P[a]) /\ DOMAIN P[a + 1] = 1..m
  BY PieceOf
<1> HIDE DEF Q, m
<1>4. ASSUME NEW k \in Pieces, NEW i \in DOMAIN Q[k]
      PROVE  \E l \in Pieces : \E j \in DOMAIN P[l] : P[l][j] = Q[k][i]
  <2>1. CASE k = a
    <3>1. i \in 1..(Len(P[a]) - n)
      BY <1>2, <2>1
    <3>2. n + i \in 1..Len(P[a])
      BY <1>1, <3>1
    <3>3. n + i \in DOMAIN P[a] /\ P[a][n + i] = Q[k][i]
      BY <1>2, <1>3, <2>1, <3>1, <3>2
    <3> QED BY <3>3
  <2>2. CASE k = a + 1
    <3>1. i <= m => i \in DOMAIN P[a + 1] /\ P[a + 1][i] = Q[k][i]
      BY <1>1, <1>2, <1>3, <2>2
    <3>2. ~(i <= m) => i - m \in DOMAIN P[a] /\ P[a][i - m] = Q[k][i]
      BY <1>1, <1>2, <1>3, <2>2
    <3> QED BY <3>1, <3>2
  <2>3. CASE k # a /\ k # a + 1
    BY <1>2, <2>3
  <2> QED BY <2>1, <2>2, <2>3
<1>5. ASSUME NEW k \in Pieces, NEW i \in DOMAIN P[k]
      PROVE  \E l \in Pieces : \E j \in DOMAIN Q[l] : Q[l][j] = P[k][i]
  <2>1. CASE k = a
    <3>1. i \in 1..Len(P[a])
      BY <1>3, <2>1
    <3>2. i <= n => \E j \in DOMAIN Q[a + 1] : Q[a + 1][j] = P[a][i]
      <4> DEFINE j == m + i
      <4>1. i <= n => j \in 1..(m + n) /\ ~(j <= m) /\ j - m = i
        BY <1>1, <3>1
      <4> HIDE DEF j
      <4>2. j \in 1..(m + n) /\ ~(j <= m) => Q[a + 1][j] = P[a][j - m]
        BY <1>2
      <4> QED BY <1>2, <4>1, <4>2
    <3>3. ~(i <= n) => i - n \in DOMAIN Q[a] /\ Q[a][i - n] = P[a][i]
      <4>1. ~(i <= n) => i - n \in 1..(Len(P[a]) - n) /\ n + (i - n) = i
        BY <1>1, <3>1
      <4> QED BY <1>2, <4>1
    <3> QED BY <2>1, <3>2, <3>3
  <2>2. CASE k = a + 1
    <3>1. i \in DOMAIN Q[a + 1] /\ Q[a + 1][i] = P[a + 1][i]
      BY <1>1, <1>2, <1>3, <2>2
    <3> QED BY <2>2, <3>1
  <2>3. CASE k # a /\ k # a + 1
    BY <1>2, <2>3
  <2> QED BY <2>1, <2>2, <2>3
<1>6. \A k \in Pieces : \A i \in DOMAIN Q[k] : Q[k][i] = 0 \/ Q[k][i] > lo
  BY <1>4 DEF Holds
<1>7. \A b \in (lo + 1)..top : \E k \in Pieces : \E i \in DOMAIN Q[k] : Q[k][i] = b
  BY <1>5 DEF Holds
<1> QED BY <1>6, <1>7 DEF Q, Holds

\* A piece that goes leaves the rest in order; if it was the oldest, the log begins after it.
LEMMA WithoutIs ==
  ASSUME NEW P \in Layouts, NEW a \in Pieces
  PROVE  /\ Without(P, a) \in Layouts /\ Without(P, a)[a] = <<>>
         /\ \A k \in Pieces : k # a => Without(P, a)[k] = P[k]
BY EmptySeq DEF Without, Layouts

LEMMA WithoutSorts ==
  ASSUME NEW P \in Layouts, NEW top \in Nat, Sorted(P, top), NEW a \in Pieces
  PROVE  Sorted(Without(P, a), top)
<1>1. /\ Without(P, a)[a] = <<>>
      /\ \A k \in Pieces : k # a => Without(P, a)[k] = P[k]
  BY WithoutIs
<1>2. \A i : i \notin DOMAIN <<>>
  OBVIOUS
<1> QED BY <1>1, <1>2 DEF Sorted

LEMMA WithoutHolds ==
  ASSUME NEW P \in Layouts, NEW lo \in Nat, NEW top \in Nat, Sorted(P, top), Holds(P, lo, top),
         NEW a \in Pieces, NEW m \in Nat, m = IF P[a] = <<>> THEN 0 ELSE P[a][Len(P[a])],
         m > 0 => \A k \in Pieces : k > a => \A i \in DOMAIN P[k] : P[k][i] = 0
  PROVE  Holds(Without(P, a), IF m > 0 THEN m ELSE lo, top)
<1> DEFINE Q == Without(P, a)
           now_lo == IF m > 0 THEN m ELSE lo
<1>1. Q[a] = <<>> /\ \A k \in Pieces : k # a => Q[k] = P[k]
  BY WithoutIs
<1>2. \A i : i \notin DOMAIN <<>>
  OBVIOUS
<1>3. \A k \in Pieces : k \in Int /\ \A i \in DOMAIN P[k] : P[k][i] \in Nat
  BY PieceOf DEF Pieces, Stale
<1>4. \A i \in DOMAIN P[a] : P[a] # <<>> /\ P[a][i] <= m
  BY <1>2, NewestIs
<1>5. m > 0 => Len(P[a]) \in DOMAIN P[a] /\ P[a][Len(P[a])] = m /\ m > lo
  <2>1. P[a] # <<>> => Len(P[a]) \in DOMAIN P[a]
    BY NewestIs
  <2> QED BY <2>1 DEF Holds
<1> HIDE DEF Q
<1>6. ASSUME NEW k \in Pieces, NEW i \in DOMAIN Q[k]
      PROVE  Q[k][i] = 0 \/ Q[k][i] > now_lo
  <2>1. k # a /\ Q[k] = P[k] /\ i \in DOMAIN P[k]
    BY <1>1, <1>2
  <2>2. m > 0 /\ k < a => Before(m, P[k][i])
    BY <1>5, <2>1 DEF Sorted
  <2>3. k > a \/ k < a
    BY <1>3, <2>1
  <2> QED BY <1>3, <2>1, <2>2, <2>3 DEF Holds, Before
<1>7. ASSUME NEW b \in (now_lo + 1)..top
      PROVE  \E k \in Pieces : \E i \in DOMAIN Q[k] : Q[k][i] = b
  <2>1. b \in (lo + 1)..top /\ b > m
    BY <1>5
  <2>2. PICK k \in Pieces : \E i \in DOMAIN P[k] : P[k][i] = b
    BY <2>1 DEF Holds
  <2>3. PICK i \in DOMAIN P[k] : P[k][i] = b
    BY <2>2
  <2>4. k # a
    BY <1>4, <2>1, <2>3
  <2> QED BY <1>1, <2>3, <2>4
<1> QED BY <1>6, <1>7 DEF Q, Holds

\* One more byte is printed.
LEMMA Printed ==
  ASSUME NEW P \in Layouts, NEW Q \in Layouts, NEW top \in Nat, Sorted(P, top),
         \A k \in Pieces : k # 0 => Q[k] = P[k], Q[0] = Append(P[0], top + 1)
  PROVE  /\ Sorted(Q, top + 1)
         /\ \A lo \in Nat : lo <= top /\ Holds(P, lo, top) => Holds(Q, lo, top + 1)
<1>1. 0 \in Pieces /\ \A k \in Pieces : k \in Int /\ k >= 0
  BY Bounds DEF Pieces, Stale
<1>2. /\ P[0] \in Seq(Nat) /\ Len(P[0]) \in Nat /\ DOMAIN P[0] = 1..Len(P[0])
      /\ \A k \in Pieces : \A i \in DOMAIN P[k] : P[k][i] \in Nat /\ P[k][i] <= top
  BY <1>1, PieceOf DEF Sorted
<1>3. /\ Q[0] \in Seq(Nat) /\ Len(Q[0]) = Len(P[0]) + 1
      /\ \A i \in 1..Len(P[0]) : Q[0][i] = P[0][i]
      /\ Q[0][Len(P[0]) + 1] = top + 1
  BY <1>2, AppendProperties
<1>4. DOMAIN Q[0] = 1..(Len(P[0]) + 1)
  BY <1>3, LenProperties
<1>5. ASSUME NEW k \in Pieces, NEW i \in DOMAIN Q[k]
      PROVE  \/ i \in DOMAIN P[k] /\ Q[k][i] = P[k][i]
             \/ k = 0 /\ i = Len(P[0]) + 1 /\ Q[k][i] = top + 1
  <2>1. CASE k = 0
    <3>1. i \in 1..Len(P[0]) \/ i = Len(P[0]) + 1
      BY <1>2, <1>4, <2>1
    <3> QED BY <1>2, <1>3, <2>1, <3>1
  <2>2. CASE k # 0
    BY <2>2
  <2> QED BY <2>1, <2>2
<1>6. ASSUME NEW k \in Pieces, NEW l \in Pieces, NEW i \in DOMAIN Q[k], NEW j \in DOMAIN Q[l],
             l < k \/ (l = k /\ i < j)
      PROVE  Before(Q[k][i], Q[l][j])
  <2>1. CASE l = 0 /\ j = Len(P[0]) + 1
    <3>1. ~(k = 0 /\ i = Len(P[0]) + 1)
      BY <1>6, <2>1, <1>2
    <3>2. i \in DOMAIN P[k] /\ Q[k][i] = P[k][i]
      BY <1>5, <3>1
    <3>3. Q[l][j] = top + 1
      BY <1>3, <2>1
    <3> QED BY <1>2, <3>2, <3>3 DEF Before
  <2>2. CASE ~(l = 0 /\ j = Len(P[0]) + 1)
    <3>1. j \in DOMAIN P[l] /\ Q[l][j] = P[l][j]
      BY <1>5, <2>2
    <3>2. ~(k = 0 /\ i = Len(P[0]) + 1)
      <4>1. l >= 0 /\ l \in Int
        BY <1>1
      <4>2. k = 0 => l = 0 /\ i < j
        BY <1>1, <1>6, <4>1
      <4> QED BY <1>2, <3>1, <4>2
    <3>3. i \in DOMAIN P[k] /\ Q[k][i] = P[k][i]
      BY <1>5, <3>2
    <3> QED BY <1>6, <3>1, <3>3 DEF Sorted
  <2> QED BY <2>1, <2>2
<1>7. \A k \in Pieces : \A i \in DOMAIN Q[k] : Q[k][i] <= top + 1
  BY <1>2, <1>5
<1>8. ASSUME NEW lo \in Nat, lo <= top, Holds(P, lo, top)
      PROVE  Holds(Q, lo, top + 1)
  <2>1. \A k \in Pieces : \A i \in DOMAIN Q[k] : Q[k][i] = 0 \/ Q[k][i] > lo
    BY <1>5, <1>8 DEF Holds
  <2>2. ASSUME NEW b \in (lo + 1)..(top + 1)
        PROVE  \E k \in Pieces : \E i \in DOMAIN Q[k] : Q[k][i] = b
    <3>1. CASE b = top + 1
      BY <1>1, <1>2, <1>3, <1>4, <3>1
    <3>2. CASE b # top + 1
      <4>1. b \in (lo + 1)..top
        BY <3>2
      <4>2. PICK k \in Pieces : \E i \in DOMAIN P[k] : P[k][i] = b
        BY <1>8, <4>1 DEF Holds
      <4>3. PICK i \in DOMAIN P[k] : P[k][i] = b
        BY <4>2
      <4>4. i \in DOMAIN Q[k] /\ Q[k][i] = P[k][i]
        <5>1. CASE k = 0
          <6>1. i \in 1..Len(P[0]) /\ i \in 1..(Len(P[0]) + 1)
            BY <1>2, <5>1
          <6> QED BY <1>3, <1>4, <5>1, <6>1
        <5>2. CASE k # 0
          BY <5>2
        <5> QED BY <5>1, <5>2
      <4> QED BY <4>3, <4>4
    <3> QED BY <3>1, <3>2
  <2> QED BY <2>1, <2>2 DEF Holds
<1> QED BY <1>6, <1>7, <1>8 DEF Sorted

-----------------------------------------------------------------------------
(* The log. *)

LEMMA Sizes ==
  /\ \A v \in Int : Size(v) \in Int /\ Size(v + 1) = Size(v) + MaxSize
  /\ \A v \in Nat : Size(v) \in Nat
  /\ Size(0) = 0
<1>1. MaxSize \in Nat
  BY Bounds
<1>2. \A v \in Int : v * MaxSize \in Int /\ (v + 1) * MaxSize = v * MaxSize + MaxSize
  BY <1>1
<1>3. \A v \in Nat : v * MaxSize \in Nat
  BY <1>1
<1>4. 0 * MaxSize = 0
  BY <1>1
<1> QED BY <1>2, <1>3, <1>4 DEF Size

LEMMA NewestOf ==
  ASSUME NEW f \in Seq(Nat), NEW c \in Seq(Nat), NEW s \in Files, NEW top \in Nat,
         Sorted(Laid(f, c, s), top), NEW i \in Slots
  PROVE  /\ Newest(s[i]) \in Nat /\ Newest(s[i]) <= top
         /\ Newest(s[i]) = IF Laid(f, c, s)[i + 2] = <<>> THEN 0
                           ELSE Laid(f, c, s)[i + 2][Len(Laid(f, c, s)[i + 2])]
         /\ \A j \in DOMAIN Laid(f, c, s)[i + 2] : Laid(f, c, s)[i + 2][j] <= Newest(s[i])
<1> DEFINE P == Laid(f, c, s)
<1>1. P \in Layouts /\ i + 2 \in Pieces /\ P[i + 2] = IF s[i] = None THEN <<>> ELSE s[i]
  BY LaidIs
<1> HIDE DEF P
<1>2. Newest(s[i]) = IF P[i + 2] = <<>> THEN 0 ELSE P[i + 2][Len(P[i + 2])]
  BY <1>1 DEF Newest
<1>3. /\ P[i + 2] # <<>> => /\ Len(P[i + 2]) \in DOMAIN P[i + 2]
                            /\ \A j \in DOMAIN P[i + 2] : P[i + 2][j] <= P[i + 2][Len(P[i + 2])]
      /\ \A j \in DOMAIN P[i + 2] : P[i + 2][j] \in Nat /\ P[i + 2][j] <= top
  BY <1>1, NewestIs, PieceOf DEF P, Sorted
<1>4. \A j : j \notin DOMAIN <<>>
  OBVIOUS
<1> QED BY <1>2, <1>3, <1>4 DEF P

\* What a step may do to the log, and when.
LEMMA LogNext ==
  ASSUME [Next]_vars
  PROVE  \/ /\ UNCHANGED <<slots, fifo, output, copier, chunk, produced, whole>>
            /\ writers' \subseteq writers \/ main \notin {"off", "sink"}
            /\ main' = "off" => main = "off"
            /\ main' \notin {"off", "sink"} => main \notin {"off", "sink"} \/ copier[1] = "read"
         \/ /\ main' = "sink" /\ main = "off" /\ BeginSink
            /\ UNCHANGED <<slots, fifo, writers, output, chunk, produced, whole>>
         \/ main' = "off" /\ SinkGone
         \/ main' = main /\ (OpenFile \/ OpenPipe \/ CopyStep \/ Produce)
<1>1. At("read")[1] = "read"
  BY DEF At
<1>2. CASE Begin \/ SinkReady
  BY <1>1, <1>2 DEF Begin, SinkReady, logVars
<1>3. CASE StartQEMU
  BY <1>3 DEF StartQEMU, Attach
<1>4. CASE StartMonitoring \/ Monitored \/ Ready \/ StartFails
  BY <1>4 DEF StartMonitoring, Monitored, Ready, StartFails, logVars
<1>5. CASE QEMUEnds
  BY <1>5 DEF QEMUEnds, Detach
<1>6. CASE FinishLog \/ AbortLog
  BY <1>6 DEF FinishLog, AbortLog, Finish, Abort
<1>7. CASE LogFinished \/ UndoMonitoring \/ MonitoringUndone
  BY <1>7 DEF LogFinished, UndoMonitoring, MonitoringUndone, logVars
<1>8. CASE ForceQEMU
  BY <1>8 DEF ForceQEMU, Detach
<1>9. CASE End \/ Crash
  BY <1>9 DEF End, Crash, Gone
<1>10. CASE LogSteps
  BY <1>10 DEF LogSteps
<1>11. CASE MonitoringSteps
  BY <1>11 DEF MonitoringSteps, logVars
<1>12. CASE UNCHANGED vars
  BY <1>12 DEF vars, logVars
<1> QED BY <1>2, <1>3, <1>4, <1>5, <1>6, <1>7, <1>8, <1>9, <1>10, <1>11, <1>12
        DEF Next, Starting, Ending

\* A step that only loses, and is not whole if it does: between rotations.
LEMMA Losing ==
  ASSUME LogTypes, Ordered, Complete,
         UNCHANGED <<slots, produced>>, whole' \in BOOLEAN,
         fifo' \in {fifo, <<>>}, chunk' \in {chunk, <<>>},
         whole' => /\ whole /\ fifo' = fifo /\ chunk' = chunk
                   /\ copier[1] \notin {"rotate", "reopen"}
                   /\ copier'[1] \notin {"rotate", "reopen"}
  PROVE  Ordered' /\ Complete'
<1> DEFINE P == Laid(fifo, chunk, slots)
           Q == Laid(fifo', chunk', slots')
<1>1. /\ fifo \in Seq(Nat) /\ chunk \in Seq(Nat) /\ slots \in Files /\ produced \in Nat
      /\ fifo' \in Seq(Nat) /\ chunk' \in Seq(Nat) /\ slots' \in Files
  BY EmptySeq DEF LogTypes
<1>2. /\ P \in Layouts /\ Q \in Layouts
      /\ \A k \in Pieces : Q[k] = P[k] \/ Q[k] = <<>>
  <2>1. /\ P \in Layouts /\ Q \in Layouts
        /\ P[0] = fifo /\ P[1] = chunk /\ Q[0] = fifo' /\ Q[1] = chunk'
        /\ \A k \in Pieces \ {0, 1} : k - 2 \in Slots
    <3>1. /\ P \in Layouts /\ P[0] = fifo /\ P[1] = chunk
          /\ \A k \in Pieces \ {0, 1} : k - 2 \in Slots
      BY <1>1, LaidIs
    <3>2. ASSUME NEW f \in Seq(Nat), NEW c \in Seq(Nat), NEW t \in Files
          PROVE  Laid(f, c, t) \in Layouts /\ Laid(f, c, t)[0] = f /\ Laid(f, c, t)[1] = c
      BY LaidIs
    <3>3. fifo' \in Seq(Nat) /\ chunk' \in Seq(Nat) /\ slots' \in Files
      BY <1>1
    <3>4. Q \in Layouts /\ Q[0] = fifo' /\ Q[1] = chunk'
      BY <3>2, <3>3, ZenonT(20)
    <3> QED BY <3>1, <3>4
  <2>2. \A k \in Pieces \ {0, 1} : Q[k] = P[k]
    BY DEF Laid
  <2> QED BY <2>1, <2>2
<1>3. Sorted(P, produced) /\ Newest(slots[Stale]) = 0
  BY DEF Ordered
<1>4. whole' => P = Q
  OBVIOUS
<1> HIDE DEF P, Q
<1>5. Sorted(Q, produced)
  <2>1. \A i : i \notin DOMAIN <<>>
    OBVIOUS
  <2> QED BY <1>2, <1>3, <2>1 DEF Sorted
<1>6. Ordered'
  BY <1>3, <1>5 DEF Ordered, Q
<1>7. ASSUME whole' PROVE Complete'
  <2>1. /\ whole /\ fifo' = fifo /\ chunk' = chunk /\ produced' = produced /\ slots' = slots
        /\ \A v : ~Moved(v) /\ ~Moved(v)'
    BY <1>7 DEF Moved
  <2>2. Written' = Written
    BY <2>1 DEF Written
  <2>3. Active' = Active
    BY <2>1, <1>7 DEF Active
  <2>4. Oldest = MaxBackups /\ Oldest' = MaxBackups /\ \A v : Home(v) = v /\ Home(v)' = v
    BY <2>1 DEF Oldest, Home
  <2>5. Edge' = Edge
    BY <2>2, <2>3 DEF Edge
  <2> QED BY <2>1, <2>2, <2>3, <2>4, <2>5 DEF Complete
<1>8. ~whole' => Complete'
  BY DEF Complete
<1> QED BY <1>6, <1>7, <1>8

\* The log is left alone, and the supervisor goes on.
LEMMA QuietKeeps ==
  ASSUME LogInv, UNCHANGED <<slots, fifo, output, copier, chunk, produced, whole>>,
         writers' \subseteq writers \/ main \notin {"off", "sink"},
         main' = "off" => main = "off",
         main' \notin {"off", "sink"} => main \notin {"off", "sink"} \/ copier[1] = "read"
  PROVE  LogInv'
<1>1. LogTypes' /\ Rotating'
  BY DEF LogInv, LogTypes, Rotating
<1>2. Copying'
  <2>1. writers' \subseteq writers \/ ~Unready
    BY DEF LogInv, Copying
  <2>2. Unready' = Unready /\ Busy' = Busy
    BY DEF Unready, Busy
  <2> QED BY <2>1, <2>2 DEF LogInv, Copying, Unready
<1>3. Sized'
  BY DEF LogInv, Sized, Seen, Unready
<1>4. Ordered'
  BY DEF LogInv, Ordered
<1>5. Complete'
  BY DEF LogInv, Complete, Written, Active, Edge, Oldest, Home, Moved
<1> QED BY <1>1, <1>2, <1>3, <1>4, <1>5 DEF LogInv

\* A sink begins, on the files that are there.
LEMMA BeginKeeps ==
  ASSUME LogTypes, Copying, Rotating, Sized, Ordered, Complete,
         main' = "sink", main = "off", BeginSink,
         UNCHANGED <<slots, fifo, writers, output, chunk, produced, whole>>
  PROVE  LogInv'
<1>1. copier[1] = "none" /\ copier'[1] = "open" /\ copier'[2] = 1
  BY DEF Copying, BeginSink
<1>2. 1 \in Slots
  BY Bounds DEF Slots, Stale
<1>3. LogTypes'
  BY <1>1, <1>2 DEF LogTypes
<1>4. Copying'
  BY <1>1 DEF Copying, Unready, Busy
<1>5. Rotating'
  BY <1>1 DEF Copying, Rotating, Busy
<1>6. Sized'
  <2>1. \A i \in Slots : Seen(i)' => Seen(i)
    <3>1. \A i \in Slots : i # 0 => ~(i < 1)
      BY DEF Slots
    <3> QED BY <1>1, <3>1 DEF Seen, Unready
  <2> QED BY <2>1 DEF Sized
<1>7. Ordered' /\ Complete'
  <2>1. whole' \in BOOLEAN
    BY DEF LogTypes
  <2> QED BY <1>1, <2>1, Losing
<1> QED BY <1>3, <1>4, <1>5, <1>6, <1>7 DEF LogInv

\* The supervisor is gone: what was on its way is lost.
LEMMA GoneKeeps ==
  ASSUME LogTypes, Copying, Rotating, Sized, Ordered, Complete, main' = "off", SinkGone
  PROVE  LogInv'
<1>1. /\ copier'[1] = "none" /\ fifo' = <<>> /\ chunk' = <<>> /\ writers' = {} /\ output' = "none"
      /\ whole' = (whole /\ fifo = <<>> /\ chunk = <<>>) /\ UNCHANGED <<slots, produced>>
  BY DEF SinkGone, At
<1>2. LogTypes'
  BY <1>1, EmptySeq DEF LogTypes
<1>3. Copying' /\ Rotating'
  BY <1>1 DEF Copying, Rotating, Unready, Busy
<1>4. Sized'
  <2>1. \A i \in Slots : Seen(i)' => Seen(i)
    BY <1>1 DEF Seen, Unready
  <2> QED BY <1>1, <2>1 DEF Sized
<1>5. Ordered' /\ Complete'
  <2>1. whole' => whole /\ fifo' = fifo /\ chunk' = chunk /\ ~Busy
    BY <1>1 DEF Copying
  <2>2. /\ copier'[1] \notin {"rotate", "reopen"}
        /\ ~Busy => copier[1] \notin {"rotate", "reopen"}
    BY <1>1 DEF Busy
  <2>3. whole' \in BOOLEAN
    BY <1>1 DEF LogTypes
  <2> QED BY <1>1, <2>1, <2>2, <2>3, Losing
<1> QED BY <1>2, <1>3, <1>4, <1>5 DEF LogInv

LEMMA OpenPipeKeeps ==
  ASSUME LogTypes, Copying, Rotating, Sized, Ordered, Complete, main' = main, OpenPipe
  PROVE  LogInv'
<1>1. /\ copier[1] = "pipe" /\ UNCHANGED <<slots, chunk, produced, whole>>
      /\ \/ fifo' = <<>> /\ output' = "open" /\ copier'[1] = "read"
         \/ copier'[1] = "failed" /\ UNCHANGED <<fifo, writers, output>>
  BY DEF OpenPipe, At
<1>2. fifo = <<>> /\ chunk = <<>> /\ fifo' = fifo /\ output = "none" /\ writers = {}
  BY <1>1 DEF Copying, Unready, Busy
<1>3. LogTypes'
  BY <1>1, <1>2 DEF LogTypes
<1>4. Copying'
  BY <1>1, <1>2 DEF Copying, Unready, Busy
<1>5. Rotating'
  BY <1>1, <1>2 DEF Rotating
<1>6. Sized'
  <2>1. \A i \in Slots : Seen(i)' => Seen(i)
    BY <1>1 DEF Seen, Unready
  <2> QED BY <1>1, <2>1 DEF Sized
<1>7. Ordered' /\ Complete'
  <2>1. whole' \in BOOLEAN
    BY <1>1 DEF LogTypes
  <2> QED BY <1>1, <1>2, <2>1, Losing
<1> QED BY <1>3, <1>4, <1>5, <1>6, <1>7 DEF LogInv

\* An error of the log: it is given up with what was pending.
LEMMA DisableKeeps ==
  ASSUME LogTypes, Copying, Rotating, Sized, Ordered, Complete, main' = main,
         Busy, Disable, UNCHANGED <<slots, fifo, writers, produced>>
  PROVE  LogInv'
<1>1. /\ output' = "disabled" /\ whole' = FALSE /\ copier'[1] = "read" /\ chunk' = <<>>
      /\ UNCHANGED <<slots, fifo, writers, produced>>
  BY DEF Disable, At
<1>2. LogTypes'
  BY <1>1, EmptySeq DEF LogTypes
<1>3. Copying'
  <2>1. ~Unready
    BY DEF Busy, Unready
  <2>2. ~Unready' /\ ~Busy'
    BY <1>1 DEF Busy, Unready
  <2>3. main' # "off"
    BY DEF Copying, Busy
  <2> QED BY <1>1, <2>1, <2>2, <2>3 DEF Copying
<1>4. Rotating'
  BY <1>1 DEF Rotating
<1>5. Sized'
  <2>1. \A i \in Slots : Seen(i)
    BY DEF Seen, Unready, Busy
  <2> QED BY <1>1, <2>1 DEF Sized
<1>6. Ordered' /\ Complete'
  <2>1. whole' \in BOOLEAN
    BY <1>1
  <2> QED BY <1>1, <2>1, Losing
<1> QED BY <1>2, <1>3, <1>4, <1>5, <1>6 DEF LogInv

LEMMA CopyEndsKeeps ==
  ASSUME LogTypes, Copying, Rotating, Sized, Ordered, Complete, main' = main, CopyEnds
  PROVE  LogInv'
<1>1. /\ copier[1] = "read" /\ copier'[1] = "ended" /\ fifo' = <<>> /\ output' = "none"
      /\ whole' = (whole /\ fifo = <<>>) /\ UNCHANGED <<slots, writers, chunk, produced>>
  BY DEF CopyEnds, At
<1>2. LogTypes'
  BY <1>1, EmptySeq DEF LogTypes
<1>3. Copying'
  BY <1>1 DEF Copying, Unready, Busy
<1>4. Rotating'
  BY <1>1 DEF Rotating
<1>5. Sized'
  <2>1. \A i \in Slots : Seen(i)
    BY <1>1 DEF Seen, Unready
  <2> QED BY <1>1, <2>1 DEF Sized
<1>6. Ordered' /\ Complete'
  <2>1. whole' \in BOOLEAN
    BY <1>1 DEF LogTypes
  <2> QED BY <1>1, <2>1, Losing
<1> QED BY <1>2, <1>3, <1>4, <1>5, <1>6 DEF LogInv

LEMMA ProduceKeeps ==
  ASSUME LogTypes, Copying, Rotating, Sized, Ordered, Complete, main' = main, Produce
  PROVE  LogInv'
<1> DEFINE P == Laid(fifo, chunk, slots)
           Q == Laid(fifo', chunk', slots')
           lo == Pos(Edge - Size(Oldest))
<1>1. /\ writers # {} /\ fifo' = Append(fifo, produced + 1) /\ produced' = produced + 1
      /\ UNCHANGED <<slots, writers, output, copier, chunk, whole>>
  BY DEF Produce
<1>2. ~Unready
  BY <1>1 DEF Copying
<1>3. /\ fifo \in Seq(Nat) /\ chunk \in Seq(Nat) /\ slots \in Files
      /\ produced \in Nat /\ produced + 1 \in Nat
  BY DEF LogTypes
<1>4. /\ fifo' \in Seq(Nat) /\ Len(fifo') = Len(fifo) + 1
      /\ \A i \in 1..Len(fifo) : fifo'[i] = fifo[i]
      /\ fifo'[Len(fifo) + 1] = produced + 1
  BY <1>1, <1>3, AppendProperties
<1>5. LogTypes'
  BY <1>1, <1>3, <1>4 DEF LogTypes
<1>6. Copying'
  BY <1>1, <1>2 DEF Copying, Unready, Busy
<1>7. Rotating'
  BY <1>1 DEF Rotating
<1>8. Sized'
  <2>1. \A i \in Slots : Seen(i)
    BY <1>2 DEF Seen
  <2> QED BY <1>1, <2>1 DEF Sized
<1>9. /\ P \in Layouts /\ Q \in Layouts /\ Q[0] = Append(P[0], produced + 1)
      /\ \A k \in Pieces : k # 0 => Q[k] = P[k]
  <2>1. P \in Layouts /\ P[0] = fifo /\ Q \in Layouts /\ Q[0] = fifo'
    <3>1. chunk' \in Seq(Nat) /\ slots' \in Files
      BY <1>1, <1>3
    <3> QED BY <1>3, <1>4, <3>1, LaidIs
  <2>2. \A k \in Pieces : k # 0 => Q[k] = P[k]
    BY <1>1 DEF Laid
  <2> QED BY <1>1, <2>1, <2>2
<1>10. Sorted(P, produced) /\ Newest(slots[Stale]) = 0
  BY DEF Ordered
<1>11. whole => lo \in Nat /\ Holds(P, lo, produced) /\ lo <= produced
  <2>1. Len(fifo) \in Nat /\ Len(chunk) \in Nat
    BY <1>3, LenProperties
  <2>2. Active \in Nat
    BY <1>3, Bounds, LenProperties DEF Active, Files, Slots, Stale
  <2>3. Size(Oldest) \in Nat
    BY Bounds, Sizes DEF Oldest
  <2> QED BY <1>3, <2>1, <2>2, <2>3 DEF Pos, Edge, Written, Complete
<1> HIDE DEF P, Q, lo
<1>12. /\ Sorted(Q, produced + 1)
       /\ whole => Holds(Q, lo, produced + 1)
  BY <1>3, <1>9, <1>10, <1>11, Printed
<1>13. Ordered'
  BY <1>1, <1>10, <1>12 DEF Ordered, Q
<1>14. ASSUME whole' PROVE Complete'
  <2>1. Len(fifo) \in Nat /\ Len(chunk) \in Nat /\ DOMAIN fifo = 1..Len(fifo)
        /\ DOMAIN fifo' = 1..Len(fifo')
    BY <1>3, <1>4, LenProperties
  <2>2. Written' = Written
    BY <1>1, <1>3, <1>4, <2>1 DEF Written
  <2>3. Active' = Active /\ Oldest' = Oldest /\ \A v : Home(v)' = Home(v)
    BY <1>1 DEF Active, Oldest, Home, Moved
  <2>4. Edge' = Edge
    BY <2>2, <2>3 DEF Edge
  <2>5. whole /\ \A i \in DOMAIN fifo : fifo[i] = Written + Len(chunk) + i
    BY <1>1, <1>14 DEF Complete
  <2>6. \A i \in DOMAIN fifo' : fifo'[i] = Written' + Len(chunk') + i
    <3>1. produced + 1 = Written + Len(chunk) + (Len(fifo) + 1)
      BY <1>3, <2>1 DEF Written
    <3>2. \A i \in DOMAIN fifo' : i \in DOMAIN fifo \/ i = Len(fifo) + 1
      BY <1>4, <2>1
    <3> QED BY <1>1, <1>4, <2>1, <2>2, <2>5, <3>1, <3>2
  <2>7. Holds(Q, lo, produced') /\ lo = Pos(Edge - Size(Oldest))'
    BY <1>1, <1>12, <2>3, <2>4, <2>5 DEF lo, Pos, Size
  <2> QED BY <1>1, <2>2, <2>3, <2>4, <2>5, <2>6, <2>7 DEF Complete, Q, Pos, Size
<1>15. ~whole' => Complete'
  BY DEF Complete
<1> QED BY <1>5, <1>6, <1>7, <1>8, <1>13, <1>14, <1>15 DEF LogInv

\* A file that openRotatingSerialLog opens, or clears away, held nothing that was printed
\* while the log was whole.
LEMMA OpenFileKeeps ==
  ASSUME LogTypes, Copying, Rotating, Sized, Ordered, Complete, main' = main, OpenFile
  PROVE  LogInv'
<1> DEFINE i == copier[2]
           P == Laid(fifo, chunk, slots)
           Q == Laid(fifo', chunk', slots')
<1>1. /\ copier[1] = "open" /\ UNCHANGED <<fifo, writers, output, chunk, produced, whole>>
      /\ \/ /\ slots' = [slots EXCEPT ![i] = Tidied(i)]
            /\ i = 0 => copier'[1] = "pipe"
            /\ i # 0 => /\ copier'[1] = "open"
                        /\ copier'[2] = IF i = Stale THEN 0 ELSE i + 1
         \/ copier'[1] = "failed" /\ UNCHANGED slots
  BY DEF OpenFile, At
<1>2. fifo = <<>> /\ chunk = <<>> /\ output = "none" /\ writers = {} /\ i \in Slots
  BY <1>1 DEF Copying, Unready, Busy, LogTypes
<1>3. Copying'
  BY <1>1, <1>2 DEF Copying, Unready, Busy
<1>4. slots \in Files /\ produced \in Nat /\ fifo \in Seq(Nat) /\ chunk \in Seq(Nat)
  BY DEF LogTypes
<1>5. CASE copier'[1] = "failed" /\ UNCHANGED slots
  <2>1. LogTypes' /\ Rotating'
    BY <1>1, <1>2, <1>5 DEF LogTypes, Rotating
  <2>2. Sized'
    <3>1. \A j \in Slots : Seen(j)' => Seen(j)
      BY <1>1, <1>5 DEF Seen, Unready
    <3> QED BY <1>5, <3>1 DEF Sized
  <2>3. Ordered' /\ Complete'
    <3>1. whole' \in BOOLEAN
      BY <1>1 DEF LogTypes
    <3> QED BY <1>1, <1>5, <3>1, Losing
  <2> QED BY <1>3, <2>1, <2>2, <2>3 DEF LogInv
<1>6. ASSUME slots' = [slots EXCEPT ![i] = Tidied(i)],
             i = 0 => copier'[1] = "pipe",
             i # 0 => copier'[1] = "open" /\ copier'[2] = IF i = Stale THEN 0 ELSE i + 1
      PROVE  LogInv'
  <2> HIDE DEF i
  <2>1. /\ Tidied(i) \in {slots[i], None, <<>>}
        /\ i = 0 => Tidied(i) # None
        /\ i # 0 => Tidied(i) # <<>> \/ Tidied(i) = slots[i]
        /\ Tidied(i) # None => Len(Tidied(i)) <= MaxSize
        /\ i # Stale /\ slots[i] # None /\ Len(slots[i]) <= MaxSize => Tidied(i) = slots[i]
        /\ i = Stale => Tidied(i) = None
    <3>1. Len(<<>>) = 0 /\ <<>> # None
      BY EmptySeq, SerialAssumption
    <3>2. 0 # Stale /\ 0 <= MaxSize
      BY Bounds DEF Stale
    <3> QED BY <3>1, <3>2 DEF Tidied
  <2>2. /\ Tidied(i) \in {None} \cup Seq(Nat) /\ slots' \in Files
        /\ slots'[i] = Tidied(i) /\ \A j \in Slots : j # i => slots'[j] = slots[j]
    <3>1. slots[i] \in {None} \cup Seq(Nat)
      BY <1>2, <1>4 DEF Files
    <3>2. Tidied(i) \in {None} \cup Seq(Nat)
      BY <2>1, <3>1, EmptySeq
    <3> QED BY <1>2, <1>4, <1>6, <3>2 DEF Files
  <2>3. 0 \in Slots /\ Stale \in Slots /\ \A j \in Slots : j # Stale => j + 1 \in Slots
    BY Bounds DEF Slots, Stale
  <2>4. LogTypes'
    BY <1>1, <1>2, <1>6, <2>2, <2>3 DEF LogTypes
  <2>5. Rotating'
    BY <1>1, <1>2, <1>6, <2>1, <2>2, <2>3 DEF Rotating
  <2>6. Sized'
    <3>1. ASSUME NEW j \in Slots, Seen(j)', slots'[j] # None
          PROVE  Len(slots'[j]) <= MaxSize
      <4>1. CASE j = i
        BY <2>1, <2>2, <3>1, <4>1
      <4>2. CASE j # i
        <5>1. j \in Int /\ i \in Int /\ j <= Stale /\ i <= Stale /\ j >= 0 /\ i >= 0
          BY <1>2, Bounds DEF Slots, Stale
        <5>2. Seen(j)
          BY <1>1, <1>6, <3>1, <4>2, <5>1 DEF Seen, Unready, i
        <5> QED BY <2>2, <3>1, <4>2, <5>2 DEF Sized
      <4> QED BY <4>1, <4>2
    <3> QED BY <3>1 DEF Sized
  <2>7. /\ P \in Layouts /\ Q \in Layouts /\ i + 2 \in Pieces
        /\ \A j \in Slots : P[j + 2] = IF slots[j] = None THEN <<>> ELSE slots[j]
        /\ Q = P \/ Q = Without(P, i + 2)
    <3>1. fifo' \in Seq(Nat) /\ chunk' \in Seq(Nat)
      BY <1>1, <1>4
    <3>8. /\ P \in Layouts /\ P[0] = fifo /\ P[1] = chunk /\ i + 2 \in Pieces
          /\ \A j \in Slots : P[j + 2] = IF slots[j] = None THEN <<>> ELSE slots[j]
          /\ \A k \in Pieces \ {0, 1} : k - 2 \in Slots
      <4>1. /\ P \in Layouts /\ P[0] = fifo /\ P[1] = chunk
            /\ \A j \in Slots : /\ j + 2 \in Pieces
                                /\ P[j + 2] = IF slots[j] = None THEN <<>> ELSE slots[j]
            /\ \A k \in Pieces \ {0, 1} : k - 2 \in Slots
        BY <1>4, LaidIs
      <4> HIDE DEF P
      <4> QED BY <1>2, <4>1
    <3>9. /\ Q \in Layouts /\ Q[0] = fifo' /\ Q[1] = chunk'
          /\ \A j \in Slots : Q[j + 2] = IF slots'[j] = None THEN <<>> ELSE slots'[j]
      BY <2>2, <3>1, LaidIs
    <3>2. /\ P \in Layouts /\ Q \in Layouts /\ i + 2 \in Pieces
          /\ \A j \in Slots : P[j + 2] = IF slots[j] = None THEN <<>> ELSE slots[j]
          /\ \A j \in Slots : Q[j + 2] = IF slots'[j] = None THEN <<>> ELSE slots'[j]
          /\ P[0] = fifo /\ P[1] = chunk /\ Q[0] = fifo' /\ Q[1] = chunk'
          /\ \A k \in Pieces \ {0, 1} : k - 2 \in Slots
      <4> HIDE DEF P, Q
      <4> QED BY <3>8, <3>9
    <3> HIDE DEF P, Q
    <3>3. \A k \in Pieces \ {0, 1} : k - 2 + 2 = k
      BY DEF Pieces, Stale
    <3>4. ASSUME NEW k \in Pieces, k # i + 2 PROVE Q[k] = P[k]
      <4>1. CASE k \in {0, 1}
        BY <1>1, <3>2, <4>1
      <4>2. CASE k \notin {0, 1}
        <5> DEFINE j == k - 2
        <5>1. j \in Slots /\ j + 2 = k /\ j # i
          BY <3>2, <3>3, <3>4, <4>2
        <5> HIDE DEF j
        <5>2. slots'[j] = slots[j]
          BY <2>2, <5>1
        <5>3. Q[j + 2] = P[j + 2]
          BY <3>2, <5>1, <5>2
        <5> QED BY <5>1, <5>3
      <4> QED BY <4>1, <4>2
    <3>5. Q[i + 2] = P[i + 2] \/ Q[i + 2] = <<>>
      BY <1>2, <2>1, <2>2, <3>2
    <3>6. CASE Q[i + 2] = P[i + 2]
      <4>1. \A k \in Pieces : P[k] = Q[k]
        BY <3>4, <3>6
      <4> QED BY <3>2, <4>1, SameLayout
    <3>7. CASE Q[i + 2] = <<>>
      <4>1. /\ Without(P, i + 2) \in Layouts /\ Without(P, i + 2)[i + 2] = <<>>
            /\ \A k \in Pieces : k # i + 2 => Without(P, i + 2)[k] = P[k]
        BY <3>2, WithoutIs
      <4>2. \A k \in Pieces : Without(P, i + 2)[k] = Q[k]
        BY <3>4, <3>7, <4>1
      <4>3. Q = Without(P, i + 2)
        BY <3>2, <4>1, <4>2, SameLayout
      <4> QED BY <3>2, <4>3
    <3> QED BY <3>5, <3>6, <3>7
  <2>8. Sorted(P, produced) /\ Newest(slots[Stale]) = 0
    BY DEF Ordered
  <2>9. \A j \in Slots : Newest(slots[j]) \in Nat /\ Newest(slots[j]) <= produced
    BY <1>4, <2>8, NewestOf
  <2>10. Newest(None) = 0 /\ Newest(<<>>) = 0
    BY DEF Newest
  <2>11. Q # P => Newest(slots[i]) = 0
    <3>1. CASE i = Stale
      BY <2>8, <3>1
    <3>2. CASE produced = 0
      BY <1>2, <1>4, <2>9, <3>2
    <3>3. CASE i # Stale /\ produced # 0
      <4>1. Seen(i) /\ (slots[i] # None => Tidied(i) = slots[i])
        BY <1>2, <1>4, <2>1, <3>3 DEF Seen, Sized
      <4>2. slots[i] = None => Newest(slots[i]) = 0
        BY <2>10
      <4>3. slots[i] # None => slots' = slots
        <5>1. slots[i] # None => \A j \in Slots : slots'[j] = slots[j]
          BY <2>2, <4>1
        <5> QED BY <1>4, <2>2, <5>1 DEF Files
      <4>4. slots[i] # None => Q = P
        BY <1>1, <4>3
      <4> QED BY <4>2, <4>4
    <3> QED BY <3>1, <3>2, <3>3
  <2> HIDE DEF P, Q
  <2>12. \A j \in Slots : Newest(slots'[j]) = Newest(slots[j])
    <3>1. Newest(Tidied(i)) = Newest(slots[i])
      <4>1. Tidied(i) # slots[i] => slots[i] = None \/ i = Stale \/ produced = 0
        <5>1. Seen(i) \/ produced = 0
          BY <1>4 DEF Seen
        <5> QED BY <1>2, <2>1, <5>1 DEF Sized
      <4>2. Tidied(i) # slots[i] => Newest(Tidied(i)) = 0
        BY <2>1, <2>10
      <4>3. slots[i] = None \/ i = Stale \/ produced = 0 => Newest(slots[i]) = 0
        BY <1>2, <1>4, <2>8, <2>9, <2>10
      <4> QED BY <4>1, <4>2, <4>3
    <3> QED BY <2>2, <3>1
  <2>13. Ordered'
    <3>1. Sorted(Q, produced)
      BY <1>4, <2>7, <2>8, WithoutSorts
    <3> QED BY <1>1, <2>3, <2>8, <2>12, <3>1 DEF Ordered, Q
  <2>14. ASSUME whole' PROVE Complete'
    <3>1. /\ whole /\ Written = produced /\ Written' = produced
          /\ \A v : ~Moved(v) /\ ~Moved(v)'
      <4>1. Len(<<>>) = 0
        BY EmptySeq
      <4>2. copier[1] = "open" /\ copier'[1] \in {"open", "pipe"}
        BY <1>1, <1>6
      <4> QED BY <1>1, <1>2, <1>4, <2>14, <4>1, <4>2 DEF Written, Moved
    <3>2. Oldest = MaxBackups /\ Oldest' = MaxBackups /\ \A v : Home(v) = v /\ Home(v)' = v
      BY <3>1 DEF Oldest, Home
    <3>3. Active \in Nat /\ Active' \in Nat /\ (produced > 0 => Active' = Active)
      <4>1. copier[1] # "reopen" /\ copier'[1] # "reopen"
        BY <1>1, <1>6
      <4>2. slots[0] \in {None} \cup Seq(Nat) /\ slots'[0] \in {None} \cup Seq(Nat)
        BY <1>4, <2>2, <2>3 DEF Files
      <4>3. Active \in Nat /\ Active' \in Nat
        BY <4>1, <4>2, LenProperties DEF Active
      <4>4. ASSUME produced > 0 PROVE Active' = Active
        <5>1. slots'[0] = slots[0] \/ (slots[0] = None /\ slots'[0] = <<>>)
          <6>1. CASE i = 0
            <7>1. slots[0] # None => Len(slots[0]) <= MaxSize
              BY <2>3, <4>4 DEF Sized, Seen
            <7>2. 0 # Stale
              BY Bounds DEF Stale
            <7>3. slots[0] # None => Tidied(0) = slots[0]
              BY <2>1, <6>1, <7>1, <7>2
            <7>4. slots[0] = None => Tidied(0) = <<>>
              BY <2>1, <6>1
            <7> QED BY <2>2, <6>1, <7>3, <7>4
          <6>2. CASE i # 0
            BY <2>2, <2>3, <6>2
          <6> QED BY <6>1, <6>2
        <5> QED BY <4>1, <5>1, EmptySeq DEF Active
      <4> QED BY <4>3, <4>4
    <3>4. \A v \in Nat : Pos(Edge' - Size(v)) = Pos(Edge - Size(v))
      <4>1. Edge = produced - Active /\ Edge' = produced - Active'
        BY <3>1 DEF Edge
      <4>2. ASSUME NEW v \in Nat PROVE Pos(Edge' - Size(v)) = Pos(Edge - Size(v))
        <5>1. Size(v) \in Nat
          BY Sizes
        <5>2. produced > 0 => Edge' = Edge
          BY <3>3, <4>1
        <5>3. produced = 0 => ~(Edge' - Size(v) > 0) /\ ~(Edge - Size(v) > 0)
          BY <3>3, <4>1, <5>1
        <5> QED BY <1>4, <5>2, <5>3 DEF Pos
      <4> QED BY <4>2
    <3>5. /\ Active > 0 => Newest(slots[0]) = produced
          /\ \A v \in 1..MaxBackups : Newest(slots[v]) = Pos(Edge - Size(v - 1))
          /\ Holds(P, Pos(Edge - Size(MaxBackups)), produced)
      BY <3>1, <3>2 DEF Complete, P
    <3>6. Active' > 0 => Newest(slots'[0]) = produced
      <4>1. produced = 0 => Newest(slots[0]) = 0
        BY <2>3, <2>9
      <4> QED BY <1>4, <2>3, <2>12, <3>3, <3>5, <4>1
    <3>7. \A v \in 1..MaxBackups : Newest(slots'[v]) = Pos(Edge' - Size(v - 1))
      <4>1. \A v \in 1..MaxBackups : v \in Slots /\ v - 1 \in Nat
        BY Bounds DEF Slots, Stale
      <4> QED BY <2>12, <3>4, <3>5, <4>1
    <3>8. Holds(Q, Pos(Edge' - Size(MaxBackups)), produced)
      <4> DEFINE lo == Pos(Edge - Size(MaxBackups))
      <4>1. lo \in Nat
        <5>1. Edge \in Int /\ Size(MaxBackups) \in Int
          BY <1>4, <3>1, <3>3, Bounds, Sizes DEF Edge
        <5> QED BY <5>1 DEF Pos
      <4>2. lo = Pos(Edge' - Size(MaxBackups))
        <5>1. MaxBackups \in Nat
          BY Bounds
        <5> QED BY <3>4, <5>1
      <4> HIDE DEF lo
      <4>3. Holds(P, lo, produced)
        BY <3>5 DEF lo
      <4>4. CASE Q = P
        BY <4>2, <4>3, <4>4
      <4>5. CASE Q # P
        <5>1. (IF P[i + 2] = <<>> THEN 0 ELSE P[i + 2][Len(P[i + 2])]) = 0
          <6>1. Newest(slots[i]) = IF P[i + 2] = <<>> THEN 0 ELSE P[i + 2][Len(P[i + 2])]
            <7>1. Sorted(Laid(fifo, chunk, slots), produced)
              BY <2>8 DEF P
            <7>2. i \in Slots
              BY <1>2
            <7> HIDE DEF i
            <7> QED BY <1>4, <7>1, <7>2, NewestOf DEF P
          <6>2. Newest(slots[i]) = 0
            BY <2>11, <4>5
          <6> QED BY <6>1, <6>2
        <5>2. Holds(Without(P, i + 2), IF 0 > 0 THEN 0 ELSE lo, produced)
          BY <1>4, <2>7, <2>8, <4>1, <4>3, <5>1, WithoutHolds
        <5> QED BY <2>7, <4>2, <4>5, <5>2
      <4> QED BY <4>4, <4>5
    <3>9. /\ Written' \in Nat
          /\ \A j \in DOMAIN fifo' : fifo'[j] = Written' + Len(chunk') + j
          /\ \A j \in DOMAIN chunk' : chunk'[j] = Written' + j
      <4>1. \A j : j \notin DOMAIN <<>>
        OBVIOUS
      <4> QED BY <1>1, <1>2, <1>4, <3>1, <4>1
    <3> QED BY <1>1, <3>1, <3>2, <3>6, <3>7, <3>8, <3>9 DEF Complete, Q, Size, Pos
  <2>15. ~whole' => Complete'
    BY DEF Complete
  <2> QED BY <1>3, <2>4, <2>5, <2>6, <2>13, <2>14, <2>15 DEF LogInv
<1> QED BY <1>1, <1>5, <1>6

\* The arithmetic of a state's log.
LEMMA LogNumbers ==
  ASSUME LogTypes
  PROVE  /\ Len(fifo) \in Nat /\ Len(chunk) \in Nat /\ Written \in Int /\ Active \in Nat
         /\ Edge \in Int /\ Oldest \in Nat
         /\ \A v \in Nat : Pos(Edge - Size(v)) \in Nat
<1>1. Len(fifo) \in Nat /\ Len(chunk) \in Nat
  BY LenProperties DEF LogTypes
<1>2. Written \in Int
  BY <1>1 DEF LogTypes, Written
<1>3. Active \in Nat
  <2>1. 0 \in Slots
    BY Bounds DEF Slots, Stale
  <2>2. slots[0] \in {None} \cup Seq(Nat)
    BY <2>1 DEF LogTypes, Files
  <2> QED BY <2>2, Bounds, LenProperties DEF Active
<1>4. Edge \in Int
  BY <1>2, <1>3 DEF Edge
<1>5. Oldest \in Nat
  BY Bounds DEF Oldest
<1>6. ASSUME NEW v \in Nat PROVE Pos(Edge - Size(v)) \in Nat
  <2>1. Size(v) \in Nat
    BY Sizes
  <2> QED BY <1>4, <2>1 DEF Pos
<1> QED BY <1>1, <1>2, <1>3, <1>4, <1>5, <1>6

\* What is read of the pipe is on its way to the log.
LEMMA ReadKeeps ==
  ASSUME LogTypes, Copying, Rotating, Sized, Ordered, Complete, main' = main, Read
  PROVE  LogInv'
<1> DEFINE n == Smaller(BufferSize, Len(fifo))
           P == Laid(fifo, chunk, slots)
           Q == Laid(fifo', chunk', slots')
           R == Poured(P, 0, n)
<1>1. /\ copier[1] = "read" /\ fifo # <<>>
      /\ fifo' = SubSeq(fifo, n + 1, Len(fifo))
      /\ chunk' = IF output = "open" THEN SubSeq(fifo, 1, n) ELSE <<>>
      /\ copier'[1] = IF output = "open" THEN "write" ELSE "read"
      /\ UNCHANGED <<slots, writers, output, produced, whole>>
  BY DEF Read, At
<1>2. /\ chunk = <<>> /\ output # "none" /\ ~Unready /\ main \notin {"off"}
      /\ output # "open" => ~whole
  BY <1>1 DEF Copying, Unready, Busy
<1>3. /\ fifo \in Seq(Nat) /\ chunk \in Seq(Nat) /\ slots \in Files /\ produced \in Nat
      /\ slots' \in Files
  BY <1>1 DEF LogTypes
<1>4. Len(fifo) \in Nat /\ Len(fifo) > 0 /\ n \in 1..Len(fifo) /\ n \in 0..Len(fifo)
  <2>1. Len(fifo) \in Nat \ {0}
    BY <1>1, <1>3, EmptySeq
  <2> QED BY <2>1, Bounds DEF Smaller
<1> HIDE DEF n
<1>5. /\ SubSeq(fifo, 1, n) \in Seq(Nat) /\ fifo' \in Seq(Nat)
      /\ Len(SubSeq(fifo, 1, n)) = n /\ Len(fifo') = Len(fifo) - n
      /\ \A i \in 1..n : SubSeq(fifo, 1, n)[i] = fifo[i]
      /\ \A i \in 1..(Len(fifo) - n) : fifo'[i] = fifo[n + i]
  BY <1>1, <1>3, <1>4, Splits
<1>6. /\ chunk' \in Seq(Nat)
      /\ output = "open" <=> chunk' # <<>>
  <2>1. Len(<<>>) = 0 /\ <<>> \in Seq(Nat)
    BY EmptySeq
  <2>2. SubSeq(fifo, 1, n) # <<>>
    <3>1. n # 0 /\ Len(SubSeq(fifo, 1, n)) = n
      BY <1>4, <1>5
    <3> QED BY <2>1, <3>1
  <2> QED BY <1>1, <1>5, <2>1, <2>2
<1>7. LogTypes'
  BY <1>1, <1>3, <1>5, <1>6 DEF LogTypes
<1>8. Copying'
  BY <1>1, <1>2, <1>6 DEF Copying, Unready, Busy
<1>9. Rotating'
  BY <1>1 DEF Rotating
<1>10. Sized'
  <2>1. \A i \in Slots : Seen(i)
    BY <1>2 DEF Seen
  <2> QED BY <1>1, <2>1 DEF Sized
<1>11. /\ P \in Layouts /\ Q \in Layouts /\ 0 \in Pieces /\ 1 \in Pieces
       /\ P[0] = fifo /\ P[1] = chunk /\ Q[0] = fifo' /\ Q[1] = chunk'
       /\ \A k \in Pieces : k # 0 /\ k # 1 => Q[k] = P[k]
  <2>1. P \in Layouts /\ P[0] = fifo /\ P[1] = chunk
    BY <1>3, LaidIs
  <2>2. Q \in Layouts /\ Q[0] = fifo' /\ Q[1] = chunk'
    BY <1>3, <1>5, <1>6, LaidIs
  <2>3. \A k \in Pieces : k # 0 /\ k # 1 => Q[k] = P[k]
    BY <1>1 DEF Laid
  <2>4. 0 \in Pieces /\ 1 \in Pieces
    BY Bounds DEF Pieces, Stale
  <2> HIDE DEF P, Q
  <2> QED BY <2>1, <2>2, <2>3, <2>4
<1>12. Sorted(P, produced) /\ Newest(slots[Stale]) = 0
  BY DEF Ordered
<1> HIDE DEF P, Q
<1>13. /\ R \in Layouts /\ Sorted(R, produced)
       /\ R[0] = fifo' /\ R[1] = SubSeq(fifo, 1, n)
       /\ \A k \in Pieces : k # 0 /\ k # 1 => R[k] = P[k]
  <2>1. 0 + 1 = 1
    OBVIOUS
  <2>2. n \in 0..Len(P[0])
    BY <1>4, <1>11
  <2>3. R \in Layouts /\ R[0] = SubSeq(P[0], n + 1, Len(P[0]))
        /\ R[1] = P[1] \o SubSeq(P[0], 1, n) /\ Passed(P, R, 0, n)
    <3>1. 0 + 1 \in Pieces
      BY <1>11, <2>1
    <3>2. /\ R \in Layouts /\ R[0] = SubSeq(P[0], n + 1, Len(P[0]))
          /\ R[0 + 1] = P[0 + 1] \o SubSeq(P[0], 1, n) /\ Passed(P, R, 0, n)
      BY <1>11, <2>2, <3>1, PouringIs
    <3> QED BY <2>1, <3>2
  <2>4. <<>> \o SubSeq(fifo, 1, n) = SubSeq(fifo, 1, n)
    BY <1>5, ConcatEmptySeq
  <2>5. \A k \in Pieces : k # 0 /\ k # 1 => R[k] = P[k]
    BY <2>3 DEF Passed
  <2>6. Sorted(R, produced)
    BY <1>3, <1>11, <1>12, <2>1, <2>2, PouringSorts
  <2> QED BY <1>1, <1>2, <1>11, <2>3, <2>4, <2>5, <2>6
<1>14. /\ output = "open" => Q = R
       /\ output # "open" => Q = Without(R, 1)
  <2> HIDE DEF R
  <2>1. ASSUME output = "open" PROVE Q = R
    <3>1. \A k \in Pieces : Q[k] = R[k]
      BY <1>1, <1>11, <1>13, <2>1
    <3> QED BY <1>11, <1>13, <3>1, SameLayout
  <2>2. ASSUME output # "open" PROVE Q = Without(R, 1)
    <3>1. /\ Without(R, 1) \in Layouts /\ Without(R, 1)[1] = <<>>
          /\ \A k \in Pieces : k # 1 => Without(R, 1)[k] = R[k]
      BY <1>11, <1>13, WithoutIs
    <3>2. \A k \in Pieces : Q[k] = Without(R, 1)[k]
      BY <1>1, <1>11, <1>13, <2>2, <3>1
    <3> QED BY <1>11, <3>1, <3>2, SameLayout
  <2> QED BY <2>1, <2>2
<1>15. Ordered'
  <2> HIDE DEF R
  <2>1. Sorted(Q, produced)
    BY <1>3, <1>11, <1>13, <1>14, WithoutSorts
  <2> QED BY <1>1, <1>12, <2>1 DEF Ordered, Q
<1>16. ASSUME whole' PROVE Complete'
  <2>1. whole /\ output = "open" /\ Q = R /\ copier[1] = "read" /\ copier'[1] = "write"
    BY <1>1, <1>2, <1>14, <1>16
  <2>2. Len(chunk) = 0 /\ Len(chunk') = n
    BY <1>1, <1>2, <1>5, <2>1, EmptySeq
  <2>3. Written' = Written
    <3>1. n \in Int /\ Len(fifo) \in Int /\ Len(fifo') = Len(fifo) - n
      BY <1>4, <1>5
    <3>2. produced' = produced /\ produced \in Int
      BY <1>1, <1>3
    <3> QED BY <2>2, <3>1, <3>2 DEF Written
  <2>4. \A v : ~Moved(v) /\ ~Moved(v)'
    BY <2>1 DEF Moved
  <2>5. Active' = Active
    BY <1>1, <2>1 DEF Active
  <2>6. Oldest = MaxBackups /\ Oldest' = MaxBackups /\ \A v : Home(v) = v /\ Home(v)' = v
    BY <2>4 DEF Oldest, Home
  <2>7. Edge' = Edge
    BY <2>3, <2>5 DEF Edge
  <2>8. /\ Written \in Nat
        /\ \A i \in DOMAIN fifo : fifo[i] = Written + Len(chunk) + i
        /\ Active > 0 => Newest(slots[0]) = Written
        /\ \A v \in 1..MaxBackups : Newest(slots[v]) = Pos(Edge - Size(v - 1))
        /\ Holds(P, Pos(Edge - Size(MaxBackups)), produced)
    BY <2>1, <2>6 DEF Complete, P
  <2>9. /\ \A i \in DOMAIN fifo' : fifo'[i] = Written + n + i
        /\ \A i \in DOMAIN chunk' : chunk'[i] = Written + i
    <3>1. /\ DOMAIN fifo = 1..Len(fifo) /\ DOMAIN fifo' = 1..(Len(fifo) - n)
          /\ DOMAIN chunk' = 1..n
      BY <1>3, <1>5, <1>6, <2>2, LenProperties
    <3>2. \A i \in 1..(Len(fifo) - n) : n + i \in 1..Len(fifo) /\ fifo'[i] = fifo[n + i]
      <4>1. \A i \in 1..(Len(fifo) - n) : n + i \in 1..Len(fifo)
        BY <1>4
      <4> QED BY <1>5, <4>1
    <3>3. ASSUME NEW i \in 1..(Len(fifo) - n) PROVE fifo'[i] = Written + n + i
      <4>1. fifo'[i] = Written + Len(chunk) + (n + i)
        BY <2>8, <3>1, <3>2
      <4> QED BY <1>4, <2>2, <2>8, <4>1
    <3>4. ASSUME NEW i \in 1..n PROVE chunk'[i] = Written + i
      <4>1. i \in 1..Len(fifo) /\ chunk'[i] = fifo[i]
        BY <1>1, <1>4, <1>5, <2>1
      <4>2. fifo[i] = Written + Len(chunk) + i
        BY <2>8, <3>1, <4>1
      <4> QED BY <2>2, <2>8, <4>1, <4>2
    <3> QED BY <3>1, <3>3, <3>4
  <2>10. Holds(Q, Pos(Edge - Size(MaxBackups)), produced)
    <3> DEFINE lo == Pos(Edge - Size(MaxBackups))
    <3>1. lo \in Nat
      BY LogNumbers, Bounds
    <3> HIDE DEF lo
    <3>2. Holds(P, lo, produced)
      BY <2>8 DEF lo
    <3>3. 0 + 1 = 1 /\ n \in 0..Len(P[0])
      BY <1>4, <1>11
    <3>4. Holds(R, lo, produced)
      <4>1. P \in Layouts /\ 0 \in Pieces /\ 0 + 1 \in Pieces /\ produced \in Nat
        BY <1>3, <1>11, <3>3
      <4> HIDE DEF P
      <4> QED BY <3>1, <3>2, <3>3, <4>1, PouringHolds
    <3> HIDE DEF R
    <3> QED BY <2>1, <3>4 DEF lo
  <2>11. /\ Written' \in Nat
         /\ \A i \in DOMAIN fifo' : fifo'[i] = Written' + Len(chunk') + i
         /\ \A i \in DOMAIN chunk' : chunk'[i] = Written' + i
    BY <2>2, <2>3, <2>8, <2>9
  <2>12. /\ Active' > 0 => Newest(slots'[Home(0)']) = Written'
         /\ \A v \in 1..Oldest' : Newest(slots'[Home(v)']) = Pos(Edge' - Size(v - 1))
    BY <1>1, <2>3, <2>5, <2>6, <2>7, <2>8
  <2>13. Holds(Q, Pos(Edge' - Size(Oldest')), produced')
    BY <1>1, <2>6, <2>7, <2>10
  <2> QED BY <2>11, <2>12, <2>13 DEF Complete, Q, Size, Pos
<1>17. ~whole' => Complete'
  BY DEF Complete
<1> QED BY <1>7, <1>8, <1>9, <1>10, <1>15, <1>16, <1>17 DEF LogInv

\* What is written of the buffer goes to the end of the active file.
LEMMA PutIs ==
  ASSUME slots \in Files, chunk \in Seq(Nat), slots[0] # None, NEW n \in 0..Len(chunk)
  PROVE  /\ Put(n) \in Files /\ Put(n)[0] = slots[0] \o SubSeq(chunk, 1, n)
         /\ Put(n)[0] # None /\ Len(Put(n)[0]) = Len(slots[0]) + n
         /\ \A i \in Slots : i # 0 => Put(n)[i] = slots[i]
         /\ n > 0 => Newest(Put(n)[0]) = chunk[n]
<1>1. 0 \in Slots /\ slots[0] \in Seq(Nat) /\ Len(slots[0]) \in Nat
  <2>1. 0 \in Slots
    BY Bounds DEF Slots, Stale
  <2> QED BY <2>1, LenProperties DEF Files
<1> DEFINE front == SubSeq(chunk, 1, n)
<1>2. /\ front \in Seq(Nat) /\ Len(front) = n
      /\ \A i \in 1..n : front[i] = chunk[i]
  BY Splits
<1>3. Put(n) = [slots EXCEPT ![0] = slots[0] \o front]
  BY DEF Put
<1> HIDE DEF front
<1> DEFINE file == slots[0] \o front
<1>4. /\ file \in Seq(Nat) /\ Len(file) = Len(slots[0]) + n
      /\ \A i \in 1..(Len(slots[0]) + n) :
           file[i] = IF i <= Len(slots[0]) THEN slots[0][i] ELSE front[i - Len(slots[0])]
  BY <1>1, <1>2, ConcatProperties
<1> HIDE DEF file
<1>5. /\ Put(n) \in Files /\ Put(n)[0] = file
      /\ \A i \in Slots : i # 0 => Put(n)[i] = slots[i]
  BY <1>1, <1>3, <1>4 DEF Files, file
<1>6. file # None
  BY <1>4, SerialAssumption
<1>7. n > 0 => Newest(file) = chunk[n]
  <2> SUFFICES ASSUME n > 0 PROVE Newest(file) = chunk[n]
    OBVIOUS
  <2>1. n \in Nat /\ n > 0
    BY LenProperties
  <2> DEFINE last == Len(slots[0]) + n
  <2>2. last \in 1..last /\ ~(last <= Len(slots[0])) /\ last - Len(slots[0]) = n /\ last # 0
    BY <1>1, <2>1
  <2>3. file[last] = front[last - Len(slots[0])] /\ Len(file) = last
    BY <1>4, <2>2
  <2>4. file # <<>>
    BY <1>4, <2>2, EmptySeq
  <2> HIDE DEF last
  <2>5. n \in 1..n
    BY <2>1
  <2> QED BY <1>2, <1>6, <2>2, <2>3, <2>4, <2>5 DEF Newest
<1> QED BY <1>4, <1>5, <1>6, <1>7 DEF file, front

LEMMA WriteKeeps ==
  ASSUME LogTypes, Copying, Rotating, Sized, Ordered, Complete, main' = main, Write
  PROVE  LogInv'
<1> DEFINE room == Smaller(MaxSize - Len(slots[0]), Len(chunk))
           P == Laid(fifo, chunk, slots)
           Q == Laid(fifo', chunk', slots')
<1>1. /\ copier[1] = "write" /\ Len(slots[0]) < MaxSize
      /\ UNCHANGED <<fifo, writers, produced>>
      /\ \/ /\ slots' = Put(room) /\ chunk' = SubSeq(chunk, room + 1, Len(chunk))
            /\ copier'[1] = IF room = Len(chunk) THEN "read" ELSE "write"
            /\ UNCHANGED <<output, whole>>
         \/ \E n \in 0..room : slots' = Put(n) /\ Disable
  BY DEF Write, At
<1>2. /\ chunk # <<>> /\ output = "open" /\ slots[0] # None /\ ~Unready /\ main # "off"
  BY <1>1 DEF Copying, Rotating, Unready, Busy
<1>3. /\ fifo \in Seq(Nat) /\ chunk \in Seq(Nat) /\ slots \in Files /\ produced \in Nat
      /\ 0 \in Slots /\ Stale \in Slots /\ Stale # 0
  BY Bounds DEF LogTypes, Slots, Stale
<1>4. /\ Len(slots[0]) \in Nat /\ Len(chunk) \in Nat /\ Len(chunk) > 0
      /\ room \in 1..Len(chunk) /\ Len(slots[0]) + room <= MaxSize
  <2>1. Len(slots[0]) \in Nat
    BY <1>2, <1>3, LenProperties DEF Files
  <2>2. Len(chunk) \in Nat \ {0}
    BY <1>2, <1>3, EmptySeq
  <2>3. MaxSize \in Nat /\ Len(slots[0]) < MaxSize
    BY <1>1, Bounds
  <2> DEFINE l == Len(slots[0])
             c == Len(chunk)
  <2>4. room = IF MaxSize - l < c THEN MaxSize - l ELSE c
    BY DEF Smaller
  <2> HIDE DEF room
  <2>5. l \in Nat /\ c \in Nat /\ c > 0 /\ l < MaxSize
    BY <2>1, <2>2, <2>3
  <2> HIDE DEF l, c
  <2>6. room \in 1..c /\ l + room <= MaxSize
    BY <2>3, <2>4, <2>5
  <2> QED BY <2>5, <2>6 DEF l, c
<1> HIDE DEF room
<1>5. PICK n \in 0..room :
        /\ slots' = Put(n)
        /\ \/ /\ n = room /\ chunk' = SubSeq(chunk, n + 1, Len(chunk))
              /\ copier'[1] = IF room = Len(chunk) THEN "read" ELSE "write"
              /\ UNCHANGED <<output, whole>>
           \/ Disable
  <2>1. room \in 0..room
    BY <1>4
  <2> QED BY <1>1, <2>1
<1>6. n \in 0..Len(chunk) /\ Len(slots[0]) + n <= MaxSize /\ n \in Nat
  <2> DEFINE l == Len(slots[0])
             c == Len(chunk)
  <2>1. l \in Nat /\ c \in Nat /\ room \in 1..c /\ l + room <= MaxSize /\ MaxSize \in Nat
    BY <1>4, Bounds
  <2> HIDE DEF l, c
  <2>2. n \in Nat /\ n <= c /\ l + n <= MaxSize
    BY <2>1
  <2> QED BY <2>1, <2>2 DEF l, c
<1>7. /\ slots' \in Files /\ slots'[0] = slots[0] \o SubSeq(chunk, 1, n)
      /\ slots'[0] # None /\ Len(slots'[0]) = Len(slots[0]) + n
      /\ \A i \in Slots : i # 0 => slots'[i] = slots[i]
      /\ n > 0 => Newest(slots'[0]) = chunk[n]
  <2>1. /\ Put(n) \in Files /\ Put(n)[0] = slots[0] \o SubSeq(chunk, 1, n)
        /\ Put(n)[0] # None /\ Len(Put(n)[0]) = Len(slots[0]) + n
        /\ \A i \in Slots : i # 0 => Put(n)[i] = slots[i]
        /\ n > 0 => Newest(Put(n)[0]) = chunk[n]
    BY <1>2, <1>3, <1>6, PutIs
  <2> QED BY <1>5, <2>1
<1>8. Disable => output' = "disabled" /\ whole' = FALSE /\ copier'[1] = "read" /\ chunk' = <<>>
  BY DEF Disable, At
<1>9. /\ SubSeq(chunk, n + 1, Len(chunk)) \in Seq(Nat)
      /\ Len(SubSeq(chunk, n + 1, Len(chunk))) = Len(chunk) - n
      /\ \A i \in 1..(Len(chunk) - n) : SubSeq(chunk, n + 1, Len(chunk))[i] = chunk[n + i]
  BY <1>3, <1>6, Splits
<1>10. Len(<<>>) = 0 /\ <<>> \in Seq(Nat)
  BY EmptySeq
<1>11. /\ chunk' \in Seq(Nat) /\ chunk' \in {SubSeq(chunk, n + 1, Len(chunk)), <<>>}
       /\ copier'[1] \in {"read", "write"} /\ (copier'[1] = "write" <=> chunk' # <<>>)
  <2>1. CASE Disable
    BY <1>8, <1>10, <2>1
  <2>2. CASE /\ n = room /\ chunk' = SubSeq(chunk, n + 1, Len(chunk))
             /\ copier'[1] = IF room = Len(chunk) THEN "read" ELSE "write"
    <3>1. chunk' \in Seq(Nat) /\ Len(chunk') = Len(chunk) - room
      BY <1>9, <2>2
    <3>2. chunk' # <<>> <=> room # Len(chunk)
      BY <1>4, <1>10, <3>1, EmptySeq
    <3> QED BY <2>2, <3>1, <3>2
  <2> QED BY <1>5, <2>1, <2>2
<1>12. /\ output' # "none" /\ (copier'[1] = "write" => output' = "open")
       /\ output' # "open" => ~whole'
  BY <1>2, <1>5, <1>8
<1>13. LogTypes'
  <2>1. whole' \in BOOLEAN
    BY <1>5, <1>8 DEF LogTypes
  <2> QED BY <1>1, <1>3, <1>7, <1>11, <2>1 DEF LogTypes
<1>14. Copying'
  BY <1>2, <1>11, <1>12 DEF Copying, Unready, Busy
<1>15. Rotating'
  BY <1>7, <1>11 DEF Rotating
<1>16. Sized'
  <2>1. \A i \in Slots : Seen(i)
    BY <1>2 DEF Seen
  <2>2. \A i \in Slots : slots'[i] # None => Len(slots'[i]) <= MaxSize
    BY <1>6, <1>7, <2>1 DEF Sized
  <2> QED BY <2>2 DEF Sized
<1>17. /\ P \in Layouts /\ Q \in Layouts /\ 1 \in Pieces /\ 2 \in Pieces
       /\ P[0] = fifo /\ P[1] = chunk /\ P[2] = slots[0]
       /\ Q[0] = fifo /\ Q[1] = chunk' /\ Q[2] = slots'[0]
       /\ \A k \in Pieces : k # 1 /\ k # 2 => Q[k] = P[k]
  <2>1. 0 + 2 = 2
    OBVIOUS
  <2>2. /\ P \in Layouts /\ P[0] = fifo /\ P[1] = chunk
        /\ \A i \in Slots : P[i + 2] = IF slots[i] = None THEN <<>> ELSE slots[i]
        /\ \A k \in Pieces \ {0, 1} : k - 2 \in Slots
    BY <1>3, LaidIs
  <2>3. /\ Q \in Layouts /\ Q[0] = fifo /\ Q[1] = chunk'
        /\ \A i \in Slots : Q[i + 2] = IF slots'[i] = None THEN <<>> ELSE slots'[i]
    BY <1>1, <1>3, <1>7, <1>11, LaidIs
  <2>4. 1 \in Pieces /\ 2 \in Pieces /\ \A k \in Pieces : k - 2 + 2 = k
    BY Bounds DEF Pieces, Stale
  <2> HIDE DEF P, Q
  <2>5. P[0 + 2] = slots[0] /\ Q[0 + 2] = slots'[0]
    BY <1>2, <1>3, <1>7, <2>2, <2>3
  <2>6. ASSUME NEW k \in Pieces, k # 1, k # 2 PROVE Q[k] = P[k]
    <3>1. CASE k = 0
      BY <2>2, <2>3, <3>1
    <3>2. CASE k # 0
      <4> DEFINE j == k - 2
      <4>1. j \in Slots /\ j + 2 = k
        BY <2>2, <2>4, <2>6, <3>2
      <4>2. j # 0
        BY <2>6, <4>1
      <4> HIDE DEF j
      <4>3. Q[j + 2] = P[j + 2]
        BY <1>7, <2>2, <2>3, <4>1, <4>2
      <4> QED BY <4>1, <4>3
    <3> QED BY <3>1, <3>2
  <2> QED BY <2>1, <2>2, <2>3, <2>4, <2>5, <2>6
<1>18. Sorted(P, produced) /\ Newest(slots[Stale]) = 0
  BY DEF Ordered
<1> DEFINE R == Poured(P, 1, n)
<1> HIDE DEF P, Q
<1>19. /\ R \in Layouts /\ Sorted(R, produced)
       /\ R[1] = SubSeq(chunk, n + 1, Len(chunk)) /\ R[2] = slots'[0]
       /\ \A k \in Pieces : k # 1 /\ k # 2 => R[k] = P[k]
  <2>1. 1 + 1 = 2 /\ 1 + 1 \in Pieces /\ n \in 0..Len(P[1])
    BY <1>6, <1>17
  <2>2. /\ R \in Layouts /\ R[1] = SubSeq(P[1], n + 1, Len(P[1]))
        /\ R[1 + 1] = P[1 + 1] \o SubSeq(P[1], 1, n) /\ Passed(P, R, 1, n)
    BY <1>17, <2>1, PouringIs
  <2>3. \A k \in Pieces : k # 1 /\ k # 1 + 1 => R[k] = P[k]
    BY <2>2 DEF Passed
  <2>4. Sorted(R, produced)
    BY <1>3, <1>17, <1>18, <2>1, PouringSorts
  <2> HIDE DEF R
  <2> QED BY <1>7, <1>17, <2>1, <2>2, <2>3, <2>4
<1>20. /\ chunk' = SubSeq(chunk, n + 1, Len(chunk)) => Q = R
       /\ chunk' = <<>> => Q = Without(R, 1)
  <2> HIDE DEF R
  <2>1. ASSUME chunk' = SubSeq(chunk, n + 1, Len(chunk)) PROVE Q = R
    <3>1. \A k \in Pieces : Q[k] = R[k]
      BY <1>17, <1>19, <2>1
    <3> QED BY <1>17, <1>19, <3>1, SameLayout
  <2>2. ASSUME chunk' = <<>> PROVE Q = Without(R, 1)
    <3>1. /\ Without(R, 1) \in Layouts /\ Without(R, 1)[1] = <<>>
          /\ \A k \in Pieces : k # 1 => Without(R, 1)[k] = R[k]
      BY <1>17, <1>19, WithoutIs
    <3>2. \A k \in Pieces : Q[k] = Without(R, 1)[k]
      BY <1>17, <1>19, <2>2, <3>1
    <3> QED BY <1>17, <3>1, <3>2, SameLayout
  <2> QED BY <2>1, <2>2
<1>21. Ordered'
  <2> HIDE DEF R
  <2>1. Sorted(Q, produced)
    BY <1>3, <1>11, <1>17, <1>19, <1>20, WithoutSorts
  <2>2. slots'[Stale] = slots[Stale]
    BY <1>3, <1>7
  <2> QED BY <1>1, <1>18, <2>1, <2>2 DEF Ordered, Q
<1>22. ASSUME whole' PROVE Complete'
  <2>1. /\ n = room /\ chunk' = SubSeq(chunk, n + 1, Len(chunk)) /\ whole /\ Q = R
        /\ n > 0 /\ n \in 1..Len(chunk)
    <3>1. ~Disable
      BY <1>8, <1>22
    <3>2. n = room /\ chunk' = SubSeq(chunk, n + 1, Len(chunk)) /\ whole
      BY <1>5, <1>22, <3>1
    <3>3. room > 0 /\ room \in 1..Len(chunk)
      BY <1>4
    <3> HIDE DEF R
    <3> QED BY <1>20, <3>2, <3>3
  <2>2. \A v : ~Moved(v) /\ ~Moved(v)'
    BY <1>1, <1>11 DEF Moved
  <2>3. Oldest = MaxBackups /\ Oldest' = MaxBackups /\ \A v : Home(v) = v /\ Home(v)' = v
    BY <2>2 DEF Oldest, Home
  <2>4. /\ Len(chunk') = Len(chunk) - n /\ DOMAIN chunk' = 1..(Len(chunk) - n)
        /\ DOMAIN chunk = 1..Len(chunk)
    BY <1>3, <1>9, <1>11, <2>1, LenProperties
  <2>5. Written' = Written + n
    <3>1. fifo' = fifo /\ produced' = produced /\ Len(fifo) \in Int /\ produced \in Int
      BY <1>1, <1>3, LenProperties
    <3> QED BY <1>4, <1>6, <2>4, <3>1 DEF Written
  <2>6. Active' = Active + n
    <3>1. Active = Len(slots[0]) /\ Active' = Len(slots'[0])
      BY <1>1, <1>2, <1>7, <1>11 DEF Active
    <3> QED BY <1>7, <3>1
  <2>7. Edge' = Edge
    BY <1>6, <2>5, <2>6, LogNumbers DEF Edge
  <2>8. /\ Written \in Nat
        /\ \A i \in DOMAIN fifo : fifo[i] = Written + Len(chunk) + i
        /\ \A i \in DOMAIN chunk : chunk[i] = Written + i
        /\ \A v \in 1..MaxBackups : Newest(slots[v]) = Pos(Edge - Size(v - 1))
        /\ Holds(P, Pos(Edge - Size(MaxBackups)), produced)
    BY <2>1, <2>3 DEF Complete, P
  <2>9. /\ Written' \in Nat
        /\ \A i \in DOMAIN fifo' : fifo'[i] = Written' + Len(chunk') + i
        /\ \A i \in DOMAIN chunk' : chunk'[i] = Written' + i
        /\ Newest(slots'[0]) = Written'
    <3>1. Written' + Len(chunk') = Written + Len(chunk) /\ Written' \in Nat
      BY <1>4, <1>6, <2>4, <2>5, <2>8
    <3>2. fifo' = fifo
      BY <1>1
    <3>3. \A i \in DOMAIN fifo' : fifo'[i] = Written' + Len(chunk') + i
      BY <2>8, <3>1, <3>2
    <3>4. ASSUME NEW i \in 1..(Len(chunk) - n) PROVE chunk'[i] = Written' + i
      <4>1. n + i \in 1..Len(chunk)
        BY <1>4, <1>6
      <4>2. chunk'[i] = chunk[n + i] /\ chunk[n + i] = Written + (n + i)
        BY <1>9, <2>1, <2>4, <2>8, <4>1
      <4> QED BY <1>6, <2>5, <2>8, <4>2
    <3>5. Newest(slots'[0]) = Written'
      BY <1>7, <2>1, <2>4, <2>5, <2>8
    <3> QED BY <2>4, <3>1, <3>3, <3>4, <3>5
  <2>10. \A v \in 1..MaxBackups : Newest(slots'[v]) = Pos(Edge' - Size(v - 1))
    <3>1. \A v \in 1..MaxBackups : v \in Slots /\ v # 0
      BY Bounds DEF Slots, Stale
    <3> QED BY <1>7, <2>7, <2>8, <3>1
  <2>11. Holds(Q, Pos(Edge - Size(MaxBackups)), produced)
    <3> DEFINE lo == Pos(Edge - Size(MaxBackups))
    <3>1. lo \in Nat
      BY LogNumbers, Bounds
    <3> HIDE DEF lo
    <3>2. Holds(P, lo, produced)
      BY <2>8 DEF lo
    <3>3. 1 + 1 \in Pieces /\ n \in 0..Len(P[1])
      BY <1>6, <1>17
    <3>4. Holds(R, lo, produced)
      BY <1>3, <1>17, <3>1, <3>2, <3>3, PouringHolds
    <3> HIDE DEF R
    <3> QED BY <2>1, <3>4 DEF lo
  <2>12. whole' /\ produced' = produced
    BY <1>1, <1>22
  <2> QED BY <2>3, <2>7, <2>9, <2>10, <2>11, <2>12 DEF Complete, Q, Size, Pos
<1>23. ~whole' => Complete'
  BY DEF Complete
<1> QED BY <1>13, <1>14, <1>15, <1>16, <1>21, <1>22, <1>23 DEF LogInv

\* A rotation begins where there is no room left in the active file.
LEMMA BeginRotationKeeps ==
  ASSUME LogTypes, Copying, Rotating, Sized, Ordered, Complete, main' = main, BeginRotation
  PROVE  LogInv'
<1>1. /\ copier[1] = "write" /\ Len(slots[0]) = MaxSize
      /\ UNCHANGED <<slots, fifo, writers, produced>>
      /\ \/ copier' = <<"rotate", MaxBackups>> /\ UNCHANGED <<output, chunk, whole>>
         \/ Disable
  BY DEF BeginRotation, At
<1>2. Busy /\ ~Unready
  BY <1>1 DEF Busy, Unready
<1>3. CASE Disable
  BY <1>1, <1>2, <1>3, DisableKeeps
<1>4. ASSUME copier' = <<"rotate", MaxBackups>>, UNCHANGED <<output, chunk, whole>>
      PROVE  LogInv'
  <2>1. copier'[1] = "rotate" /\ copier'[2] = MaxBackups
    BY <1>4
  <2>2. LogTypes'
    BY <1>1, <1>4, <2>1, Bounds DEF LogTypes
  <2>3. Copying'
    BY <1>1, <1>2, <1>4, <2>1 DEF Copying, Busy, Unready
  <2>4. Rotating'
    BY <1>1, <1>4, <2>1 DEF Rotating
  <2>5. Sized'
    <3>1. \A i \in Slots : Seen(i)
      BY <1>2 DEF Seen
    <3> QED BY <1>1, <3>1 DEF Sized
  <2>6. Ordered'
    BY <1>1, <1>4 DEF Ordered
  <2>7. Complete'
    <3>1. \A v \in 0..MaxBackups : ~Moved(v) /\ ~Moved(v)'
      BY <1>1, <2>1, Bounds DEF Moved
    <3>2. MaxBackups \in 0..MaxBackups /\ 0 \in 0..MaxBackups
      BY Bounds
    <3>3. /\ Oldest = MaxBackups /\ Oldest' = MaxBackups
          /\ \A v \in 0..MaxBackups : Home(v) = v /\ Home(v)' = v
      BY <3>1, <3>2 DEF Oldest, Home
    <3>4. Written' = Written /\ Active' = Active
      BY <1>1, <1>4, <2>1 DEF Written, Active
    <3>5. Edge' = Edge
      BY <3>4 DEF Edge
    <3>6. \A v \in 1..MaxBackups : v \in 0..MaxBackups
      BY Bounds
    <3> QED BY <1>1, <1>4, <3>2, <3>3, <3>4, <3>5, <3>6 DEF Complete, Size, Pos
  <2> QED BY <2>2, <2>3, <2>4, <2>5, <2>6, <2>7 DEF LogInv
<1> QED BY <1>1, <1>3, <1>4

\* The oldest backup goes: the log begins after it.
LEMMA DropKeeps ==
  ASSUME LogTypes, Copying, Rotating, Sized, Ordered, Complete, main' = main,
         copier[1] = "rotate", copier[2] = MaxBackups,
         slots' = Shifted(MaxBackups),
         copier' = <<"rotate", MaxBackups - 1>>,
         UNCHANGED <<fifo, writers, output, chunk, produced, whole>>
  PROVE  LogInv'
<1> DEFINE P == Laid(fifo, chunk, slots)
           Q == Laid(fifo', chunk', slots')
           a == MaxBackups + 2
<1>1. copier'[1] = "rotate" /\ copier'[2] = MaxBackups - 1
  OBVIOUS
<1>2. Busy /\ ~Unready /\ Busy' /\ ~Unready'
  BY <1>1 DEF Busy, Unready
<1>3. /\ fifo \in Seq(Nat) /\ chunk \in Seq(Nat) /\ slots \in Files /\ produced \in Nat
      /\ MaxBackups \in Slots /\ Stale \in Slots /\ 0 \in Slots
      /\ Stale # MaxBackups /\ 0 # MaxBackups /\ MaxBackups - 1 \in 0..MaxBackups
  BY Bounds DEF LogTypes, Slots, Stale
<1>4. /\ slots' \in Files /\ slots'[MaxBackups] = None
      /\ \A i \in Slots : i # MaxBackups => slots'[i] = slots[i]
  BY <1>3 DEF Files, Shifted
<1>5. LogTypes'
  BY <1>1, <1>3, <1>4 DEF LogTypes
<1>6. Copying'
  BY <1>2 DEF Copying
<1>7. Rotating'
  <2>1. MaxBackups - 1 + 1 = MaxBackups
    BY Bounds
  <2> QED BY <1>1, <1>3, <1>4, <2>1 DEF Rotating
<1>8. Sized'
  <2>1. \A i \in Slots : Seen(i)
    BY <1>2 DEF Seen
  <2>2. \A i \in Slots : slots'[i] # None => i # MaxBackups /\ slots'[i] = slots[i]
    BY <1>4
  <2> QED BY <2>1, <2>2 DEF Sized
<1>9. /\ P \in Layouts /\ Q \in Layouts /\ a \in Pieces
      /\ \A i \in Slots : P[i + 2] = IF slots[i] = None THEN <<>> ELSE slots[i]
      /\ \A k \in Pieces \ {0, 1} : k - 2 \in Slots
      /\ Q = Without(P, a)
  <2>1. /\ P \in Layouts /\ P[0] = fifo /\ P[1] = chunk
        /\ \A i \in Slots : /\ i + 2 \in Pieces
                            /\ P[i + 2] = IF slots[i] = None THEN <<>> ELSE slots[i]
        /\ \A k \in Pieces \ {0, 1} : k - 2 \in Slots
    BY <1>3, LaidIs
  <2>2. /\ Q \in Layouts /\ Q[0] = fifo /\ Q[1] = chunk
        /\ \A i \in Slots : Q[i + 2] = IF slots'[i] = None THEN <<>> ELSE slots'[i]
    <3>1. fifo' = fifo /\ chunk' = chunk /\ fifo' \in Seq(Nat) /\ chunk' \in Seq(Nat)
      BY <1>3
    <3>2. /\ Q \in Layouts /\ Q[0] = fifo' /\ Q[1] = chunk'
          /\ \A i \in Slots : Q[i + 2] = IF slots'[i] = None THEN <<>> ELSE slots'[i]
      BY <1>4, <3>1, LaidIs
    <3> QED BY <3>1, <3>2
  <2> HIDE DEF P, Q
  <2>3. a \in Pieces /\ Q[a] = <<>>
    BY <1>3, <1>4, <2>1, <2>2
  <2>4. ASSUME NEW k \in Pieces, k # a PROVE Q[k] = P[k]
    <3>1. CASE k \in {0, 1}
      BY <2>1, <2>2, <3>1
    <3>2. CASE k \notin {0, 1}
      <4> DEFINE j == k - 2
      <4>1. j \in Slots /\ j + 2 = k /\ j # MaxBackups
        BY <2>1, <2>4, <3>2 DEF Pieces, Stale
      <4> HIDE DEF j
      <4>2. Q[j + 2] = P[j + 2]
        BY <1>4, <2>1, <2>2, <4>1
      <4> QED BY <4>1, <4>2
    <3> QED BY <3>1, <3>2
  <2> HIDE DEF a
  <2>5. /\ Without(P, a) \in Layouts /\ Without(P, a)[a] = <<>>
        /\ \A k \in Pieces : k # a => Without(P, a)[k] = P[k]
    BY <2>1, <2>3, WithoutIs
  <2>6. \A k \in Pieces : Q[k] = Without(P, a)[k]
    BY <2>3, <2>4, <2>5
  <2>7. Q = Without(P, a)
    BY <2>2, <2>5, <2>6, SameLayout
  <2> QED BY <2>1, <2>2, <2>3, <2>7
<1>10. Sorted(P, produced) /\ Newest(slots[Stale]) = 0
  BY DEF Ordered
<1>11. Ordered'
  <2> HIDE DEF P, a
  <2>1. Sorted(Q, produced)
    BY <1>3, <1>9, <1>10, WithoutSorts
  <2> QED BY <1>3, <1>4, <1>10, <2>1 DEF Ordered
<1>12. ASSUME whole' PROVE Complete'
  <2>1. /\ \A v \in 0..MaxBackups : ~Moved(v)
        /\ \A v \in 0..(MaxBackups - 1) : ~Moved(v)'
        /\ Moved(MaxBackups)'
    BY <1>1, Bounds DEF Moved
  <2>2. /\ MaxBackups \in 0..MaxBackups /\ 0 \in 0..MaxBackups /\ 0 \in 0..(MaxBackups - 1)
        /\ \A v \in 1..(MaxBackups - 1) : v \in 0..MaxBackups /\ v \in 0..(MaxBackups - 1)
                                        /\ v \in 1..MaxBackups /\ v \in Slots /\ v # MaxBackups
        /\ MaxBackups \in 1..MaxBackups
    BY Bounds DEF Slots, Stale
  <2>3. /\ Oldest = MaxBackups /\ Oldest' = MaxBackups - 1
        /\ \A v \in 0..MaxBackups : Home(v) = v
        /\ \A v \in 0..(MaxBackups - 1) : Home(v)' = v
    BY <2>1, <2>2 DEF Oldest, Home
  <2>4. Written' = Written /\ Active' = Active
    <3>1. slots'[0] = slots[0]
      BY <1>3, <1>4
    <3> QED BY <1>1, <3>1 DEF Written, Active
  <2>5. Edge' = Edge
    BY <2>4 DEF Edge
  <2>6. /\ whole /\ Written \in Nat
        /\ \A i \in DOMAIN fifo : fifo[i] = Written + Len(chunk) + i
        /\ \A i \in DOMAIN chunk : chunk[i] = Written + i
        /\ Active > 0 => Newest(slots[0]) = Written
        /\ \A v \in 1..MaxBackups : Newest(slots[v]) = Pos(Edge - Size(v - 1))
        /\ Holds(P, Pos(Edge - Size(MaxBackups)), produced)
    <3>1. \A v \in 1..MaxBackups : v \in 0..MaxBackups
      BY Bounds
    <3> QED BY <1>12, <2>2, <2>3, <3>1 DEF Complete, P
  <2>7. Active' > 0 => Newest(slots'[0]) = Written'
    BY <1>3, <1>4, <2>4, <2>6
  <2>8. \A v \in 1..(MaxBackups - 1) : Newest(slots'[v]) = Pos(Edge - Size(v - 1))
    BY <1>4, <2>2, <2>6
  <2>9. Holds(Q, Pos(Edge - Size(MaxBackups - 1)), produced)
    <3> DEFINE lo == Pos(Edge - Size(MaxBackups))
               m  == Pos(Edge - Size(MaxBackups - 1))
    <3>1. lo \in Nat /\ m \in Nat
      BY LogNumbers, Bounds
    <3>2. m = 0 => lo = 0
      <4>1. Size(MaxBackups) = Size(MaxBackups - 1) + MaxSize /\ Size(MaxBackups - 1) \in Int
        <5>1. MaxBackups - 1 \in Int /\ MaxBackups - 1 + 1 = MaxBackups
          BY Bounds
        <5>2. Size(MaxBackups - 1 + 1) = Size(MaxBackups - 1) + MaxSize
              /\ Size(MaxBackups - 1) \in Int
          BY <5>1, Sizes
        <5> QED BY <5>1, <5>2
      <4>2. Edge \in Int /\ MaxSize \in Nat
        BY LogNumbers, Bounds
      <4> QED BY <4>1, <4>2 DEF Pos
    <3>3. m = Newest(slots[MaxBackups])
      BY <2>2, <2>6
    <3>4. Holds(P, lo, produced)
      BY <2>6
    <3> HIDE DEF lo, m
    <3>5. m = IF P[a] = <<>> THEN 0 ELSE P[a][Len(P[a])]
      BY <1>3, <1>10, <3>3, NewestOf
    <3>6. ASSUME NEW k \in Pieces, k > a, NEW i \in DOMAIN P[k] PROVE P[k][i] = 0
      <4>1. k = Stale + 2
        BY <3>6, Bounds DEF Pieces, Stale
      <4>2. P[Stale + 2][i] <= Newest(slots[Stale])
        BY <1>3, <1>10, <3>6, <4>1, NewestOf
      <4>3. P[k][i] \in Nat
        BY <1>9, <3>6, PieceOf
      <4> QED BY <1>10, <4>1, <4>2, <4>3
    <3> HIDE DEF P, a
    <3>7. Holds(Without(P, a), IF m > 0 THEN m ELSE lo, produced)
      <4>1. P \in Layouts /\ a \in Pieces /\ Sorted(P, produced) /\ produced \in Nat
        BY <1>3, <1>9, <1>10
      <4>2. \A k \in Pieces : k > a => \A i \in DOMAIN P[k] : P[k][i] = 0
        BY <3>6
      <4> QED BY <3>1, <3>4, <3>5, <4>1, <4>2, WithoutHolds
    <3>8. (IF m > 0 THEN m ELSE lo) = m
      BY <3>1, <3>2
    <3> QED BY <1>9, <3>7, <3>8 DEF m
  <2> QED BY <1>12, <2>2, <2>3, <2>4, <2>5, <2>6, <2>7, <2>8, <2>9 DEF Complete, Size, Pos
<1>13. ~whole' => Complete'
  BY DEF Complete
<1> QED BY <1>5, <1>6, <1>7, <1>8, <1>11, <1>12, <1>13 DEF LogInv

\* A file moves up, into the place of the one that moved before it.
LEMMA MoveKeeps ==
  ASSUME LogTypes, Copying, Rotating, Sized, Ordered, Complete, main' = main,
         NEW k \in 0..MaxBackups, k # MaxBackups, copier[1] = "rotate", copier[2] = k,
         slots' = Renamed(k),
         copier' = IF k = 0 THEN At("reopen") ELSE <<"rotate", k - 1>>,
         UNCHANGED <<fifo, writers, output, chunk, produced, whole>>
  PROVE  LogInv'
<1> DEFINE P == Laid(fifo, chunk, slots)
           Q == Laid(fifo', chunk', slots')
           a == k + 2
<1>1. /\ k = 0 => copier'[1] = "reopen"
      /\ k # 0 => copier'[1] = "rotate" /\ copier'[2] = k - 1
  BY DEF At
<1>2. Busy /\ ~Unready /\ Busy' /\ ~Unready'
  BY <1>1 DEF Busy, Unready
<1>3. /\ fifo \in Seq(Nat) /\ chunk \in Seq(Nat) /\ slots \in Files /\ produced \in Nat
      /\ k \in Nat /\ k \in Slots /\ k + 1 \in Slots /\ Stale \in Slots /\ 0 \in Slots
      /\ Stale # k /\ Stale # k + 1 /\ k + 1 # k
  BY Bounds DEF LogTypes, Slots, Stale
<1>4. slots[k + 1] = None /\ Len(slots[0]) = MaxSize /\ output = "open" /\ slots[0] # None
  BY <1>2 DEF Rotating, Copying
<1>5. /\ slots' \in Files /\ slots'[k] = None /\ slots'[k + 1] = slots[k]
      /\ \A i \in Slots : i # k /\ i # k + 1 => slots'[i] = slots[i]
  <2>1. CASE slots[k] = None
    BY <1>3, <1>4, <2>1 DEF Renamed
  <2>2. CASE slots[k] # None
    <3>1. slots' = [slots EXCEPT ![k + 1] = slots[k], ![k] = None]
      BY <2>2 DEF Renamed
    <3>2. slots[k] \in {None} \cup Seq(Nat)
      BY <1>3 DEF Files
    <3> QED BY <1>3, <3>1, <3>2 DEF Files
  <2> QED BY <2>1, <2>2
<1>6. LogTypes'
  <2>1. k \in Nat /\ k <= MaxBackups /\ MaxBackups \in Nat
    BY Bounds
  <2>2. k # 0 => k - 1 \in 0..MaxBackups
    BY <2>1
  <2> QED BY <1>1, <1>3, <1>5, <2>2 DEF LogTypes
<1>7. Copying'
  BY <1>2 DEF Copying
<1>8. Rotating'
  <2>1. k - 1 + 1 = k
    BY <1>3
  <2>2. k # 0 => slots'[0] = slots[0]
    <3>1. 0 # k + 1
      BY <1>3
    <3> QED BY <1>3, <1>5, <3>1
  <2> QED BY <1>1, <1>4, <1>5, <2>1, <2>2 DEF Rotating
<1>9. Sized'
  <2>1. \A i \in Slots : Seen(i)
    BY <1>2 DEF Seen
  <2>2. ASSUME NEW i \in Slots, slots'[i] # None PROVE Len(slots'[i]) <= MaxSize
    <3>1. i # k
      BY <1>5, <2>2
    <3>2. CASE i = k + 1
      BY <1>3, <1>5, <2>1, <2>2, <3>2 DEF Sized
    <3>3. CASE i # k + 1
      BY <1>5, <2>1, <2>2, <3>1, <3>3 DEF Sized
    <3> QED BY <3>2, <3>3
  <2> QED BY <2>2 DEF Sized
<1> DEFINE n == Len(P[a])
           R == Poured(P, a, n)
<1>10. /\ P \in Layouts /\ Q \in Layouts /\ a \in Pieces /\ a + 1 \in Pieces /\ n \in 0..n
       /\ Q = R
  <2>1. /\ P \in Layouts /\ P[0] = fifo /\ P[1] = chunk
        /\ \A i \in Slots : /\ i + 2 \in Pieces
                            /\ P[i + 2] = IF slots[i] = None THEN <<>> ELSE slots[i]
        /\ \A l \in Pieces \ {0, 1} : l - 2 \in Slots
    BY <1>3, LaidIs
  <2>2. /\ Q \in Layouts /\ Q[0] = fifo /\ Q[1] = chunk
        /\ \A i \in Slots : Q[i + 2] = IF slots'[i] = None THEN <<>> ELSE slots'[i]
    <3>1. fifo' = fifo /\ chunk' = chunk /\ fifo' \in Seq(Nat) /\ chunk' \in Seq(Nat)
      BY <1>3
    <3>2. /\ Q \in Layouts /\ Q[0] = fifo' /\ Q[1] = chunk'
          /\ \A i \in Slots : Q[i + 2] = IF slots'[i] = None THEN <<>> ELSE slots'[i]
      BY <1>5, <3>1, LaidIs
    <3> QED BY <3>1, <3>2
  <2> HIDE DEF P, Q
  <2>3. k + 1 + 2 = a + 1 /\ a \in Int /\ a # a + 1
    <3>1. k \in Int
      BY <1>3
    <3> QED BY <3>1
  <2>4. a \in Pieces /\ k + 1 + 2 \in Pieces
    BY <1>3, <2>1
  <2>5. Q[a] = <<>> /\ P[k + 1 + 2] = <<>> /\ Q[k + 1 + 2] = P[a]
    BY <1>3, <1>4, <1>5, <2>1, <2>2
  <2>6. ASSUME NEW l \in Pieces, l # a, l # a + 1 PROVE Q[l] = P[l]
    <3>1. CASE l \in {0, 1}
      BY <2>1, <2>2, <3>1
    <3>2. CASE l \notin {0, 1}
      <4> DEFINE j == l - 2
      <4>1. j \in Slots /\ j + 2 = l /\ j # k /\ j # k + 1
        BY <1>3, <2>1, <2>6, <3>2 DEF Pieces, Stale
      <4> HIDE DEF j
      <4>2. Q[j + 2] = P[j + 2]
        BY <1>5, <2>1, <2>2, <4>1
      <4> QED BY <4>1, <4>2
    <3> QED BY <3>1, <3>2
  <2> HIDE DEF a
  <2>7. a + 1 \in Pieces /\ P[a + 1] = <<>> /\ Q[a + 1] = P[a]
    BY <2>3, <2>4, <2>5
  <2>8. P[a] \in Seq(Nat) /\ n \in Nat /\ n \in 0..n
    BY <2>1, <2>4, PieceOf
  <2>9. /\ R \in Layouts /\ R[a] = SubSeq(P[a], n + 1, Len(P[a]))
        /\ R[a + 1] = P[a + 1] \o SubSeq(P[a], 1, n) /\ Passed(P, R, a, n)
    BY <2>1, <2>4, <2>7, <2>8, PouringIs
  <2>10. R[a] = <<>>
    <3>1. n + 1 \in Int /\ n < n + 1 /\ n \in Int
      BY <2>8
    <3> QED BY <2>9, <3>1, SubSeqEmpty
  <2>11. R[a + 1] = P[a]
    BY <2>7, <2>8, <2>9, SubSeqFull, ConcatEmptySeq
  <2>12. \A l \in Pieces : l # a /\ l # a + 1 => R[l] = P[l]
    BY <2>9 DEF Passed
  <2> HIDE DEF R, n
  <2>13. \A l \in Pieces : Q[l] = R[l]
    BY <2>5, <2>6, <2>7, <2>10, <2>11, <2>12
  <2>14. Q = R
    BY <2>2, <2>9, <2>13, SameLayout
  <2> QED BY <2>1, <2>2, <2>4, <2>7, <2>8, <2>14
<1>11. Sorted(P, produced) /\ Newest(slots[Stale]) = 0
  BY DEF Ordered
<1>12. Ordered'
  <2> HIDE DEF P, a
  <2>1. Sorted(Q, produced)
    BY <1>3, <1>10, <1>11, PouringSorts
  <2> QED BY <1>3, <1>5, <1>11, <2>1 DEF Ordered
<1>13. ASSUME whole' PROVE Complete'
  <2>1. /\ \A v \in Nat : Moved(v) <=> v > k
        /\ \A v \in Nat : Moved(v)' <=> v >= k
    <3>1. \A v \in Nat : Moved(v) <=> v > k
      BY DEF Moved
    <3>2. k = 0 => \A v \in Nat : Moved(v)' /\ v >= k
      BY <1>1 DEF Moved
    <3>3. k # 0 => \A v \in Nat : Moved(v)' <=> v > k - 1
      BY <1>1 DEF Moved
    <3>4. \A v \in Nat : v > k - 1 <=> v >= k
      BY <1>3
    <3> QED BY <3>1, <3>2, <3>3, <3>4
  <2>2. Oldest = MaxBackups - 1 /\ Oldest' = MaxBackups - 1
    <3>1. MaxBackups \in Nat /\ MaxBackups > k
      BY <1>3, Bounds
    <3> QED BY <2>1, <3>1, Bounds DEF Oldest
  <2>3. \A v \in 0..(MaxBackups - 1) : Newest(slots'[Home(v)']) = Newest(slots[Home(v)])
    <3>1. ASSUME NEW v \in 0..(MaxBackups - 1)
          PROVE  Newest(slots'[Home(v)']) = Newest(slots[Home(v)])
      <4>1. v \in Nat /\ v \in Slots /\ v + 1 \in Slots
        BY Bounds DEF Slots, Stale
      <4>2. CASE v > k
        <5>1. Home(v) = v + 1 /\ Home(v)' = v + 1 /\ v + 1 # k /\ v + 1 # k + 1
          BY <1>3, <2>1, <4>1, <4>2 DEF Home
        <5> QED BY <1>5, <4>1, <5>1
      <4>3. CASE v = k
        <5>1. Home(v) = k /\ Home(v)' = k + 1
          BY <1>3, <2>1, <4>1, <4>3 DEF Home
        <5> QED BY <1>5, <5>1
      <4>4. CASE v < k
        <5>1. Home(v) = v /\ Home(v)' = v /\ v # k /\ v # k + 1
          BY <1>3, <2>1, <4>1, <4>4 DEF Home
        <5> QED BY <1>5, <4>1, <5>1
      <4> QED BY <1>3, <4>1, <4>2, <4>3, <4>4
    <3> QED BY <3>1
  <2>4. Active' = Active
    <3>1. Active = MaxSize
      BY <1>4 DEF Active
    <3>2. k = 0 => Active' = MaxSize
      BY <1>1 DEF Active
    <3>3. k # 0 => slots'[0] = slots[0] /\ copier'[1] # "reopen"
      <4>1. 0 # k + 1
        BY <1>3
      <4> QED BY <1>1, <1>3, <1>5, <4>1
    <3>4. k # 0 => Active' = MaxSize
      BY <1>4, <3>3 DEF Active
    <3> QED BY <3>1, <3>2, <3>4
  <2>5. Written' = Written
    BY DEF Written
  <2>6. Edge' = Edge
    BY <2>4, <2>5 DEF Edge
  <2>7. /\ whole /\ Written \in Nat
        /\ \A i \in DOMAIN fifo : fifo[i] = Written + Len(chunk) + i
        /\ \A i \in DOMAIN chunk : chunk[i] = Written + i
        /\ Active > 0 => Newest(slots[Home(0)]) = Written
        /\ \A v \in 1..(MaxBackups - 1) : Newest(slots[Home(v)]) = Pos(Edge - Size(v - 1))
        /\ Holds(P, Pos(Edge - Size(MaxBackups - 1)), produced)
    BY <1>13, <2>2 DEF Complete, P
  <2>8. /\ Active' > 0 => Newest(slots'[Home(0)']) = Written'
        /\ \A v \in 1..(MaxBackups - 1) : Newest(slots'[Home(v)']) = Pos(Edge - Size(v - 1))
    <3>1. 0 \in 0..(MaxBackups - 1) /\ \A v \in 1..(MaxBackups - 1) : v \in 0..(MaxBackups - 1)
      BY Bounds
    <3> QED BY <2>3, <2>4, <2>5, <2>7, <3>1
  <2>9. Holds(Q, Pos(Edge - Size(MaxBackups - 1)), produced)
    <3> DEFINE lo == Pos(Edge - Size(MaxBackups - 1))
    <3>1. lo \in Nat
      <4>1. MaxBackups - 1 \in Nat
        BY Bounds
      <4> QED BY <4>1, LogNumbers
    <3>2. Holds(P, lo, produced)
      BY <2>7
    <3> HIDE DEF lo, P, a
    <3>3. Holds(R, lo, produced)
      BY <1>3, <1>10, <3>1, <3>2, PouringHolds
    <3> QED BY <1>10, <3>3 DEF lo
  <2>10. Home(0)' = (IF Moved(0)' THEN 0 + 1 ELSE 0)
    BY DEF Home
  <2> HIDE DEF P, Q, R, n, a
  <2>11. /\ whole' /\ produced' = produced /\ fifo' = fifo /\ chunk' = chunk
    BY <1>13
  <2>12. Holds(Laid(fifo, chunk, slots'), Pos(Edge - Size(MaxBackups - 1)), produced)
    BY <2>9 DEF Q
  <2> QED BY <2>2, <2>5, <2>6, <2>7, <2>8, <2>11, <2>12 DEF Complete, Size, Pos
<1>14. ~whole' => Complete'
  BY DEF Complete
<1> QED BY <1>6, <1>7, <1>8, <1>9, <1>12, <1>13, <1>14 DEF LogInv

LEMMA RotateKeeps ==
  ASSUME LogTypes, Copying, Rotating, Sized, Ordered, Complete, main' = main, Rotate
  PROVE  LogInv'
<1>1. copier[1] = "rotate" /\ copier[2] \in 0..MaxBackups /\ Busy
  BY DEF Rotate, LogTypes, Busy
<1>2. CASE Disable /\ UNCHANGED slots
  BY <1>1, <1>2, DisableKeeps DEF Rotate
<1>3. ASSUME slots' = Shifted(copier[2]),
             copier' = IF copier[2] = 0 THEN At("reopen") ELSE <<"rotate", copier[2] - 1>>,
             UNCHANGED <<output, chunk, whole>>
      PROVE  LogInv'
  <2>1. UNCHANGED <<fifo, writers, output, chunk, produced, whole>>
    BY <1>3 DEF Rotate
  <2>2. CASE copier[2] = MaxBackups
    <3>1. MaxBackups # 0
      BY Bounds
    <3>2. slots' = Shifted(MaxBackups) /\ copier' = <<"rotate", MaxBackups - 1>>
      BY <1>3, <2>2, <3>1
    <3> QED BY <1>1, <2>1, <2>2, <3>2, DropKeeps
  <2>3. CASE copier[2] # MaxBackups
    <3>1. slots' = Renamed(copier[2])
      BY <1>3, <2>3 DEF Shifted
    <3> QED BY <1>1, <1>3, <2>1, <2>3, <3>1, MoveKeeps
  <2> QED BY <2>2, <2>3
<1> QED BY <1>2, <1>3 DEF Rotate

\* The new active file: what was the active one is the newest backup.
LEMMA ReopenKeeps ==
  ASSUME LogTypes, Copying, Rotating, Sized, Ordered, Complete, main' = main, Reopen
  PROVE  LogInv'
<1> DEFINE P == Laid(fifo, chunk, slots)
           Q == Laid(fifo', chunk', slots')
<1>1. copier[1] = "reopen" /\ UNCHANGED <<fifo, writers, produced>>
  BY DEF Reopen, At
<1>2. Busy /\ ~Unready /\ slots[0] = None
  BY <1>1 DEF Busy, Unready, Rotating
<1>3. CASE Disable /\ UNCHANGED slots
  BY <1>1, <1>2, <1>3, DisableKeeps
<1>4. ASSUME slots' = [slots EXCEPT ![0] = <<>>], copier' = At("write"),
             UNCHANGED <<output, chunk, whole>>
      PROVE  LogInv'
  <2>1. copier'[1] = "write" /\ Busy' /\ ~Unready'
    BY <1>4 DEF At, Busy, Unready
  <2>2. /\ fifo \in Seq(Nat) /\ chunk \in Seq(Nat) /\ slots \in Files /\ produced \in Nat
        /\ 0 \in Slots /\ Stale \in Slots /\ Stale # 0
    BY Bounds DEF LogTypes, Slots, Stale
  <2>3. <<>> \in Seq(Nat) /\ Len(<<>>) = 0 /\ <<>> # None
    BY EmptySeq, SerialAssumption
  <2>4. /\ slots' \in Files /\ slots'[0] = <<>>
        /\ \A i \in Slots : i # 0 => slots'[i] = slots[i]
    BY <1>4, <2>2, <2>3 DEF Files
  <2>5. LogTypes'
    BY <1>1, <1>4, <2>1, <2>2, <2>4 DEF LogTypes
  <2>6. Copying'
    BY <1>1, <1>2, <1>4, <2>1 DEF Copying
  <2>7. Rotating'
    BY <2>1, <2>3, <2>4 DEF Rotating
  <2>8. Sized'
    <3>1. \A i \in Slots : Seen(i)
      BY <1>2 DEF Seen
    <3>2. Len(<<>>) <= MaxSize
      BY <2>3, Bounds
    <3>3. \A i \in Slots : slots'[i] # None => Len(slots'[i]) <= MaxSize
      BY <2>4, <3>1, <3>2 DEF Sized
    <3> QED BY <3>3 DEF Sized
  <2>9. Q = P
    <3>1. \A i \in Slots : (IF slots'[i] = None THEN <<>> ELSE slots'[i])
                             = IF slots[i] = None THEN <<>> ELSE slots[i]
      BY <1>2, <2>4
    <3>2. /\ P \in Layouts /\ P[0] = fifo /\ P[1] = chunk
          /\ \A i \in Slots : P[i + 2] = IF slots[i] = None THEN <<>> ELSE slots[i]
          /\ \A k \in Pieces \ {0, 1} : k - 2 \in Slots
      BY <2>2, LaidIs
    <3>3. /\ Q \in Layouts /\ Q[0] = fifo /\ Q[1] = chunk
          /\ \A i \in Slots : Q[i + 2] = IF slots'[i] = None THEN <<>> ELSE slots'[i]
      <4>1. fifo' = fifo /\ chunk' = chunk /\ fifo' \in Seq(Nat) /\ chunk' \in Seq(Nat)
        BY <1>1, <1>4, <2>2
      <4>2. /\ Q \in Layouts /\ Q[0] = fifo' /\ Q[1] = chunk'
            /\ \A i \in Slots : Q[i + 2] = IF slots'[i] = None THEN <<>> ELSE slots'[i]
        BY <2>4, <4>1, LaidIs
      <4> QED BY <4>1, <4>2
    <3>4. \A k \in Pieces \ {0, 1} : k - 2 + 2 = k
      BY DEF Pieces, Stale
    <3> HIDE DEF P, Q
    <3>5. ASSUME NEW k \in Pieces PROVE Q[k] = P[k]
      <4>1. CASE k \in {0, 1}
        BY <3>2, <3>3, <4>1
      <4>2. CASE k \notin {0, 1}
        <5> DEFINE j == k - 2
        <5>1. j \in Slots /\ j + 2 = k
          BY <3>2, <3>4, <4>2
        <5> HIDE DEF j
        <5>2. Q[j + 2] = P[j + 2]
          BY <3>1, <3>2, <3>3, <5>1
        <5> QED BY <5>1, <5>2
      <4> QED BY <4>1, <4>2
    <3> QED BY <3>2, <3>3, <3>5, SameLayout
  <2>10. Sorted(P, produced) /\ Newest(slots[Stale]) = 0
    BY DEF Ordered
  <2> HIDE DEF P, Q
  <2>11. Ordered'
    BY <1>1, <2>2, <2>4, <2>9, <2>10 DEF Ordered, Q
  <2>12. ASSUME whole' PROVE Complete'
    <3>1. \A v : Moved(v) /\ ~Moved(v)'
      BY <1>1, <2>1 DEF Moved
    <3>2. Oldest = MaxBackups - 1 /\ Oldest' = MaxBackups /\ \A v : Home(v) = v + 1 /\ Home(v)' = v
      BY <3>1 DEF Oldest, Home
    <3>3. Active = MaxSize /\ Active' = 0
      BY <1>1, <2>1, <2>3, <2>4 DEF Active
    <3>4. Written' = Written
      BY <1>1, <1>4 DEF Written
    <3>5. /\ whole /\ Written \in Nat
          /\ \A i \in DOMAIN fifo : fifo[i] = Written + Len(chunk) + i
          /\ \A i \in DOMAIN chunk : chunk[i] = Written + i
          /\ Newest(slots[0 + 1]) = Written
          /\ \A v \in 1..(MaxBackups - 1) : Newest(slots[v + 1]) = Pos(Edge - Size(v - 1))
          /\ Holds(P, Pos(Edge - Size(MaxBackups - 1)), produced)
      BY <1>4, <2>12, <3>2, <3>3, Bounds DEF Complete, P
    <3>6. Edge = Written - MaxSize /\ Edge' = Written
      BY <3>3, <3>4, <3>5 DEF Edge
    <3>7. \A v \in Int : Edge' - Size(v) = Edge - Size(v - 1)
      <4>1. ASSUME NEW v \in Int PROVE Edge' - Size(v) = Edge - Size(v - 1)
        <5>1. v - 1 \in Int /\ v - 1 + 1 = v
          OBVIOUS
        <5>2. Size(v - 1 + 1) = Size(v - 1) + MaxSize /\ Size(v - 1) \in Int
          BY <5>1, Sizes
        <5>3. Size(v) = Size(v - 1) + MaxSize
          BY <5>1, <5>2
        <5> QED BY <3>5, <3>6, <5>2, <5>3, Bounds
      <4> QED BY <4>1
    <3>8. ASSUME NEW v \in 1..MaxBackups PROVE Newest(slots'[v]) = Pos(Edge' - Size(v - 1))
      <4>1. v \in Int /\ v \in Slots /\ v # 0
        BY Bounds DEF Slots, Stale
      <4>2. slots'[v] = slots[v]
        BY <2>4, <4>1
      <4>3. CASE v = 1
        <5>1. 1 - 1 = 0 /\ 0 + 1 = 1
          OBVIOUS
        <5>2. Pos(Edge' - Size(0)) = Written
          BY <3>5, <3>6, Sizes DEF Pos
        <5> QED BY <3>5, <4>2, <4>3, <5>1, <5>2
      <4>4. CASE v # 1
        <5> DEFINE u == v - 1
        <5>1. u \in 1..(MaxBackups - 1) /\ u + 1 = v /\ u \in Int
          BY <4>1, <4>4, Bounds
        <5> HIDE DEF u
        <5>2. Newest(slots[u + 1]) = Pos(Edge - Size(u - 1))
          BY <3>5, <5>1
        <5>3. Edge' - Size(u) = Edge - Size(u - 1)
          BY <3>7, <5>1
        <5> QED BY <4>2, <5>1, <5>2, <5>3 DEF u
      <4> QED BY <4>3, <4>4
    <3>9. Holds(Q, Pos(Edge' - Size(MaxBackups)), produced)
      <4>1. Edge' - Size(MaxBackups) = Edge - Size(MaxBackups - 1)
        BY <3>7, Bounds
      <4> QED BY <2>9, <3>5, <4>1
    <3>10. ~(Active' > 0)
      BY <3>3
    <3>11. whole' /\ produced' = produced /\ fifo' = fifo /\ chunk' = chunk
      BY <1>1, <1>4, <2>12
    <3> QED BY <3>2, <3>4, <3>5, <3>8, <3>9, <3>10, <3>11 DEF Complete, Q, Size, Pos
  <2>13. ~whole' => Complete'
    BY DEF Complete
  <2> QED BY <2>5, <2>6, <2>7, <2>8, <2>11, <2>12, <2>13 DEF LogInv
<1> QED BY <1>1, <1>3, <1>4 DEF Reopen

LEMMA NextLog ==
  ASSUME LogInv, [Next]_vars
  PROVE  LogInv'
<1>1. LogTypes /\ Copying /\ Rotating /\ Sized /\ Ordered /\ Complete
  BY DEF LogInv
<1>2. CASE /\ UNCHANGED <<slots, fifo, output, copier, chunk, produced, whole>>
           /\ writers' \subseteq writers \/ main \notin {"off", "sink"}
           /\ main' = "off" => main = "off"
           /\ main' \notin {"off", "sink"} => main \notin {"off", "sink"} \/ copier[1] = "read"
  BY <1>2, QuietKeeps
<1>3. CASE /\ main' = "sink" /\ main = "off" /\ BeginSink
           /\ UNCHANGED <<slots, fifo, writers, output, chunk, produced, whole>>
  BY <1>1, <1>3, BeginKeeps
<1>4. CASE main' = "off" /\ SinkGone
  BY <1>1, <1>4, GoneKeeps
<1>5. CASE main' = main /\ (OpenFile \/ OpenPipe \/ Produce)
  BY <1>1, <1>5, OpenFileKeeps, OpenPipeKeeps, ProduceKeeps
<1>6. CASE main' = main /\ CopyStep
  BY <1>1, <1>6, ReadKeeps, WriteKeeps, BeginRotationKeeps, RotateKeeps, ReopenKeeps, CopyEndsKeeps
     DEF CopyStep
<1> QED BY <1>2, <1>3, <1>4, <1>5, <1>6, LogNext

\* What an earlier version left is none of what this guest prints.
LEMMA InitLog ==
  ASSUME Init
  PROVE  LogInv
<1> DEFINE P == Laid(fifo, chunk, slots)
<1>1. /\ main = "off" /\ LogInit(scenario.leftovers) /\ scenario.leftovers \subseteq Nat
  BY ScenariosAssumption DEF Init
<1>2. /\ fifo = <<>> /\ writers = {} /\ output = "none" /\ chunk = <<>>
      /\ produced = 0 /\ whole = TRUE /\ copier[1] = "none" /\ copier[2] = 0
  BY <1>1 DEF LogInit, At
<1>3. \A n \in Nat : [i \in 1..n |-> 0] \in Seq(Nat)
  <2> SUFFICES ASSUME NEW n \in Nat PROVE [i \in 1..n |-> 0] \in Seq(Nat)
    OBVIOUS
  <2>1. [i \in 1..n |-> 0] \in [1..n -> Nat]
    OBVIOUS
  <2> QED BY <2>1
<1>4. /\ slots \in Files
      /\ \A i \in Slots : slots[i] # None => \A j \in DOMAIN slots[i] : slots[i][j] = 0
  <2>1. slots \in [Slots -> {None} \cup {[i \in 1..n |-> 0] : n \in scenario.leftovers}]
    BY <1>1 DEF LogInit
  <2>2. \A i \in Slots : slots[i] = None \/ \E n \in Nat : slots[i] = [j \in 1..n |-> 0]
    BY <1>1, <2>1
  <2>3. \A i \in Slots : slots[i] = None \/ slots[i] \in Seq(Nat)
    BY <1>3, <2>2
  <2>4. slots \in Files
    BY <2>1, <2>3 DEF Files
  <2> QED BY <2>2, <2>4
<1>5. fifo \in Seq(Nat) /\ chunk \in Seq(Nat)
  BY <1>2, EmptySeq
<1>6. /\ P \in Layouts /\ P[0] = fifo /\ P[1] = chunk
      /\ \A i \in Slots : i + 2 \in Pieces /\ P[i + 2] = IF slots[i] = None THEN <<>> ELSE slots[i]
      /\ \A k \in Pieces \ {0, 1} : k - 2 \in Slots
  BY <1>4, <1>5, LaidIs
<1> HIDE DEF P
<1>7. \A k \in Pieces : \A i \in DOMAIN P[k] : P[k][i] = 0
  <2> SUFFICES ASSUME NEW k \in Pieces, NEW i \in DOMAIN P[k] PROVE P[k][i] = 0
    OBVIOUS
  <2>1. DOMAIN P[k] = 1..Len(P[k]) /\ Len(P[k]) \in Nat
    BY <1>6, PieceOf
  <2>2. P[k] # <<>>
    BY <2>1, EmptySeq
  <2>3. k \notin {0, 1}
    BY <1>2, <1>6, <2>2
  <2>4. k - 2 \in Slots /\ k - 2 + 2 = k
    BY <1>6, <2>3, Bounds DEF Pieces, Stale
  <2>5. slots[k - 2] # None /\ P[k] = slots[k - 2]
    BY <1>6, <2>2, <2>4
  <2> QED BY <1>4, <2>4, <2>5
<1>8. Sorted(P, 0)
  BY <1>7 DEF Sorted, Before
<1>9. \A i \in Slots : Newest(slots[i]) = 0
  <2> SUFFICES ASSUME NEW i \in Slots, slots[i] # None, slots[i] # <<>>
               PROVE  slots[i][Len(slots[i])] = 0
    BY DEF Newest
  <2>1. i + 2 \in Pieces /\ P[i + 2] = slots[i]
    BY <1>6
  <2>2. Len(slots[i]) \in DOMAIN slots[i]
    BY <1>6, <1>8, <2>1, NewestIs
  <2> QED BY <1>4, <2>2
<1>10. LogTypes
  BY <1>2, <1>4, <1>5 DEF LogTypes
<1>11. Copying
  BY <1>1, <1>2 DEF Copying, Unready, Busy
<1>12. Rotating
  BY <1>2 DEF Rotating
<1>13. Sized
  BY <1>2 DEF Sized, Seen, Unready
<1>14. Ordered
  BY <1>2, <1>8, <1>9, Bounds DEF Ordered, P, Slots, Stale
<1>15. Complete
  <2>1. Len(fifo) = 0 /\ Len(chunk) = 0 /\ DOMAIN fifo = {} /\ DOMAIN chunk = {}
    BY <1>2, EmptySeq
  <2>2. Written = 0
    <3>1. produced = 0
      BY <1>2
    <3> QED BY <2>1, <3>1 DEF Written
  <2>3. \A v : Home(v) = v
    BY <1>2 DEF Home, Moved
  <2>4. Oldest = MaxBackups
    BY <1>2 DEF Oldest, Moved
  <2>5. Edge \in Int /\ Edge <= 0
    BY <1>10, <2>2, LogNumbers DEF Edge
  <2>6. \A v \in Nat : Pos(Edge - Size(v)) = 0
    <3> SUFFICES ASSUME NEW v \in Nat PROVE ~(Edge - Size(v) > 0)
      BY DEF Pos
    <3>1. Size(v) \in Nat
      BY Sizes
    <3> QED BY <2>5, <3>1
  <2>7. 0 \in Slots /\ MaxBackups \in Nat /\ \A v \in 1..MaxBackups : v \in Slots /\ v - 1 \in Nat
    BY Bounds DEF Slots, Stale
  <2>8. Holds(P, 0, 0)
    BY <1>7 DEF Holds
  <2>9. /\ Written \in Nat /\ Newest(slots[Home(0)]) = Written
        /\ \A v \in 1..Oldest : Newest(slots[Home(v)]) = Pos(Edge - Size(v - 1))
    BY <1>9, <2>2, <2>3, <2>4, <2>6, <2>7
  <2>10. Holds(Laid(fifo, chunk, slots), Pos(Edge - Size(Oldest)), produced)
    BY <1>2, <2>4, <2>6, <2>7, <2>8 DEF P
  <2> QED BY <2>1, <2>9, <2>10 DEF Complete
<1> QED BY <1>10, <1>11, <1>12, <1>13, <1>14, <1>15 DEF LogInv

\* What is lost of a log that is whole is before all it is meant to hold.
LEMMA LostIsOld ==
  ASSUME LogTypes, Copying, Rotating, Sized, Ordered, Complete, whole
  PROVE  \E lost \in 0..produced :
           /\ Bytes \ {0} = (lost + 1)..produced
           /\ produced - lost >= Smaller(produced, MaxBackups * MaxSize)
<1> DEFINE P == Laid(fifo, chunk, slots)
           lost == Pos(Edge - Size(Oldest))
<1>1. /\ Len(fifo) \in Nat /\ Len(chunk) \in Nat /\ Active \in Nat /\ Edge \in Int
      /\ Oldest \in Nat /\ produced \in Nat /\ lost \in Nat
  BY LogNumbers DEF LogTypes
<1>2. Size(Oldest) \in Nat /\ Size(MaxBackups) \in Nat /\ MaxBackups * MaxSize = Size(MaxBackups)
  BY <1>1, Bounds, Sizes DEF Size
<1>3. Written \in Nat /\ Holds(P, lost, produced)
  BY DEF Complete
<1>4. Written <= produced /\ Edge = Written - Active
  BY <1>1, <1>3 DEF Written, Edge
<1>5. lost \in 0..produced
  <2>1. Edge - Size(Oldest) <= produced
    BY <1>1, <1>2, <1>3, <1>4
  <2>2. lost <= produced
    BY <1>1, <2>1 DEF Pos
  <2> QED BY <1>1, <2>2
<1>6. Active + Size(Oldest) >= Size(MaxBackups)
  <2>1. CASE Moved(MaxBackups)
    <3>1. Busy
      BY <2>1 DEF Moved, Busy
    <3>2. Active = MaxSize
      <4>1. CASE copier[1] = "reopen"
        BY <4>1 DEF Active
      <4>2. CASE copier[1] = "rotate"
        <5>1. output = "open" /\ slots[0] # None /\ Len(slots[0]) = MaxSize
          BY <3>1, <4>2 DEF Copying, Rotating
        <5> QED BY <4>2, <5>1 DEF Active
      <4> QED BY <2>1, <4>1, <4>2 DEF Moved
    <3>3. Oldest = MaxBackups - 1 /\ MaxBackups - 1 \in Int /\ MaxBackups - 1 + 1 = MaxBackups
      BY <2>1, Bounds DEF Oldest
    <3>4. Size(MaxBackups) = Size(Oldest) + MaxSize
      BY <3>3, Sizes
    <3> QED BY <1>2, <3>2, <3>4, Bounds
  <2>2. CASE ~Moved(MaxBackups)
    BY <1>1, <1>2, <2>2 DEF Oldest
  <2> QED BY <2>1, <2>2
<1>7. produced - lost >= Smaller(produced, MaxBackups * MaxSize)
  <2>1. CASE Edge - Size(Oldest) > 0
    <3>1. lost = Edge - Size(Oldest)
      BY <2>1 DEF Pos
    <3>2. produced - lost >= Size(MaxBackups)
      BY <1>1, <1>2, <1>3, <1>4, <1>6, <3>1
    <3> QED BY <1>1, <1>2, <3>2 DEF Smaller
  <2>2. CASE ~(Edge - Size(Oldest) > 0)
    <3>1. lost = 0
      BY <2>2 DEF Pos
    <3> QED BY <1>1, <1>2, <3>1 DEF Smaller
  <2> QED BY <2>1, <2>2
<1>8. P \in Layouts /\ Sorted(P, produced)
  BY LaidIs DEF LogTypes, Ordered
<1>9. \A k \in Pieces : Piece(k) = P[k]
  BY DEF Piece, Laid
<1> HIDE DEF P, lost
<1>10. \A k \in Pieces : \A i \in DOMAIN P[k] : P[k][i] \in Nat /\ P[k][i] <= produced
  BY <1>8, PieceOf DEF Sorted
<1>11. Bytes = UNION {Range(P[k]) : k \in Pieces}
  BY <1>9 DEF Bytes
<1>12. \A b : b \in Bytes <=> \E k \in Pieces : \E i \in DOMAIN P[k] : P[k][i] = b
  BY <1>11 DEF Range
<1>13. ASSUME NEW b \in Bytes \ {0} PROVE b \in (lost + 1)..produced
  <2>1. PICK k \in Pieces : \E i \in DOMAIN P[k] : P[k][i] = b
    BY <1>12
  <2>2. PICK i \in DOMAIN P[k] : P[k][i] = b
    BY <2>1
  <2>3. b \in Nat /\ b <= produced /\ (b = 0 \/ b > lost)
    BY <1>3, <1>10, <2>2 DEF Holds
  <2> QED BY <1>5, <1>13, <2>3
<1>14. ASSUME NEW b \in (lost + 1)..produced PROVE b \in Bytes \ {0}
  <2>1. \E k \in Pieces : \E i \in DOMAIN P[k] : P[k][i] = b
    BY <1>3 DEF Holds
  <2>2. b # 0
    BY <1>5
  <2> QED BY <1>12, <2>1, <2>2
<1>15. Bytes \ {0} = (lost + 1)..produced
  BY <1>13, <1>14
<1> QED BY <1>5, <1>7, <1>15

\* The log holds what the guest printed in the order it was printed, nothing twice, within
\* its bounds, and the newest of it as long as nothing failed: for files and buffers of any
\* size and any number of backups, in the middle of a rotation as after a crash
\* (internal/supervisor/serial_log.go, rotatingSerialLog).
THEOREM LogKeepsNewestAlways == Spec => []LogKeepsNewest
<1>1. Init => LogInv
  BY InitLog
<1>2. LogInv /\ [Next]_vars => LogInv'
  BY NextLog
<1>3. ASSUME LogInv PROVE LogKeepsNewest
  <2> DEFINE P == Laid(fifo, chunk, slots)
  <2>1. LogTypes /\ Copying /\ Rotating /\ Sized /\ Ordered /\ Complete
    BY <1>3 DEF LogInv
  <2>2. P \in Layouts /\ Sorted(P, produced)
    BY <2>1, LaidIs DEF LogTypes, Ordered
  <2>3. \A k \in Pieces : Piece(k) = P[k]
    BY DEF Piece, Laid
  <2> HIDE DEF P
  <2>4. \A k \in Pieces : \A i, j \in DOMAIN Piece(k) : i < j => Before(Piece(k)[i], Piece(k)[j])
    <3> SUFFICES ASSUME NEW k \in Pieces, NEW i \in DOMAIN P[k], NEW j \in DOMAIN P[k], i < j
                 PROVE  Before(P[k][i], P[k][j])
      BY <2>3
    <3> QED BY <2>2 DEF Sorted
  <2>5. \A k, l \in Pieces :
          l < k => \A a \in Range(Piece(k)), b \in Range(Piece(l)) : Before(a, b)
    <3> SUFFICES ASSUME NEW k \in Pieces, NEW l \in Pieces, l < k,
                        NEW a \in Range(P[k]), NEW b \in Range(P[l])
                 PROVE  Before(a, b)
      BY <2>3
    <3>1. PICK i \in DOMAIN P[k] : P[k][i] = a
      BY DEF Range
    <3>2. PICK j \in DOMAIN P[l] : P[l][j] = b
      BY DEF Range
    <3> QED BY <2>2, <3>1, <3>2 DEF Sorted
  <2>6. output # "none" => \A i \in Slots : slots[i] # None => Len(slots[i]) <= MaxSize
    BY <2>1 DEF Copying, Sized, Seen, Unready, Busy
  <2>7. whole => \E lost \in 0..produced :
                   /\ Bytes \ {0} = (lost + 1)..produced
                   /\ produced - lost >= Smaller(produced, MaxBackups * MaxSize)
    BY <2>1, LostIsOld
  <2> QED BY <2>4, <2>5, <2>6, <2>7 DEF LogKeepsNewest
<1> QED BY <1>1, <1>2, <1>3, PTL DEF Spec

-----------------------------------------------------------------------------
(* The monitoring. *)

\* What a step may do to the monitoring, and when.
LEMMA MonitoringNext ==
  ASSUME [Next]_vars
  PROVE  \/ monVars' = monVars /\ (main' \in Early => main \in Early)
         \/ main = "monitor" /\ main' = "seed" /\ \E fallback \in RunStates : Seed(fallback)
         \/ main' = "check" /\ Serve
         \/ main' \in {"join", "undo-join"} /\ StopServing
         \/ Unmonitored
         \/ main' = main /\ (CollectorStep \/ Tick \/ BeginPing \/ PingStep)
<1>1. CASE Starting
  BY <1>1 DEF Starting, Begin, SinkReady, StartQEMU, StartMonitoring, Monitored, Ready, StartFails,
              Early
<1>2. CASE Ending
  <2>1. CASE FinishLog \/ MonitoringUndone \/ ForceQEMU \/ AbortLog
    BY <2>1 DEF FinishLog, MonitoringUndone, ForceQEMU, AbortLog, Early
  <2>2. CASE LogFinished \/ UndoMonitoring
    BY <2>2 DEF LogFinished, UndoMonitoring
  <2>3. CASE End
    BY <2>3 DEF End, Gone
  <2> QED BY <1>2, <2>1, <2>2, <2>3 DEF Ending
<1>3. CASE QEMUEnds \/ Crash \/ LogSteps \/ MonitoringSteps
  BY <1>3 DEF QEMUEnds, Crash, Gone, LogSteps, MonitoringSteps
<1>4. CASE UNCHANGED vars
  BY <1>4 DEF vars
<1> QED BY <1>1, <1>2, <1>3, <1>4 DEF Next

\* What a refresh stores is a snapshot, and what it keeps of QEMU.
LEMMA ChangedKeeps ==
  ASSUME NEW s \in Snapshots, NEW w \in Works, NEW task
  PROVE  /\ Changed(task, s, w) \in Snapshots
         /\ task # "qmp" => /\ Changed(task, s, w).state = s.state
                            /\ Changed(task, s, w).of["qmp"] = s.of["qmp"]
         /\ task = "qmp" /\ w.ok => /\ Changed(task, s, w).state = w.state
                                    /\ Changed(task, s, w).of["qmp"] = Entry("ok", w.at)
         /\ task = "qmp" /\ ~w.ok => Changed(task, s, w).of["qmp"].status = "failed"
<1>1. CASE task = "qmp"
  <2>1. FromResult(w.ok, w.at) \in [status : {"pending", "ok", "failed"}, success : Int]
    BY DEF FromResult, Entry, Works, Never
  <2>2. Changed(task, s, w) = [s EXCEPT !.state = IF w.ok THEN w.state ELSE @,
                                        !.of["qmp"] = FromResult(w.ok, w.at)]
    BY <1>1 DEF Changed, QMPChange
  <2>3. FromResult(w.ok, w.at) = IF w.ok THEN Entry("ok", w.at) ELSE Entry("failed", Never)
    BY DEF FromResult
  <2>4. Entry("failed", Never).status = "failed"
    BY DEF Entry
  <2> DEFINE r == Changed(task, s, w)
  <2>5. /\ r = [state |-> r.state, ping |-> s.ping, of |-> r.of]
        /\ r.state = IF w.ok THEN w.state ELSE s.state
        /\ r.of = [s.of EXCEPT !["qmp"] = FromResult(w.ok, w.at)]
    BY <2>2 DEF Snapshots
  <2> HIDE DEF r
  <2>6. s.of \in [Keys -> [status : {"pending", "ok", "failed"}, success : Int]]
    BY DEF Snapshots
  <2>7. r.of["qmp"] = FromResult(w.ok, w.at)
    BY <2>5, <2>6 DEF Keys
  <2>8. r \in Snapshots
    BY <2>1, <2>5, <2>6 DEF Snapshots, Works
  <2> QED BY <1>1, <2>3, <2>4, <2>5, <2>7, <2>8 DEF r, Works
<1>2. CASE task = "process"
  <2> DEFINE new == Entry(IF w.ok THEN "ok" ELSE "failed", w.at)
  <2>1. Preserved(s.of["process"], new) \in [status : {"pending", "ok", "failed"}, success : Int]
    BY DEF Preserved, Entry, Snapshots, Works, Keys
  <2>2. Changed(task, s, w) = [s EXCEPT !.of["process"] = Preserved(@, new)]
    BY <1>2 DEF Changed, ProcessChange
  <2> HIDE DEF new
  <2> QED BY <1>2, <2>1, <2>2 DEF Snapshots, Keys
<1>3. CASE task = "ping"
  <2>1. Changed(task, s, w) = [s EXCEPT !.ping = IF w.ok THEN "ok" ELSE "failed"]
    BY <1>3 DEF Changed, PingChange
  <2> QED BY <1>3, <2>1 DEF Snapshots
<1>4. CASE task \notin {"qmp", "process", "ping"}
  BY <1>4 DEF Changed
<1> QED BY <1>1, <1>2, <1>3, <1>4

\* The monitoring before a run, and after it.
LEMMA MonitoringOff ==
  ASSUME Unmonitored
  PROVE  MonInv'
<1>1. NoSnapshot \in Snapshots /\ NoSnapshot.of["qmp"].status = "pending"
  BY DEF NoSnapshot, Snapshots, States, Keys, Entry, Never
<1>2. NoWork \in Works /\ NoWork.ok = FALSE
  BY DEF NoWork, Works, States, Never
<1>3. MonTypes'
  BY <1>1, <1>2 DEF Unmonitored, MonTypes
<1>4. Updating'
  BY DEF Unmonitored, Updating
<1>5. Current'
  BY <1>1, <1>2 DEF Unmonitored, Current
<1> QED BY <1>3, <1>4, <1>5 DEF MonInv

\* A step of the collector.
LEMMA CollectorKeeps ==
  ASSUME MonTypes, Updating, Current, CollectorStep, main' = main
  PROVE  MonInv'
<1>1. CASE Observe
  <2>1. \E w \in Works : w.at = now /\ work' = [work EXCEPT !["collector"] = w]
    <3>1. /\ \A state \in RunStates : [ok |-> TRUE, state |-> state, at |-> now] \in Works
          /\ \A ok \in BOOLEAN : [ok |-> ok, state |-> "none", at |-> now] \in Works
      <4>1. now \in Int
        BY DEF MonTypes
      <4> QED BY <4>1 DEF Works, States
    <3> QED BY <1>1, <3>1 DEF Observe, Observed
  <2>2. /\ collector[2] = "observe" /\ collector' = <<collector[1], "update">>
        /\ UNCHANGED <<now, due, cache, ping, copy, mu, server, cancelled, newest>>
    BY <1>1 DEF Observe, MonInv, MonTypes
  <2>3. MonTypes'
    BY <2>1, <2>2 DEF MonTypes
  <2>4. Updating'
    BY <2>2 DEF Updating
  <2>5. Current'
    BY <2>1, <2>2 DEF MonTypes, Current
  <2> QED BY <2>3, <2>4, <2>5 DEF MonInv
<1>2. CASE BeginUpdate
  <2>1. /\ collector[2] = "update" /\ mu = "free" /\ mu' = "collector"
        /\ copy' = [copy EXCEPT !["collector"] = cache]
        /\ collector' = <<collector[1], "store">>
        /\ UNCHANGED <<now, due, cache, ping, work, server, cancelled, newest>>
    BY <1>2 DEF BeginUpdate, Lock
  <2>2. MonTypes'
    BY <2>1 DEF MonTypes
  <2>3. Updating'
    BY <2>1 DEF MonTypes, Updating
  <2>4. Current'
    BY <2>1 DEF Current
  <2> QED BY <2>2, <2>3, <2>4 DEF MonInv
<1>3. CASE Store
  <2> DEFINE task == collector[1]
             w    == work["collector"]
  <2>1. /\ collector[2] = "store" /\ cache' = Changed(task, copy["collector"], w)
        /\ newest' = IF task = "qmp" THEN w ELSE newest
        /\ copy' = [copy EXCEPT !["collector"] = NoSnapshot]
        /\ work' = [work EXCEPT !["collector"] = NoWork]
        /\ mu' = "free" /\ UNCHANGED <<now, due, ping, server, cancelled>>
        /\ collector' \in {<<"process", "observe">>, <<"seeded", "idle">>, <<"select", "idle">>}
    BY <1>3 DEF Store, AfterStore
  <2>2. copy["collector"] = cache /\ cache \in Snapshots /\ w \in Works /\ w.at \in Nat
    BY <2>1 DEF MonTypes, Updating, Current
  <2>3. NoSnapshot \in Snapshots /\ NoWork \in Works
    BY DEF NoSnapshot, NoWork, Snapshots, Works, States, Keys, Entry, Never
  <2> HIDE DEF task, w
  <2>4. /\ cache' \in Snapshots
        /\ task # "qmp" => cache'.state = cache.state /\ cache'.of["qmp"] = cache.of["qmp"]
        /\ task = "qmp" /\ w.ok => cache'.state = w.state /\ cache'.of["qmp"] = Entry("ok", w.at)
        /\ task = "qmp" /\ ~w.ok => cache'.of["qmp"].status = "failed"
    BY <2>1, <2>2, ChangedKeeps
  <2>5. MonTypes'
    BY <2>1, <2>2, <2>3, <2>4 DEF MonTypes
  <2>6. Updating'
    BY <2>1 DEF MonTypes, Updating
  <2>7. Entry("ok", w.at).success = w.at
    BY DEF Entry
  <2>8. Current'
    BY <2>1, <2>2, <2>4, <2>7 DEF Current
  <2> QED BY <2>5, <2>6, <2>8 DEF MonInv
<1>4. CASE Select
  <2>1. /\ collector[1] = "select" /\ due' \subseteq due
        /\ \/ collector' = <<"ended", "idle">>
           \/ \E task \in {"qmp", "guest"} : collector' = <<task, "observe">>
        /\ UNCHANGED <<now, cache, ping, work, copy, mu, server, cancelled, newest>>
    BY <1>4 DEF Select, MonInv, MonTypes
  <2>2. MonTypes'
    BY <2>1 DEF MonTypes
  <2>3. Updating'
    BY <2>1 DEF MonTypes, Updating
  <2>4. Current'
    BY <2>1 DEF Current
  <2> QED BY <2>2, <2>3, <2>4 DEF MonInv
<1> QED BY <1>1, <1>2, <1>3, <1>4 DEF CollectorStep

\* A step of a ping.
LEMMA PingKeeps ==
  ASSUME MonTypes, Updating, Current, BeginPing \/ PingStep, main' = main
  PROVE  MonInv'
<1>1. CASE BeginPing
  <2>1. /\ server = "serving" /\ ping[1] = "none" /\ ping' = <<"ping", "observe">>
        /\ UNCHANGED <<now, due, cache, collector, work, copy, mu, server, cancelled, newest>>
    BY <1>1 DEF BeginPing
  <2>2. MonTypes' /\ Current'
    BY <2>1 DEF MonTypes, Current
  <2>3. Updating'
    BY <2>1 DEF MonTypes, Updating
  <2> QED BY <2>2, <2>3 DEF MonInv
<1>2. CASE ObservePing
  <2>1. \E w \in Works : work' = [work EXCEPT !["ping"] = w]
    <3>1. \A ok \in BOOLEAN : [NoWork EXCEPT !.ok = ok, !.at = now] \in Works
      <4>1. now \in Int
        BY DEF MonTypes
      <4> QED BY <4>1 DEF NoWork, Works, States
    <3> QED BY <1>2, <3>1 DEF ObservePing
  <2>2. /\ ping[2] = "observe" /\ ping' = <<"ping", "update">>
        /\ UNCHANGED <<now, due, cache, collector, copy, mu, server, cancelled, newest>>
    BY <1>2 DEF ObservePing
  <2>3. MonTypes'
    BY <2>1, <2>2 DEF MonTypes
  <2>4. Updating'
    BY <2>2 DEF Updating
  <2>5. Current'
    BY <2>1, <2>2 DEF MonTypes, Current
  <2> QED BY <2>3, <2>4, <2>5 DEF MonInv
<1>3. CASE BeginPingUpdate
  <2>1. /\ ping[2] = "update" /\ mu = "free" /\ mu' = "ping"
        /\ copy' = [copy EXCEPT !["ping"] = cache] /\ ping' = <<"ping", "store">>
        /\ UNCHANGED <<now, due, cache, collector, work, server, cancelled, newest>>
    BY <1>3 DEF BeginPingUpdate, Lock
  <2>2. MonTypes' /\ Current'
    BY <2>1 DEF MonTypes, Current
  <2>3. Updating'
    BY <2>1 DEF MonTypes, Updating
  <2> QED BY <2>2, <2>3 DEF MonInv
<1>4. CASE StorePing
  <2>1. /\ ping[2] = "store" /\ cache' = Changed("ping", copy["ping"], work["ping"])
        /\ copy' = [copy EXCEPT !["ping"] = NoSnapshot]
        /\ work' = [work EXCEPT !["ping"] = NoWork]
        /\ mu' = "free" /\ ping' = <<"none", "idle">>
        /\ UNCHANGED <<now, due, collector, server, cancelled, newest>>
    BY <1>4 DEF StorePing
  <2>2. copy["ping"] = cache /\ cache \in Snapshots /\ work["ping"] \in Works
    BY <2>1 DEF MonTypes, Updating
  <2>3. NoSnapshot \in Snapshots /\ NoWork \in Works
    BY DEF NoSnapshot, NoWork, Snapshots, Works, States, Keys, Entry, Never
  <2>4. /\ cache' \in Snapshots
        /\ cache'.state = cache.state /\ cache'.of["qmp"] = cache.of["qmp"]
    BY <2>1, <2>2, ChangedKeeps
  <2>5. MonTypes'
    BY <2>1, <2>3, <2>4 DEF MonTypes
  <2>6. Updating'
    BY <2>1 DEF Updating
  <2>7. Current'
    BY <2>1, <2>4 DEF MonTypes, Current
  <2> QED BY <2>5, <2>6, <2>7 DEF MonInv
<1> QED BY <1>1, <1>2, <1>3, <1>4 DEF PingStep

LEMMA NextMonitoring ==
  ASSUME MonInv, [Next]_vars
  PROVE  MonInv'
<1>1. CASE monVars' = monVars /\ (main' \in Early => main \in Early)
  BY <1>1 DEF monVars, MonInv, MonTypes, Updating, Current
<1>2. ASSUME main = "monitor", main' = "seed", NEW fallback \in RunStates, Seed(fallback)
      PROVE  MonInv'
  <2>1. /\ cache' = [NoSnapshot EXCEPT !.state = fallback]
        /\ collector' = <<"qmp", "observe">> /\ server' = "seeding"
        /\ UNCHANGED <<now, due, ping, work, copy, mu, cancelled, newest>>
    BY <1>2 DEF Seed
  <2>2. cache' \in Snapshots /\ cache'.of["qmp"].status = "pending"
    BY <2>1 DEF NoSnapshot, Snapshots, States, Keys, Entry, Never
  <2>3. collector = <<"none", "idle">> /\ ping = <<"none", "idle">>
    BY <1>2 DEF MonInv, Updating, Early
  <2>4. MonTypes' /\ Current'
    BY <2>1, <2>2 DEF MonInv, MonTypes, Current
  <2>5. Updating'
    BY <1>2, <2>1, <2>3 DEF MonInv, Updating, Early
  <2> QED BY <2>4, <2>5 DEF MonInv
<1>3. CASE main' = "check" /\ Serve
  <2>1. /\ collector[1] = "seeded" /\ collector' = <<"guest", "observe">> /\ server' = "serving"
        /\ UNCHANGED <<now, due, cache, ping, work, copy, mu, cancelled, newest>>
    BY <1>3 DEF Serve
  <2>2. MonTypes' /\ Current'
    BY <2>1 DEF MonInv, MonTypes, Current
  <2>3. Updating'
    BY <1>3, <2>1 DEF MonInv, MonTypes, Updating, Early
  <2> QED BY <2>2, <2>3 DEF MonInv
<1>4. CASE main' \in {"join", "undo-join"} /\ StopServing
  BY <1>4 DEF StopServing, MonInv, MonTypes, Updating, Current, Early
<1>5. CASE main' = main /\ Tick
  <2>1. /\ now' = now + 1 /\ due' = {"qmp", "guest"} /\ main' = main
        /\ UNCHANGED <<cache, collector, ping, work, copy, mu, server, cancelled, newest>>
    BY <1>5 DEF Tick
  <2>2. MonTypes'
    BY <2>1 DEF MonInv, MonTypes
  <2> QED BY <2>1, <2>2 DEF MonInv, Updating, Current
<1> QED BY <1>1, <1>2, <1>3, <1>4, <1>5, MonitoringNext, MonitoringOff, CollectorKeeps,
          PingKeeps DEF MonInv

LEMMA InitMonitoring ==
  ASSUME Init
  PROVE  MonInv
<1>1. NoSnapshot \in Snapshots /\ NoSnapshot.of["qmp"].status = "pending"
  BY DEF NoSnapshot, Snapshots, States, Keys, Entry, Never
<1>2. NoWork \in Works /\ NoWork.ok = FALSE
  BY DEF NoWork, Works, States, Never
<1>3. MonTypes
  BY <1>1, <1>2 DEF Init, MonInit, MonTypes
<1>4. Updating
  BY DEF Init, MonInit, Updating
<1>5. Current
  BY <1>1, <1>2 DEF Init, MonInit, Current
<1> QED BY <1>3, <1>4, <1>5 DEF MonInv

\* A /health that answers "healthy" is about an observation that is the newest, found QEMU
\* running and is no older than qmpStaleAfter, whatever the collector and the pings do
\* meanwhile (internal/monitoring, healthPolicy and Service.update).
THEOREM HealthIsCurrentAlways == Spec => []HealthIsCurrent
<1>1. Init => MonInv
  BY InitMonitoring
<1>2. MonInv /\ [Next]_vars => MonInv'
  BY NextMonitoring
<1>3. MonInv => HealthIsCurrent
  <2> SUFFICES ASSUME MonInv, server = "serving", Health = "healthy"
               PROVE  newest.ok /\ newest.state = "running" /\ now - newest.at <= QMPStaleAfter
    BY DEF HealthIsCurrent
  <2>1. StatusOf("qmp") = "ok" /\ cache.state = "running"
    BY DEF Health
  <2>2. /\ cache.of["qmp"].status = "ok"
        /\ cache.of["qmp"].success = Never \/ ~(now - cache.of["qmp"].success > QMPStaleAfter)
    BY <2>1 DEF StatusOf
  <2>3. newest.ok /\ newest.state = "running" /\ newest.at \in Nat
    BY <2>1, <2>2 DEF MonInv, Current
  <2>4. ~(now - newest.at > QMPStaleAfter)
    BY <2>2, <2>3 DEF MonInv, Current, Never
  <2> QED BY <2>3, <2>4, MonitoringAssumption DEF MonInv, MonTypes
<1> QED BY <1>1, <1>2, <1>3, PTL DEF Spec

===============================================================================
