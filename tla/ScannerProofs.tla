---------------------------- MODULE ScannerProofs ----------------------------
(* Proofs about UsageScanner.tla, for any streams, any reports in them and    *)
(* any bound on the buffer.                                                   *)
EXTENDS UsageScanner, IntervalLemmas, FiniteSetTheorems, TLAPS

-----------------------------------------------------------------------------
(* Pieces of sequences.                                                       *)

(* A piece of a sequence has the symbols of the sequence.                     *)
LEMMA PieceType ==
    ASSUME NEW S, NEW s \in Seq(S), NEW m \in 1..(Len(s) + 1), NEW n \in 0..Len(s)
    PROVE  SubSeq(s, m, n) \in Seq(S)
OBVIOUS

(* Nothing, and two pieces put together.                                      *)
LEMMA JoinedType ==
    ASSUME NEW S PROVE <<>> \in Seq(S) /\ \A s, t \in Seq(S) : s \o t \in Seq(S)
OBVIOUS

(* The piece behind the first a symbols, up to the b-th.                      *)
LEMMA PieceIs ==
    ASSUME NEW S, NEW s \in Seq(S), NEW a \in 0..Len(s), NEW b \in a..Len(s)
    PROVE  /\ SubSeq(s, a + 1, b) \in Seq(S) /\ Len(SubSeq(s, a + 1, b)) = b - a
           /\ \A i \in 1..(b - a) : SubSeq(s, a + 1, b)[i] = s[a + i]
OBVIOUS

(* Two sequences with the same symbols are the same.                          *)
LEMMA SameSequence ==
    ASSUME NEW S, NEW s \in Seq(S), NEW t \in Seq(S), Len(s) = Len(t),
           \A i \in 1..Len(s) : s[i] = t[i]
    PROVE  s = t
OBVIOUS

(* A piece of a piece is a piece of the whole.                                *)
LEMMA PieceOfPiece ==
    ASSUME NEW S, NEW s \in Seq(S), NEW a \in 0..Len(s), NEW b \in a..Len(s),
           NEW m \in 0..(b - a), NEW n \in m..(b - a)
    PROVE  SubSeq(SubSeq(s, a + 1, b), m + 1, n) = SubSeq(s, a + m + 1, a + n)
<1> DEFINE u == SubSeq(s, a + 1, b)
           v == SubSeq(u, m + 1, n)
           w == SubSeq(s, a + m + 1, a + n)
<1>1. u \in Seq(S) /\ Len(u) = b - a /\ \A i \in 1..(b - a) : u[i] = s[a + i]
    BY PieceIs
<1>2. a + m \in 0..Len(s) /\ a + n \in (a + m)..Len(s)
    OBVIOUS
<1>3. /\ w \in Seq(S) /\ Len(w) = n - m
      /\ \A i \in 1..(n - m) : w[i] = s[a + m + i]
    <2>1. (a + n) - (a + m) = n - m
        OBVIOUS
    <2> QED
        BY <1>2, <2>1, PieceIs
<1>4. /\ v \in Seq(S) /\ Len(v) = n - m
      /\ \A i \in 1..(n - m) : v[i] = u[m + i]
    <2>1. m \in 0..Len(u) /\ n \in m..Len(u)
        BY <1>1
    <2> HIDE DEF u
    <2> QED
        BY <1>1, <2>1, PieceIs
<1>5. \A i \in 1..(n - m) : m + i \in 1..(b - a) /\ a + (m + i) = a + m + i
    OBVIOUS
<1> HIDE DEF u, v, w
<1>6. \A i \in 1..Len(v) : v[i] = w[i]
    BY <1>1, <1>3, <1>4, <1>5
<1>7. v = w
    BY <1>3, <1>4, <1>6, SameSequence
<1> QED
    BY <1>7 DEF u, v, w

(* A buffer to which a longer piece is appended has the next symbol appended  *)
(* to it.                                                                     *)
LEMMA PieceGrows ==
    ASSUME NEW s \in Seq(Symbols), NEW a \in 0..Len(s), NEW k \in a..(Len(s) - 1),
           NEW buffer \in Seq(Symbols)
    PROVE  /\ buffer \o SubSeq(s, a + 1, a) = buffer
           /\ buffer \o SubSeq(s, a + 1, k + 1) = Append(buffer \o SubSeq(s, a + 1, k), s[k + 1])
           /\ buffer \o SubSeq(s, a + 1, k) \in Seq(Symbols)
<1>1. /\ SubSeq(s, a + 1, k) \in Seq(Symbols) /\ Len(SubSeq(s, a + 1, k)) = k - a
      /\ \A i \in 1..(k - a) : SubSeq(s, a + 1, k)[i] = s[a + i]
    BY PieceIs
<1>2. /\ SubSeq(s, a + 1, k + 1) \in Seq(Symbols) /\ Len(SubSeq(s, a + 1, k + 1)) = k + 1 - a
      /\ \A i \in 1..(k + 1 - a) : SubSeq(s, a + 1, k + 1)[i] = s[a + i]
    <2>1. k + 1 \in a..Len(s)
        OBVIOUS
    <2> QED
        BY <2>1, PieceIs
<1>3. SubSeq(s, a + 1, k + 1) = Append(SubSeq(s, a + 1, k), s[k + 1])
    <2> DEFINE v == SubSeq(s, a + 1, k + 1)
               u == SubSeq(s, a + 1, k)
               w == Append(u, s[k + 1])
    <2>1. s[k + 1] \in Symbols
        OBVIOUS
    <2>2. w \in Seq(Symbols) /\ Len(w) = k - a + 1 /\ w[k - a + 1] = s[k + 1]
          /\ \A i \in 1..(k - a) : w[i] = s[a + i]
        <3> HIDE DEF u
        <3> QED
            BY <1>1, <2>1 DEF u
    <2>3. \A i \in 1..(k - a + 1) : (i = k - a + 1 /\ a + i = k + 1) \/ i \in 1..(k - a)
        OBVIOUS
    <2> HIDE DEF v, w
    <2>4. v = w
        BY <1>2, <2>2, <2>3, SameSequence DEF v
    <2> QED
        BY <2>4 DEF v, w
<1>4. SubSeq(s, a + 1, a) = <<>>
    OBVIOUS
<1> DEFINE u == SubSeq(s, a + 1, k)
<1>5. \A v \in Seq(Symbols), x \in Symbols : buffer \o Append(v, x) = Append(buffer \o v, x)
    OBVIOUS
<1>6. s[k + 1] \in Symbols
    OBVIOUS
<1>7. buffer \o SubSeq(s, a + 1, a) = buffer
    BY <1>4
<1>8. buffer \o u \in Seq(Symbols)
    <2> HIDE DEF u
    <2>1. \A v \in Seq(Symbols) : buffer \o v \in Seq(Symbols)
        OBVIOUS
    <2> QED
        BY <1>1, <2>1 DEF u
<1>9. buffer \o SubSeq(s, a + 1, k + 1) = Append(buffer \o u, s[k + 1])
    <2>1. u \in Seq(Symbols) /\ SubSeq(s, a + 1, k + 1) = Append(u, s[k + 1])
        BY <1>1, <1>3
    <2> HIDE DEF u
    <2> QED
        BY <1>5, <1>6, <2>1
<1> QED
    BY <1>7, <1>8, <1>9

(* A beginning of what is left of a stream, and what is then left of it.      *)
LEMMA SuffixIs ==
    ASSUME NEW s \in Seq(Symbols), NEW a \in 0..Len(s), NEW b \in a..Len(s), NEW n \in 0..(b - a)
    PROVE  /\ SubSeq(SubSeq(s, a + 1, b), 1, n) = SubSeq(s, a + 1, a + n)
           /\ After(SubSeq(s, a + 1, b), n) = SubSeq(s, (a + n) + 1, b)
<1> DEFINE u == SubSeq(s, a + 1, b)
<1>1. Len(u) = b - a
    BY PieceIs
<1>2. SubSeq(u, 0 + 1, n) = SubSeq(s, a + 0 + 1, a + n)
    <2>1. 0 \in 0..(b - a) /\ n \in 0..(b - a)
        OBVIOUS
    <2> HIDE DEF u
    <2> QED
        BY <2>1, PieceOfPiece DEF u
<1>3. SubSeq(u, n + 1, b - a) = SubSeq(s, a + n + 1, a + (b - a))
    <2>1. n \in 0..(b - a) /\ b - a \in n..(b - a)
        OBVIOUS
    <2> HIDE DEF u
    <2> QED
        BY <2>1, PieceOfPiece DEF u
<1>4. 0 + 1 = 1 /\ a + 0 + 1 = a + 1 /\ a + (b - a) = b
    OBVIOUS
<1> HIDE DEF u
<1> QED
    BY <1>1, <1>2, <1>3, <1>4 DEF After, u

(* What is left of a frame after its first n symbols.                         *)
LEMMA AfterType ==
    ASSUME NEW s \in Seq(Symbols), NEW n \in 0..Len(s)
    PROVE  After(s, n) \in Seq(Symbols)
<1>1. n + 1 \in 1..(Len(s) + 1) /\ Len(s) \in 0..Len(s)
    OBVIOUS
<1> QED
    BY <1>1, PieceType DEF After

-----------------------------------------------------------------------------
(* How a frame is taken apart (usage.rs Candidates::next).                    *)

(* The first marker has two symbols, and a frame that begins with a marker    *)
(* has it first.                                                              *)
LEMMA MarkerIsFirst ==
    ASSUME NEW s \in Seq(Symbols)
    PROVE  /\ FirstMarker(s) # 0 => /\ FirstMarker(s) \in 1..(Len(s) - 1)
                                    /\ SubSeq(s, FirstMarker(s), FirstMarker(s) + 1) = Marker
           /\ Len(s) >= 2 /\ SubSeq(s, 1, 2) = Marker => FirstMarker(s) = 1
           /\ FirstMarker(s) \in Nat
<1> DEFINE starts == {i \in 1..(Len(s) - 1) : SubSeq(s, i, i + 1) = Marker}
<1>1. Len(s) \in Nat /\ starts \in SUBSET Nat /\ \A i \in starts : i \in Nat /\ i >= 1
    OBVIOUS
<1>2. FirstMarker(s) = IF starts = {} THEN 0 ELSE Min(starts)
    BY DEF FirstMarker
<1>3. starts # {} => Min(starts) \in starts /\ \A m \in starts : Min(starts) <= m
    <2> HIDE DEF starts
    <2> QED
        BY <1>1, MinIsLeast
<1>4. FirstMarker(s) # 0 => FirstMarker(s) \in starts
    BY <1>2, <1>3
<1>5. Len(s) >= 2 /\ SubSeq(s, 1, 2) = Marker => 1 \in starts
    BY <1>1
<1>6. 1 \in starts => FirstMarker(s) = 1
    <2> HIDE DEF starts
    <2>1. ASSUME 1 \in starts PROVE Min(starts) = 1
        <3>1. Min(starts) \in Nat /\ Min(starts) >= 1 /\ Min(starts) <= 1
            BY <1>1, <1>3, <2>1
        <3> QED
            BY <3>1
    <2> QED
        BY <1>2, <2>1
<1> QED
    <2>1. FirstMarker(s) # 0 => /\ FirstMarker(s) \in 1..(Len(s) - 1)
                                /\ SubSeq(s, FirstMarker(s), FirstMarker(s) + 1) = Marker
        BY <1>4
    <2>2. FirstMarker(s) \in Nat
        <3>1. FirstMarker(s) # 0 => FirstMarker(s) \in Nat
            BY <1>1, <2>1
        <3> QED
            BY <3>1
    <2> HIDE DEF starts
    <2> QED
        BY <1>5, <1>6, <2>1, <2>2

(* A marker is where its two symbols are.                                     *)
LEMMA MarkerIs ==
    ASSUME NEW s \in Seq(Symbols), NEW q \in 0..Len(s), q + 2 \in q..Len(s),
           s[q + 1] = "da", s[q + 2] = "ta:"
    PROVE  SubSeq(s, q + 1, q + 2) = Marker
<1> DEFINE n == q + 2
           two == SubSeq(s, q + 1, n)
<1>1. n \in q..Len(s) /\ n - q = 2 /\ \A l \in 1..2 : l = 1 \/ l = 2
    OBVIOUS
<1>2. s[q + 1] = "da" /\ s[q + 2] = "ta:"
    OBVIOUS
<1> SUFFICES two = Marker
    OBVIOUS
<1> HIDE DEF n
<1>3. two \in Seq(Symbols) /\ Len(two) = 2 /\ \A l \in 1..2 : two[l] = s[q + l]
    BY <1>1, PieceIs
<1>4. Marker \in Seq(Symbols) /\ Len(Marker) = 2 /\ Marker[1] = "da" /\ Marker[2] = "ta:"
    BY DEF Marker, Symbols, Syntax
<1> HIDE DEF two
<1>5. \A l \in 1..Len(two) : two[l] = Marker[l]
    BY <1>1, <1>2, <1>3, <1>4
<1> QED
    BY <1>3, <1>4, <1>5, SameSequence

(* What begins with a marker has it first.                                    *)
LEMMA MarkerBegins ==
    ASSUME NEW s \in Seq(Symbols), NEW c \in 0..Len(s), NEW b \in c..Len(s), c + 2 \in c..b,
           s[c + 1] = "da", s[c + 2] = "ta:"
    PROVE  FirstMarker(SubSeq(s, c + 1, b)) = 1
<1> DEFINE t == SubSeq(s, c + 1, b)
<1>1. c + 2 \in c..Len(s) /\ 2 \in 0..(b - c) /\ b - c >= 2
    OBVIOUS
<1>2. SubSeq(t, 1, 2) = SubSeq(s, c + 1, c + 2)
    BY <1>1, SuffixIs
<1>3. t \in Seq(Symbols) /\ Len(t) >= 2
    BY <1>1, PieceIs
<1>4. SubSeq(t, 1, 2) = Marker
    BY <1>1, <1>2, MarkerIs
<1> HIDE DEF t
<1>5. FirstMarker(t) = 1
    BY <1>3, <1>4, MarkerIsFirst
<1> QED
    BY <1>5 DEF t

(* No marker is before the first one.                                         *)
LEMMA MarkersFollow ==
    ASSUME NEW s \in Seq(Symbols), NEW i \in 1..(Len(s) - 1), SubSeq(s, i, i + 1) = Marker
    PROVE  FirstMarker(s) # 0 /\ FirstMarker(s) <= i
<1> DEFINE starts == {j \in 1..(Len(s) - 1) : SubSeq(s, j, j + 1) = Marker}
<1>1. Len(s) \in Nat /\ starts \in SUBSET Nat /\ i \in starts /\ \A j \in starts : j # 0
    OBVIOUS
<1>2. FirstMarker(s) = IF starts = {} THEN 0 ELSE Min(starts)
    BY DEF FirstMarker
<1> HIDE DEF starts
<1>3. Min(starts) \in starts /\ Min(starts) <= i
    BY <1>1, MinIsLeast
<1> QED
    BY <1>1, <1>2, <1>3

(* The first line is a beginning of the text without a line end, and what     *)
(* follows it is one.                                                         *)
LEMMA LineEnds ==
    ASSUME NEW s \in Seq(Symbols)
    PROVE  \E n \in 0..Len(s) :
              /\ FirstLine(s) = SubSeq(s, 1, n) /\ Len(FirstLine(s)) = n
              /\ n # Len(s) => s[n + 1] = "nl"
              /\ \A i \in 1..n : s[i] # "nl"
<1> DEFINE found == {i \in 1..Len(s) : s[i] = "nl"}
<1>1. Len(s) \in Nat /\ found \in SUBSET Nat /\ found \subseteq 1..Len(s)
    OBVIOUS
<1>2. SelectInSeq(s, LAMBDA symbol : symbol = "nl") = IF found # {} THEN Min(found) ELSE 0
    BY DEF SelectInSeq
<1>3. found # {} => Min(found) \in 1..Len(s) /\ s[Min(found)] = "nl"
    <2>1. \A i \in found : i \in 1..Len(s) /\ s[i] = "nl"
        OBVIOUS
    <2> HIDE DEF found
    <2> QED
        BY <1>1, <2>1, MinIsLeast
<1> HIDE DEF found
<1>4. CASE found = {}
    <2>1. FirstLine(s) = s
        BY <1>2, <1>4 DEF FirstLine
    <2>2. s = SubSeq(s, 1, Len(s)) /\ Len(s) \in 0..Len(s)
        BY <1>1
    <2>3. \A i \in 1..Len(s) : s[i] # "nl"
        BY <1>4 DEF found
    <2> QED
        BY <2>1, <2>2, <2>3
<1>5. CASE found # {}
    <2> DEFINE n == Min(found) - 1
    <2>1. Min(found) \in 1..Len(s) /\ s[Min(found)] = "nl"
        BY <1>3, <1>5
    <2>2. FirstLine(s) = SubSeq(s, 1, n)
        BY <1>2, <1>5, <2>1 DEF FirstLine
    <2>3. n \in 0..Len(s) /\ s[n + 1] = "nl"
        BY <1>1, <2>1
    <2>4. \A i \in 1..n : s[i] # "nl"
        <3>1. ASSUME NEW i \in 1..n, s[i] = "nl" PROVE FALSE
            <4>1. i \in found /\ ~(Min(found) <= i)
                BY <1>1, <2>1, <3>1 DEF found
            <4> QED
                BY <1>1, <1>5, <4>1, MinIsLeast
        <3> QED
            BY <3>1
    <2> HIDE DEF n
    <2>5. Len(SubSeq(s, 1, n)) = n
        BY <2>3
    <2> QED
        BY <2>2, <2>3, <2>4, <2>5
<1> QED
    BY <1>4, <1>5

(* What is trimmed off both ends is blank.                                    *)
LEMMA TrimIs ==
    ASSUME NEW s \in Seq(Symbols)
    PROVE  \E m \in 0..Len(s) : \E n \in m..Len(s) :
              /\ Trim(s) = SubSeq(s, m + 1, n)
              /\ \A i \in 1..m : s[i] \in Spaces
              /\ \A i \in (n + 1)..Len(s) : s[i] \in Spaces
<1> DEFINE black == {i \in DOMAIN s : s[i] \notin Spaces}
<1>1. /\ Len(s) \in Nat /\ black \in SUBSET Nat /\ DOMAIN s = 1..Len(s)
      /\ \A i \in black : i <= Len(s)
    OBVIOUS
<1>2. Trim(s) = IF black = {} THEN <<>> ELSE SubSeq(s, Min(black), Max(black))
    BY DEF Trim
<1>3. black # {} => /\ Min(black) \in black /\ Max(black) \in black
                    /\ \A i \in black : Min(black) <= i /\ i <= Max(black)
    <2> HIDE DEF black
    <2> QED
        BY <1>1, MinIsLeast, MaxIsGreatest
<1>4. CASE black = {}
    <2>1. \A i \in 1..Len(s) : s[i] \in Spaces
        BY <1>1, <1>4
    <2>2. Trim(s) = SubSeq(s, Len(s) + 1, Len(s))
        BY <1>1, <1>2, <1>4
    <2>3. Len(s) \in 0..Len(s) /\ Len(s) \in Len(s)..Len(s) /\ (Len(s) + 1)..Len(s) = {}
        BY <1>1
    <2> QED
        BY <2>1, <2>2, <2>3
<1>5. CASE black # {}
    <2> DEFINE m == Min(black) - 1
               n == Max(black)
    <2>1. Min(black) \in 1..Len(s) /\ n \in 1..Len(s) /\ Min(black) <= n
        BY <1>3, <1>5
    <2>2. m \in 0..Len(s) /\ n \in m..Len(s) /\ m + 1 = Min(black)
        BY <1>1, <2>1
    <2>3. \A i \in 1..m : i \in DOMAIN s /\ ~(Min(black) <= i)
        BY <1>1, <2>1
    <2>4. \A i \in (n + 1)..Len(s) : i \in DOMAIN s /\ ~(i <= n)
        BY <1>1, <2>1
    <2>5. \A i \in 1..m : s[i] \in Spaces
        BY <1>3, <1>5, <2>3
    <2>6. \A i \in (n + 1)..Len(s) : s[i] \in Spaces
        BY <1>3, <1>5, <2>4
    <2>7. Trim(s) = SubSeq(s, m + 1, n)
        BY <1>2, <1>5, <2>2
    <2> HIDE DEF m, n
    <2> QED
        BY <2>2, <2>5, <2>6, <2>7
<1> QED
    BY <1>4, <1>5

(* The first marker is in the frame.                                          *)
LEMMA FirstMarkerType ==
    ASSUME NEW s \in Seq(Symbols)
    PROVE  FirstMarker(s) \in 0..Len(s) /\ (FirstMarker(s) # 0 => FirstMarker(s) + 1 <= Len(s))
<1>1. Len(s) \in Nat
    OBVIOUS
<1> QED
    BY <1>1, MarkerIsFirst

(* The first line is text.                                                    *)
LEMMA FirstLineType ==
    ASSUME NEW s \in Seq(Symbols)
    PROVE  FirstLine(s) \in Seq(Symbols) /\ Len(FirstLine(s)) \in 0..Len(s)
<1>1. PICK n \in 0..Len(s) : FirstLine(s) = SubSeq(s, 1, n) /\ Len(FirstLine(s)) = n
    BY LineEnds
<1>2. 1 \in 1..(Len(s) + 1)
    OBVIOUS
<1> QED
    BY <1>1, <1>2, PieceType

(* What is trimmed is text.                                                   *)
LEMMA TrimType ==
    ASSUME NEW s \in Seq(Symbols)
    PROVE  Trim(s) \in Seq(Symbols)
<1>1. PICK m \in 0..Len(s) : \E n \in m..Len(s) : Trim(s) = SubSeq(s, m + 1, n)
    BY TrimIs
<1>2. PICK n \in m..Len(s) : Trim(s) = SubSeq(s, m + 1, n)
    BY <1>1
<1> QED
    BY <1>2, PieceIs

-----------------------------------------------------------------------------
(* Usages.                                                                    *)

(* A usage has no counters but those the gateway knows (usage.rs).            *)
IsUsage(u) == u = None \/ DOMAIN u \subseteq Counters

(* What an object reports is a usage, or nothing.                             *)
LEMMA ReportInType ==
    ASSUME NEW buffer \in Seq(Symbols) PROVE IsUsage(ReportIn(buffer))
<1> DEFINE found == {i \in 1..Len(buffer) : buffer[i] \in DOMAIN Report}
           last == SelectLastInSeq(buffer, LAMBDA symbol : symbol \in DOMAIN Report)
<1>1. /\ Len(buffer) \in Nat /\ found \in SUBSET Nat
      /\ \A i \in found : i <= Len(buffer)
    OBVIOUS
<1>2. last = IF found # {} THEN Max(found) ELSE 0
    BY DEF SelectLastInSeq
<1>3. ReportIn(buffer) = IF last = 0 THEN None ELSE TokenUsage(Report[buffer[last]])
    BY DEF ReportIn
<1> HIDE DEF last
<1>4. found # {} => last \in found
    <2> HIDE DEF found
    <2> QED
        BY <1>1, <1>2, MaxIsGreatest
<1>5. CASE last = 0
    BY <1>3, <1>5 DEF IsUsage
<1>6. CASE last # 0
    <2>1. buffer[last] \in DOMAIN Report
        BY <1>2, <1>4, <1>6
    <2>2. DOMAIN Report[buffer[last]] \subseteq Counters
        BY <2>1, StreamAssumption
    <2>3. DOMAIN TokenUsage(Report[buffer[last]]) \subseteq Counters
        BY <2>2 DEF TokenUsage, Counters
    <2> QED
        BY <1>3, <1>6, <2>3 DEF IsUsage
<1> QED
    BY <1>5, <1>6

(* The buffer holds symbols and the usage counters, whatever is consumed, and *)
(* what is kept of it fits (usage.rs UsageScanner::consume).                  *)
LEMMA ConsumeKeeps ==
    ASSUME NEW buffer \in Seq(Symbols), IsUsage(usage), Consume(buffer)
    PROVE  pending' \in Seq(Symbols) /\ IsUsage(usage') /\ Len(pending') <= MaxPending
<1>1. IsUsage(ReportIn(buffer))
    BY ReportInType
<1>2. /\ pending' \in {<<>>, buffer}
      /\ usage' = usage \/ usage' = ReportIn(buffer)
    BY DEF Consume, Settle, MergeUsage
<1>3. pending' = buffer => pending' = <<>> \/ Len(buffer) <= MaxPending
    <2>1. Len(buffer) \in Nat /\ MaxPending \in Nat
        BY PendingAssumption
    <2>2. Len(buffer) > MaxPending => pending' = <<>>
        BY DEF Consume
    <2> QED
        BY <2>1, <2>2
<1>4. Len(<<>>) <= MaxPending /\ <<>> \in Seq(Symbols)
    BY PendingAssumption, JoinedType
<1>5. IsUsage(usage')
    BY <1>1, <1>2 DEF IsUsage
<1>6. pending' \in Seq(Symbols) /\ Len(pending') <= MaxPending
    BY <1>2, <1>3, <1>4
<1> QED
    BY <1>5, <1>6

-----------------------------------------------------------------------------
(* Type correctness.                                                          *)

(* Offering a candidate consumes a buffer of symbols.                         *)
LEMMA OfferConsumes ==
    ASSUME TypeOK, NEW candidate \in Seq(Symbols), NEW left \in Seq(Symbols),
           Offer(candidate, left)
    PROVE  /\ \E buffer \in Seq(Symbols) : Consume(buffer)
           /\ rest' \in Seq(Symbols) /\ open' = FALSE /\ UNCHANGED <<stream, sent, clean>>
<1>1. PICK buffer \in {pending \o candidate} : Consume(buffer)
    BY DEF Offer
<1>2. pending \o candidate \in Seq(Symbols)
    BY JoinedType DEF TypeOK
<1> QED
    BY <1>1, <1>2 DEF Offer

(* Every candidate that is found in a frame is offered like that              *)
(* (usage.rs Candidates::next).                                               *)
LEMMA ScanConsumes ==
    ASSUME TypeOK, Scan
    PROVE  /\ \E buffer \in Seq(Symbols) : Consume(buffer)
           /\ rest' \in Seq(Symbols) /\ open' = FALSE /\ UNCHANGED <<stream, sent, clean>>
<1> DEFINE marker == FirstMarker(rest)
<1>1. rest \in Seq(Symbols) /\ Len(rest) \in Nat
    BY DEF TypeOK
<1>2. marker \in 0..Len(rest) /\ (marker # 0 => marker + 1 \in 0..Len(rest))
    BY <1>1, FirstMarkerType
<1>3. SUFFICES \E candidate, left \in Seq(Symbols) : Offer(candidate, left)
    BY OfferConsumes
<1>4. CASE OfferContinuation
    <2> DEFINE length == IF marker = 0 THEN Len(rest) ELSE marker - 1
    <2>1. Offer(SubSeq(rest, 1, length), After(rest, length))
        BY <1>4 DEF OfferContinuation
    <2>2. length \in 0..Len(rest) /\ 1 \in 1..(Len(rest) + 1)
        BY <1>1, <1>2
    <2> HIDE DEF length
    <2>3. SubSeq(rest, 1, length) \in Seq(Symbols) /\ After(rest, length) \in Seq(Symbols)
        BY <1>1, <2>2, PieceType, AfterType
    <2> QED
        BY <2>1, <2>3
<1>5. CASE OfferPayload
    <2>1. PICK behind \in {After(rest, marker + 1)} :
          \E payload \in {IF behind # <<>> /\ Head(behind) = "space" THEN Tail(behind) ELSE behind} :
          \E line \in {FirstLine(payload)} :
             Offer(Trim(line), After(payload, Len(line)))
        BY <1>5 DEF OfferPayload
    <2>2. behind \in Seq(Symbols)
        BY <1>1, <1>2, <1>5, AfterType DEF OfferPayload
    <2> DEFINE padded == behind # <<>> /\ Head(behind) = "space"
    <2>3. PICK payload \in {IF padded THEN Tail(behind) ELSE behind} :
          \E line \in {FirstLine(payload)} :
             Offer(Trim(line), After(payload, Len(line)))
        BY <2>1
    <2>4. padded => behind # <<>>
        OBVIOUS
    <2> HIDE DEF padded
    <2>5. payload \in Seq(Symbols)
        BY <2>2, <2>4
    <2>6. PICK line \in {FirstLine(payload)} : Offer(Trim(line), After(payload, Len(line)))
        BY <2>3
    <2>7. line \in Seq(Symbols) /\ Len(line) \in 0..Len(payload)
        BY <2>5, FirstLineType
    <2>8. Trim(line) \in Seq(Symbols) /\ After(payload, Len(line)) \in Seq(Symbols)
        BY <2>5, <2>7, TrimType, AfterType
    <2> QED
        BY <2>6, <2>8
<1>6. CASE OfferPlain
    <2>1. Offer(Trim(rest), <<>>)
        BY <1>6 DEF OfferPlain
    <2>2. Trim(rest) \in Seq(Symbols) /\ <<>> \in Seq(Symbols)
        BY <1>1, TrimType
    <2> QED
        BY <2>1, <2>2
<1> QED
    BY <1>4, <1>5, <1>6 DEF Scan

(* Every step preserves the type invariant.                                   *)
LEMMA NextType == TypeOK /\ [Next]_vars => TypeOK'
<1> SUFFICES ASSUME TypeOK, [Next]_vars PROVE TypeOK'
    OBVIOUS
<1>1. CASE Push
    <2>1. stream \in Seq(Symbols) /\ sent \in 0..Len(stream)
        BY StreamAssumption DEF TypeOK
    <2>2. PICK size \in 1..(Len(stream) - sent) :
             /\ sent' = sent + size
             /\ rest' = SubSeq(stream, sent + 1, sent + size)
             /\ clean' = (clean /\ CleanFrame(sent, sent + size))
        BY <1>1 DEF Push
    <2>3. sent + size \in 0..Len(stream) /\ sent + 1 \in 1..(Len(stream) + 1)
        BY <2>1
    <2>4. rest' \in Seq(Symbols)
        BY <2>1, <2>2, <2>3, PieceType
    <2> QED
        BY <1>1, <2>2, <2>3, <2>4 DEF Push, TypeOK
<1>2. CASE Scan
    <2>1. PICK buffer \in Seq(Symbols) : Consume(buffer)
        BY <1>2, ScanConsumes
    <2>2. pending' \in Seq(Symbols) /\ IsUsage(usage')
        BY <2>1, ConsumeKeeps DEF TypeOK, IsUsage
    <2> QED
        BY <1>2, <2>2, ScanConsumes DEF TypeOK, IsUsage
<1>3. CASE UNCHANGED vars
    BY <1>3 DEF vars, TypeOK
<1> QED
    BY <1>1, <1>2, <1>3 DEF Next

(* Every variable keeps its type, however the frames are cut, and a frame     *)
(* continues an object only if there is one (usage.rs UsageScanner::push).    *)
THEOREM TypeCorrect == Spec => []TypeOK
<1>1. Init => TypeOK
    <2>1. /\ \A s \in Streams : 0 \in 0..Len(s)
          /\ <<>> \in Seq(Symbols)
        BY StreamAssumption, JoinedType
    <2> QED
        BY <2>1 DEF Init, TypeOK
<1>2. TypeOK /\ [Next]_vars => TypeOK'
    BY NextType
<1> QED
    BY <1>1, <1>2, PTL DEF Spec

(* The buffer never exceeds its bound, however long the objects of the        *)
(* upstream are and wherever they are cut (usage.rs MAX_PENDING).             *)
THEOREM BufferBounded == Spec => []PendingBounded
<1>1. Init => PendingBounded
    BY PendingAssumption DEF Init, PendingBounded
<1>2. TypeOK /\ PendingBounded /\ [Next]_vars => PendingBounded'
    <2> SUFFICES ASSUME TypeOK, PendingBounded, [Next]_vars PROVE PendingBounded'
        OBVIOUS
    <2>1. CASE Scan
        <3>1. PICK buffer \in Seq(Symbols) : Consume(buffer)
            BY <2>1, ScanConsumes
        <3> QED
            BY <3>1, ConsumeKeeps DEF TypeOK, IsUsage, PendingBounded
    <2>2. CASE Push \/ UNCHANGED vars
        BY <2>2 DEF Push, vars, PendingBounded
    <2> QED
        BY <2>1, <2>2 DEF Next
<1> QED
    BY <1>1, <1>2, TypeCorrect, PTL DEF Spec

-----------------------------------------------------------------------------
(* The parser, symbol by symbol.                                              *)

(* The parser has a state after any symbol.                                   *)
LEMMA StepType ==
    ASSUME NEW p \in ParseStates, NEW x \in Symbols
    PROVE  ParseStep(p, x) \in ParseStates /\ ScanObject(p, x) \in ParseStates
BY DEF ParseStep, ScanObject, ParseStates

(* The states of the parser in a buffer.                                      *)
States(s) ==
    CHOOSE state : state = [n \in 0..Len(s) |->
        IF n = 0 THEN "start" ELSE ParseStep(state[n - 1], s[n])]

(* Each of them follows from the one before it: a function that is defined by *)
(* recursion exists (IntervalRecursion), so the one that is chosen is it.     *)
LEMMA StatesRun ==
    ASSUME NEW s \in Seq(Symbols)
    PROVE  /\ States(s) \in [0..Len(s) -> ParseStates]
           /\ States(s)[0] = "start"
           /\ \A i \in 1..Len(s) : States(s)[i] = ParseStep(States(s)[i - 1], s[i])
<1> DEFINE n == Len(s)
           step == [i \in 1..n |-> [p \in ParseStates |-> ParseStep(p, s[i])]]
           Body(h) == [i \in 0..n |-> IF i = 0 THEN "start" ELSE ParseStep(h[i - 1], s[i])]
           chosen == CHOOSE h : h = Body(h)
<1>1. n \in Nat /\ \A i \in 1..n : s[i] \in Symbols
    OBVIOUS
<1>2. "start" \in ParseStates
    BY DEF ParseStates
<1>3. chosen = Body(chosen)
    <2>1. step \in Steps(n, ParseStates)
        BY <1>1, StepType DEF Steps
    <2>2. PICK f \in [0..n -> ParseStates] : Recursive(f, n, "start", step)
        <3> HIDE DEF step, n
        <3> QED
            BY <1>1, <1>2, <2>1, IntervalRecursion
    <2>3. \A i \in 1..n : i - 1 \in 0..n /\ f[i - 1] \in ParseStates
        BY <1>1, <2>2
    <2>4. f[0] = "start" /\ \A i \in 1..n : f[i] = ParseStep(f[i - 1], s[i])
        BY <2>2, <2>3 DEF Recursive
    <2>5. \A i \in 0..n : f[i] = IF i = 0 THEN "start" ELSE ParseStep(f[i - 1], s[i])
        BY <1>1, <2>4
    <2>6. f = Body(f)
        BY <2>2, <2>5
    <2> HIDE DEF Body
    <2> QED
        BY <2>6
<1> HIDE DEF chosen
<1>4. /\ chosen[0] = "start"
      /\ \A i \in 1..n : chosen[i] = ParseStep(chosen[i - 1], s[i])
    BY <1>1, <1>3
<1> DEFINE P == {i \in 0..n : chosen[i] \in ParseStates}
<1>5. 0 \in P
    BY <1>1, <1>2, <1>4
<1>6. ASSUME NEW i \in 0..(n - 1), i \in P PROVE i + 1 \in P
    <2>1. i + 1 \in 1..n /\ (i + 1) - 1 = i /\ chosen[i] \in ParseStates
        BY <1>1, <1>6
    <2>2. chosen[i + 1] = ParseStep(chosen[i], s[i + 1])
        BY <1>4, <2>1
    <2>3. chosen[i + 1] \in ParseStates
        BY <1>1, <2>1, <2>2, StepType
    <2> QED
        BY <1>1, <2>1, <2>3
<1>7. \A i \in 0..n : i \in P
    <2> HIDE DEF P, n
    <2> QED
        BY <1>1, <1>5, <1>6, IntervalInduction
<1>8. chosen \in [0..n -> ParseStates]
    BY <1>3, <1>7
<1> QED
    BY <1>4, <1>8 DEF chosen, States

(* So do the depths of a stream.                                              *)
LEMMA DepthsRun ==
    ASSUME NEW s \in Streams
    PROVE  /\ Depths[s] \in [0..Len(s) -> ParseStates]
           /\ Depths[s][0] = "start"
           /\ \A i \in 1..Len(s) : Depths[s][i] = ScanObject(Depths[s][i - 1], s[i])
<1> DEFINE n == Len(s)
           step == [i \in 1..n |-> [p \in ParseStates |-> ScanObject(p, s[i])]]
           Body(h) == [i \in 0..n |-> IF i = 0 THEN "start" ELSE ScanObject(h[i - 1], s[i])]
           chosen == CHOOSE h : h = Body(h)
<1>1. n \in Nat /\ \A i \in 1..n : s[i] \in Symbols
    BY StreamAssumption
<1>2. "start" \in ParseStates
    BY DEF ParseStates
<1>3. chosen = Body(chosen)
    <2>1. step \in Steps(n, ParseStates)
        BY <1>1, StepType DEF Steps
    <2>2. PICK f \in [0..n -> ParseStates] : Recursive(f, n, "start", step)
        <3> HIDE DEF step, n
        <3> QED
            BY <1>1, <1>2, <2>1, IntervalRecursion
    <2>3. \A i \in 1..n : i - 1 \in 0..n /\ f[i - 1] \in ParseStates
        BY <1>1, <2>2
    <2>4. f[0] = "start" /\ \A i \in 1..n : f[i] = ScanObject(f[i - 1], s[i])
        BY <2>2, <2>3 DEF Recursive
    <2>5. \A i \in 0..n : f[i] = IF i = 0 THEN "start" ELSE ScanObject(f[i - 1], s[i])
        BY <1>1, <2>4
    <2>6. f = Body(f)
        BY <2>2, <2>5
    <2> HIDE DEF Body
    <2> QED
        BY <2>6
<1> HIDE DEF chosen
<1>4. /\ chosen[0] = "start"
      /\ \A i \in 1..n : chosen[i] = ScanObject(chosen[i - 1], s[i])
    BY <1>1, <1>3
<1> DEFINE P == {i \in 0..n : chosen[i] \in ParseStates}
<1>5. 0 \in P
    BY <1>1, <1>2, <1>4
<1>6. ASSUME NEW i \in 0..(n - 1), i \in P PROVE i + 1 \in P
    <2>1. i + 1 \in 1..n /\ (i + 1) - 1 = i /\ chosen[i] \in ParseStates
        BY <1>1, <1>6
    <2>2. chosen[i + 1] = ScanObject(chosen[i], s[i + 1])
        BY <1>4, <2>1
    <2>3. chosen[i + 1] \in ParseStates
        BY <1>1, <2>1, <2>2, StepType
    <2> QED
        BY <1>1, <2>1, <2>3
<1>7. \A i \in 0..n : i \in P
    <2> HIDE DEF P, n
    <2> QED
        BY <1>1, <1>5, <1>6, IntervalInduction
<1>8. chosen \in [0..n -> ParseStates]
    BY <1>3, <1>7
<1> QED
    BY <1>4, <1>8 DEF chosen, Depths

(* The same of one more symbol of a stream.                                   *)
LEMMA DepthSteps ==
    ASSUME NEW s \in Streams, NEW k \in 0..(Len(s) - 1)
    PROVE  /\ k + 1 \in 1..Len(s) /\ s[k + 1] \in Symbols /\ Len(s) \in Nat
           /\ Depths[s][k] \in ParseStates
           /\ Depths[s][k + 1] = ScanObject(Depths[s][k], s[k + 1])
<1>1. s \in Seq(Symbols)
    BY StreamAssumption
<1>2. k + 1 \in 1..Len(s) /\ Len(s) \in Nat /\ (k + 1) - 1 = k /\ k \in 0..Len(s)
    BY <1>1
<1>3. s[k + 1] \in Symbols
    BY <1>1, <1>2
<1> QED
    BY <1>2, <1>3, DepthsRun

(* The parser goes on where it was when a symbol is appended.                 *)
LEMMA ParseAppend ==
    ASSUME NEW s \in Seq(Symbols), NEW x \in Symbols
    PROVE  Parse(s) \in ParseStates /\ Parse(Append(s, x)) = ParseStep(Parse(s), x)
<1> DEFINE n == Len(s)
           t == Append(s, x)
           old == States(s)
           new == States(t)
           P == {i \in 0..n : new[i] = old[i]}
<1>1. /\ n \in Nat /\ t \in Seq(Symbols) /\ Len(t) = n + 1 /\ t[n + 1] = x
      /\ \A i \in 1..n : t[i] = s[i]
    OBVIOUS
<1>2. /\ Parse(s) = old[n] /\ Parse(t) = new[n + 1]
    BY <1>1 DEF Parse, States
<1>3. /\ old[0] = "start" /\ old \in [0..n -> ParseStates]
      /\ \A i \in 1..n : old[i] = ParseStep(old[i - 1], s[i])
    BY StatesRun
<1>4. /\ new[0] = "start"
      /\ \A i \in 1..(n + 1) : new[i] = ParseStep(new[i - 1], t[i])
    BY <1>1, StatesRun
<1> HIDE DEF old, new, t, n
<1>5. 0 \in P
    BY <1>1, <1>3, <1>4
<1>6. ASSUME NEW i \in 0..(n - 1), i \in P PROVE i + 1 \in P
    <2>1. i + 1 \in 1..n /\ i + 1 \in 1..(n + 1) /\ (i + 1) - 1 = i /\ new[i] = old[i]
        BY <1>1, <1>6
    <2> QED
        BY <1>1, <1>3, <1>4, <2>1
<1>7. \A i \in 0..n : i \in P
    <2> HIDE DEF P
    <2> QED
        BY <1>1, <1>5, <1>6, IntervalInduction
<1>8. new[n] = old[n] /\ old[n] \in ParseStates
    BY <1>1, <1>3, <1>7
<1>9. new[n + 1] = ParseStep(new[n], x)
    BY <1>1, <1>4
<1> QED
    BY <1>2, <1>8, <1>9 DEF t

(* It has read nothing of an empty buffer.                                    *)
LEMMA ParseEmpty == Parse(<<>>) = "start"
<1>1. <<>> \in Seq(Symbols) /\ Len(<<>>) = 0
    OBVIOUS
<1>2. Parse(<<>>) = States(<<>>)[0]
    BY <1>1 DEF Parse, States
<1> QED
    BY <1>1, <1>2, StatesRun

-----------------------------------------------------------------------------
(* How a relation R between the buffer and the place in the stream is carried *)
(* along, when it is stated of one symbol at a time.                          *)

(* By a piece of the stream that is appended.                                 *)
LEMMA PieceCarries ==
    ASSUME NEW s \in Seq(Symbols), NEW a \in 0..Len(s), NEW b \in a..Len(s),
           NEW buffer \in Seq(Symbols), NEW R, <<buffer, a>> \in R,
           \A k \in a..(b - 1), t \in Seq(Symbols) :
              <<t, k>> \in R => <<Append(t, s[k + 1]), k + 1>> \in R
    PROVE  <<buffer \o SubSeq(s, a + 1, b), b>> \in R
<1> DEFINE Grown(k) == buffer \o SubSeq(s, a + 1, a + k)
           P == {k \in 0..(b - a) : Grown(k) \in Seq(Symbols) /\ <<Grown(k), a + k>> \in R}
<1>1. Len(s) \in Nat /\ b - a \in Nat /\ a + 0 = a
    OBVIOUS
<1>2. 0 \in P
    <2>1. Grown(0) = buffer
        BY <1>1
    <2> HIDE DEF Grown
    <2> QED
        BY <1>1, <2>1
<1>3. ASSUME NEW k \in 0..((b - a) - 1), k \in P PROVE k + 1 \in P
    <2> DEFINE m == a + k
    <2>1. /\ m \in a..(Len(s) - 1) /\ m \in a..(b - 1) /\ m + 1 = a + (k + 1) /\ k + 1 \in 0..(b - a)
          /\ m + 1 \in a..Len(s)
        BY <1>1
    <2>2. Grown(k) = buffer \o SubSeq(s, a + 1, m) /\ Grown(k + 1) = buffer \o SubSeq(s, a + 1, m + 1)
        BY <2>1
    <2>3. Grown(k) \in Seq(Symbols) /\ <<Grown(k), m>> \in R
        BY <1>3
    <2> HIDE DEF m, Grown, P
    <2>4. /\ buffer \o SubSeq(s, a + 1, m) \in Seq(Symbols)
          /\ buffer \o SubSeq(s, a + 1, m + 1) = Append(buffer \o SubSeq(s, a + 1, m), s[m + 1])
        BY <2>1, PieceGrows, ZenonT(30)
    <2>5. Grown(k + 1) = Append(Grown(k), s[m + 1])
        BY <2>2, <2>4
    <2>6. <<Grown(k + 1), m + 1>> \in R
        BY <2>1, <2>3, <2>5
    <2>7. Grown(k + 1) \in Seq(Symbols)
        <3>1. SubSeq(s, a + 1, m + 1) \in Seq(Symbols)
            BY <2>1, PieceIs
        <3> QED
            BY <2>2, <3>1, JoinedType
    <2> QED
        BY <2>1, <2>6, <2>7 DEF P
<1>4. \A k \in 0..(b - a) : k \in P
    <2> HIDE DEF P
    <2> QED
        BY <1>1, <1>2, <1>3, IntervalInduction
<1>5. b - a \in P
    <2> HIDE DEF P
    <2> QED
        BY <1>1, <1>4
<1>6. a + (b - a) = b
    BY <1>1
<1> QED
    BY <1>5, <1>6

(* By symbols that are left out.                                              *)
LEMMA BlanksCarry ==
    ASSUME NEW a \in Nat, NEW b \in Nat, a <= b, NEW buffer, NEW R, <<buffer, a>> \in R,
           \A k \in a..(b - 1) : <<buffer, k>> \in R => <<buffer, k + 1>> \in R
    PROVE  <<buffer, b>> \in R
<1> DEFINE P == {k \in 0..(b - a) : <<buffer, a + k>> \in R}
<1>1. b - a \in Nat /\ a + 0 = a /\ a + (b - a) = b
    OBVIOUS
<1>2. 0 \in P
    BY <1>1
<1>3. ASSUME NEW k \in 0..((b - a) - 1), k \in P PROVE k + 1 \in P
    <2>1. a + k \in a..(b - 1) /\ a + (k + 1) = (a + k) + 1 /\ k + 1 \in 0..(b - a)
        BY <1>1
    <2>2. <<buffer, (a + k) + 1>> \in R
        BY <1>3, <2>1
    <2> QED
        BY <2>1, <2>2
<1>4. b - a \in P
    <2> HIDE DEF P
    <2>1. \A k \in 0..(b - a) : k \in P
        BY <1>1, <1>2, <1>3, IntervalInduction
    <2> QED
        BY <1>1, <2>1
<1> QED
    BY <1>1, <1>4

(* What is appended of a piece that is trimmed, and the blanks that are not.  *)
LEMMA TrimmedIs ==
    ASSUME NEW s \in Seq(Symbols), NEW a \in 0..Len(s), NEW b \in a..Len(s)
    PROVE  \E m \in a..b : \E n \in m..b :
              /\ Trim(SubSeq(s, a + 1, b)) = SubSeq(s, m + 1, n)
              /\ \A k \in (a + 1)..m : s[k] \in Spaces
              /\ \A k \in (n + 1)..b : s[k] \in Spaces
<1> DEFINE u == SubSeq(s, a + 1, b)
<1>1. Len(s) \in Nat /\ u \in Seq(Symbols) /\ Len(u) = b - a /\ \A i \in 1..(b - a) : u[i] = s[a + i]
    BY PieceIs
<1>2. PICK m \in 0..(b - a) : \E n \in m..(b - a) :
         /\ Trim(u) = SubSeq(u, m + 1, n)
         /\ \A i \in 1..m : u[i] \in Spaces
         /\ \A i \in (n + 1)..(b - a) : u[i] \in Spaces
    <2> HIDE DEF u
    <2> QED
        BY <1>1, TrimIs
<1>3. PICK n \in m..(b - a) :
         /\ Trim(u) = SubSeq(u, m + 1, n)
         /\ \A i \in 1..m : u[i] \in Spaces
         /\ \A i \in (n + 1)..(b - a) : u[i] \in Spaces
    BY <1>2
<1>4. a + m \in a..b /\ a + n \in (a + m)..b
    BY <1>1
<1>5. Trim(u) = SubSeq(s, a + m + 1, a + n)
    <2>1. SubSeq(u, m + 1, n) = SubSeq(s, a + m + 1, a + n)
        BY <1>1, PieceOfPiece
    <2> QED
        BY <1>3, <2>1
<1>6. ASSUME NEW k \in (a + 1)..(a + m) PROVE s[k] \in Spaces
    <2>1. k - a \in 1..m /\ k - a \in 1..(b - a) /\ a + (k - a) = k
        BY <1>1
    <2> HIDE DEF u
    <2> QED
        BY <1>1, <1>3, <2>1
<1>7. ASSUME NEW k \in (a + n + 1)..b PROVE s[k] \in Spaces
    <2>1. k - a \in (n + 1)..(b - a) /\ k - a \in 1..(b - a) /\ a + (k - a) = k
        BY <1>1
    <2> HIDE DEF u
    <2> QED
        BY <1>1, <1>3, <2>1
<1> HIDE DEF u
<1> QED
    BY <1>4, <1>5, <1>6, <1>7 DEF u

(* By a piece that is trimmed.                                                *)
LEMMA TrimmedCarries ==
    ASSUME NEW s \in Seq(Symbols), NEW a \in 0..Len(s), NEW b \in a..Len(s),
           NEW buffer \in Seq(Symbols), NEW R, <<buffer, a>> \in R,
           \A k \in a..(b - 1), t \in Seq(Symbols) :
              <<t, k>> \in R => <<Append(t, s[k + 1]), k + 1>> \in R,
           \A k \in a..(b - 1), t \in Seq(Symbols) :
              <<t, k>> \in R /\ s[k + 1] \in Spaces => <<t, k + 1>> \in R
    PROVE  <<buffer \o Trim(SubSeq(s, a + 1, b)), b>> \in R
<1>1. PICK m \in a..b : \E n \in m..b :
         /\ Trim(SubSeq(s, a + 1, b)) = SubSeq(s, m + 1, n)
         /\ \A k \in (a + 1)..m : s[k] \in Spaces
         /\ \A k \in (n + 1)..b : s[k] \in Spaces
    BY TrimmedIs
<1>2. PICK n \in m..b :
         /\ Trim(SubSeq(s, a + 1, b)) = SubSeq(s, m + 1, n)
         /\ \A k \in (a + 1)..m : s[k] \in Spaces
         /\ \A k \in (n + 1)..b : s[k] \in Spaces
    BY <1>1
<1>3. /\ Len(s) \in Nat /\ a \in Nat /\ b \in Nat /\ m \in Nat /\ n \in Nat /\ a <= m /\ n <= b
      /\ m \in 0..Len(s) /\ n \in m..Len(s) /\ n \in 0..Len(s)
    OBVIOUS
<1>4. <<buffer, m>> \in R
    <2>1. ASSUME NEW k \in a..(m - 1), <<buffer, k>> \in R PROVE <<buffer, k + 1>> \in R
        <3>1. k \in a..(b - 1) /\ k + 1 \in (a + 1)..m
            BY <1>3
        <3> QED
            BY <1>2, <2>1, <3>1
    <2> QED
        BY <1>3, <2>1, BlanksCarry
<1> DEFINE t == buffer \o SubSeq(s, m + 1, n)
<1>5. <<t, n>> \in R
    <2>1. \A k \in m..(n - 1) : k \in a..(b - 1)
        BY <1>3
    <2>2. \A k \in m..(n - 1), v \in Seq(Symbols) :
              <<v, k>> \in R => <<Append(v, s[k + 1]), k + 1>> \in R
        BY <2>1
    <2> QED
        BY <1>3, <1>4, <2>2, PieceCarries
<1>6. t \in Seq(Symbols)
    <2>1. SubSeq(s, m + 1, n) \in Seq(Symbols)
        BY <1>3, PieceIs
    <2> QED
        BY <2>1, JoinedType
<1> HIDE DEF t
<1>7. <<t, b>> \in R
    <2>1. ASSUME NEW k \in n..(b - 1), <<t, k>> \in R PROVE <<t, k + 1>> \in R
        <3>1. k \in a..(b - 1) /\ k + 1 \in (n + 1)..b
            BY <1>3
        <3> QED
            BY <1>2, <1>6, <2>1, <3>1
    <2> QED
        BY <1>3, <1>5, <2>1, BlanksCarry
<1> QED
    BY <1>2, <1>7 DEF t

(* By one whose first symbol is not a blank, from there on.                   *)
LEMMA TrimmedBegins ==
    ASSUME NEW s \in Seq(Symbols), NEW a \in 0..(Len(s) - 1), NEW b \in (a + 1)..Len(s),
           NEW buffer \in Seq(Symbols), s[a + 1] \notin Spaces,
           NEW R, <<Append(buffer, s[a + 1]), a + 1>> \in R,
           \A k \in (a + 1)..(b - 1), t \in Seq(Symbols) :
              <<t, k>> \in R => <<Append(t, s[k + 1]), k + 1>> \in R,
           \A k \in (a + 1)..(b - 1), t \in Seq(Symbols) :
              <<t, k>> \in R /\ s[k + 1] \in Spaces => <<t, k + 1>> \in R
    PROVE  <<buffer \o Trim(SubSeq(s, a + 1, b)), b>> \in R
<1> DEFINE S == {q \in R : q[2] # a} \cup {<<buffer, a>>}
<1>1. Len(s) \in Nat /\ a \in 0..Len(s) /\ b \in a..Len(s) /\ a # b
    OBVIOUS
<1>2. \A t, k : k # a => (<<t, k>> \in S <=> <<t, k>> \in R)
    OBVIOUS
<1>3. \A t : <<t, a>> \in S => t = buffer
    OBVIOUS
<1>4. <<buffer, a>> \in S
    OBVIOUS
<1> HIDE DEF S
<1>5. \A k \in a..(b - 1) : k + 1 # a /\ (k = a \/ k \in (a + 1)..(b - 1))
    BY <1>1
<1>6. ASSUME NEW k \in a..(b - 1), NEW t \in Seq(Symbols), <<t, k>> \in S
      PROVE  <<Append(t, s[k + 1]), k + 1>> \in S
    <2>1. CASE k = a
        <3>1. t = buffer
            BY <1>3, <1>6, <2>1
        <3> QED
            BY <1>2, <1>5, <2>1, <3>1
    <2>2. CASE k # a
        BY <1>2, <1>5, <1>6, <2>2
    <2> QED
        BY <2>1, <2>2
<1>7. ASSUME NEW k \in a..(b - 1), NEW t \in Seq(Symbols), <<t, k>> \in S, s[k + 1] \in Spaces
      PROVE  <<t, k + 1>> \in S
    <2>1. k # a
        BY <1>7
    <2> QED
        BY <1>2, <1>5, <1>7, <2>1
<1>8. <<buffer \o Trim(SubSeq(s, a + 1, b)), b>> \in S
    BY <1>1, <1>4, <1>6, <1>7, TrimmedCarries
<1> QED
    BY <1>1, <1>2, <1>8

(* A buffer has no beginning of a JSON value exactly when it is blank.        *)
LEMMA StartIsBlank ==
    ASSUME NEW s \in Seq(Symbols)
    PROVE  Parse(s) = "start" <=> \A i \in 1..Len(s) : s[i] \in Spaces
<1> DEFINE n == Len(s)
           state == States(s)
<1>1. n \in Nat /\ \A i \in 1..n : s[i] \in Symbols
    OBVIOUS
<1>2. /\ state[0] = "start" /\ state \in [0..n -> ParseStates]
      /\ \A i \in 1..n : state[i] = ParseStep(state[i - 1], s[i])
    BY StatesRun
<1>3. Parse(s) = state[n]
    BY DEF Parse, States
<1> HIDE DEF state
<1> DEFINE P == {k \in 0..n : state[k] = "start" <=> \A i \in 1..k : s[i] \in Spaces}
<1>4. 0 \in P
    BY <1>1, <1>2
<1>5. ASSUME NEW k \in 0..(n - 1), k \in P PROVE k + 1 \in P
    <2>1. k + 1 \in 1..n /\ (k + 1) - 1 = k /\ k + 1 \in 0..n
        BY <1>1
    <2>2. state[k + 1] = ParseStep(state[k], s[k + 1])
        BY <1>2, <2>1
    <2>3. state[k + 1] = "start" <=> state[k] = "start" /\ s[k + 1] \in Spaces
        <3>1. state[k] \in ParseStates
            BY <1>1, <1>2
        <3> QED
            BY <2>2, <3>1 DEF ParseStep, ParseStates
    <2>4. (\A i \in 1..(k + 1) : s[i] \in Spaces) <=> (\A i \in 1..k : s[i] \in Spaces) /\ s[k + 1] \in Spaces
        <3>1. \A i \in 1..(k + 1) : i = k + 1 \/ i \in 1..k
            BY <1>1
        <3>2. \A i \in 1..k : i \in 1..(k + 1)
            BY <1>1
        <3>3. k + 1 \in 1..(k + 1)
            BY <1>1
        <3> QED
            BY <3>1, <3>2, <3>3
    <2> QED
        BY <1>5, <2>1, <2>3, <2>4
<1>6. n \in P
    <2> HIDE DEF P
    <2>1. \A k \in 0..n : k \in P
        BY <1>1, <1>4, <1>5, IntervalInduction
    <2> QED
        BY <1>1, <2>1
<1> QED
    BY <1>3, <1>6

(* What is trimmed is nothing, or it is not blank.                            *)
LEMMA TrimNotBlank ==
    ASSUME NEW s \in Seq(Symbols)
    PROVE  Trim(s) = <<>> \/ \E i \in 1..Len(Trim(s)) : Trim(s)[i] \notin Spaces
<1> DEFINE black == {i \in DOMAIN s : s[i] \notin Spaces}
<1>1. /\ Len(s) \in Nat /\ black \in SUBSET Nat /\ DOMAIN s = 1..Len(s)
      /\ \A i \in black : i <= Len(s) /\ i \in 1..Len(s) /\ s[i] \notin Spaces
    OBVIOUS
<1>2. Trim(s) = IF black = {} THEN <<>> ELSE SubSeq(s, Min(black), Max(black))
    BY DEF Trim
<1>3. ASSUME black # {} PROVE \E i \in 1..Len(Trim(s)) : Trim(s)[i] \notin Spaces
    <2> HIDE DEF black
    <2>1. /\ Min(black) \in black /\ Max(black) \in black
          /\ \A i \in black : Min(black) <= i /\ i <= Max(black)
        BY <1>1, <1>3, MinIsLeast, MaxIsGreatest
    <2> DEFINE m == Min(black) - 1
               n == Max(black)
    <2>2. m \in 0..Len(s) /\ n \in m..Len(s) /\ m + 1 = Min(black) /\ 1 \in 1..(n - m)
        <3>1. Min(black) \in 1..Len(s) /\ n \in 1..Len(s) /\ Min(black) <= n
            BY <1>1, <2>1
        <3> QED
            BY <1>1, <3>1
    <2>3. Trim(s) = SubSeq(s, m + 1, n)
        BY <1>2, <1>3, <2>2
    <2>4. s[m + 1] \notin Spaces
        BY <1>1, <2>1, <2>2
    <2> HIDE DEF m, n
    <2>5. Len(Trim(s)) = n - m /\ Trim(s)[1] = s[m + 1]
        BY <2>2, <2>3, PieceIs
    <2> QED
        BY <2>2, <2>4, <2>5
<1> QED
    BY <1>2, <1>3

(* A buffer is not blank when something that is not is appended to it, or to  *)
(* something that is not.                                                     *)
LEMMA JoinedNotStart ==
    ASSUME NEW s \in Seq(Symbols), NEW t \in Seq(Symbols),
           \/ Parse(s) # "start"
           \/ \E i \in 1..Len(t) : t[i] \notin Spaces
    PROVE  Parse(s \o t) # "start"
<1> DEFINE u == s \o t
<1>1. /\ u \in Seq(Symbols) /\ Len(u) = Len(s) + Len(t) /\ Len(s) \in Nat /\ Len(t) \in Nat
      /\ \A i \in 1..Len(s) : u[i] = s[i]
      /\ \A i \in 1..Len(t) : u[Len(s) + i] = t[i]
    OBVIOUS
<1> HIDE DEF u
<1>2. \E i \in 1..Len(u) : u[i] \notin Spaces
    <2>1. CASE Parse(s) # "start"
        <3>1. PICK i \in 1..Len(s) : s[i] \notin Spaces
            BY <2>1, StartIsBlank
        <3>2. i \in 1..Len(u) /\ u[i] = s[i]
            BY <1>1
        <3> QED
            BY <3>1, <3>2
    <2>2. CASE \E i \in 1..Len(t) : t[i] \notin Spaces
        <3>1. PICK i \in 1..Len(t) : t[i] \notin Spaces
            BY <2>2
        <3>2. Len(s) + i \in 1..Len(u) /\ u[Len(s) + i] = t[i]
            BY <1>1
        <3> QED
            BY <3>1, <3>2
    <2> QED
        BY <2>1, <2>2
<1>3. Parse(u) # "start"
    BY <1>1, <1>2, StartIsBlank
<1> QED
    BY <1>3 DEF u

-----------------------------------------------------------------------------
(* What a buffer reports.                                                     *)

(* A buffer without a report.                                                 *)
Quiet(buffer) == \A i \in DOMAIN buffer : buffer[i] \notin DOMAIN Report

(* The last report of a buffer.                                               *)
LastReport(buffer, i) ==
    /\ i \in DOMAIN buffer /\ buffer[i] \in DOMAIN Report
    /\ \A l \in (i + 1)..Len(buffer) : buffer[l] \notin DOMAIN Report

(* A buffer reports its last report, or nothing (usage.rs extract_usage).     *)
LEMMA ReportInIs ==
    ASSUME NEW buffer \in Seq(Symbols)
    PROVE  /\ Quiet(buffer) => ReportIn(buffer) = None
           /\ \A i \in DOMAIN buffer :
                 LastReport(buffer, i) => ReportIn(buffer) = TokenUsage(Report[buffer[i]])
<1> DEFINE found == {i \in 1..Len(buffer) : buffer[i] \in DOMAIN Report}
           last == SelectLastInSeq(buffer, LAMBDA symbol : symbol \in DOMAIN Report)
<1>1. /\ Len(buffer) \in Nat /\ DOMAIN buffer = 1..Len(buffer) /\ found \in SUBSET Nat
      /\ \A i \in found : i \in Nat /\ i <= Len(buffer)
    OBVIOUS
<1>2. last = IF found # {} THEN Max(found) ELSE 0
    BY DEF SelectLastInSeq
<1>3. ReportIn(buffer) = IF last = 0 THEN None ELSE TokenUsage(Report[buffer[last]])
    BY DEF ReportIn
<1> HIDE DEF last
<1>4. Quiet(buffer) => ReportIn(buffer) = None
    <2>1. Quiet(buffer) => found = {}
        BY <1>1 DEF Quiet
    <2> QED
        BY <1>2, <1>3, <2>1
<1>5. ASSUME NEW i \in DOMAIN buffer, LastReport(buffer, i)
      PROVE  ReportIn(buffer) = TokenUsage(Report[buffer[i]])
    <2>1. i \in found /\ i # 0
        BY <1>1, <1>5 DEF LastReport
    <2>2. \A l \in found : l <= i
        <3>1. ASSUME NEW l \in found, ~(l <= i) PROVE FALSE
            <4>1. l \in (i + 1)..Len(buffer)
                BY <1>1, <3>1
            <4> QED
                BY <1>5, <3>1, <4>1 DEF LastReport
        <3> QED
            BY <3>1
    <2>3. Max(found) = i
        <3> HIDE DEF found
        <3>1. Max(found) \in found /\ i <= Max(found)
            BY <1>1, <2>1, MaxIsGreatest
        <3>2. Max(found) \in Nat /\ Max(found) <= i /\ i \in Nat
            BY <1>1, <2>1, <2>2, <3>1
        <3> QED
            BY <3>1, <3>2
    <2>4. last = i
        BY <1>2, <2>1, <2>3
    <2> QED
        BY <1>3, <2>1, <2>4
<1> QED
    BY <1>4, <1>5

(* What a symbol does to the reports of a buffer.                             *)
LEMMA AppendReports ==
    ASSUME NEW buffer \in Seq(Symbols), NEW x \in Symbols
    PROVE  /\ x \notin DOMAIN Report /\ Quiet(buffer) => Quiet(Append(buffer, x))
           /\ \A i \in DOMAIN buffer : Append(buffer, x)[i] = buffer[i] /\ i \in DOMAIN Append(buffer, x)
           /\ x \notin DOMAIN Report =>
                 \A i \in DOMAIN buffer : LastReport(buffer, i) => LastReport(Append(buffer, x), i)
           /\ x \in DOMAIN Report => LastReport(Append(buffer, x), Len(buffer) + 1)
           /\ Append(buffer, x)[Len(buffer) + 1] = x
           /\ Len(buffer) + 1 \in DOMAIN Append(buffer, x)
<1> DEFINE t == Append(buffer, x)
<1>1. /\ Len(buffer) \in Nat /\ Len(t) = Len(buffer) + 1
      /\ DOMAIN t = 1..(Len(buffer) + 1) /\ DOMAIN buffer = 1..Len(buffer)
      /\ t[Len(buffer) + 1] = x /\ \A i \in 1..Len(buffer) : t[i] = buffer[i]
    OBVIOUS
<1> HIDE DEF t
<1>2. \A i \in 1..(Len(buffer) + 1) : i # Len(buffer) + 1 => i \in 1..Len(buffer)
    BY <1>1
<1>3. x \notin DOMAIN Report /\ Quiet(buffer) => Quiet(t)
    BY <1>1, <1>2 DEF Quiet
<1>4. ASSUME x \notin DOMAIN Report, NEW i \in DOMAIN buffer, LastReport(buffer, i)
      PROVE  LastReport(t, i)
    <2>1. ASSUME NEW l \in (i + 1)..Len(t) PROVE t[l] \notin DOMAIN Report
        <3>1. l = Len(buffer) + 1 \/ (l \in (i + 1)..Len(buffer) /\ l \in 1..Len(buffer))
            BY <1>1
        <3> QED
            BY <1>1, <1>4, <3>1 DEF LastReport
    <2> QED
        BY <1>1, <1>4, <2>1 DEF LastReport
<1>5. x \in DOMAIN Report => LastReport(t, Len(buffer) + 1)
    BY <1>1 DEF LastReport
<1> QED
    BY <1>1, <1>3, <1>4, <1>5 DEF t

(* The last report of the buffer is the last one of the stream, and the       *)
(* object in which it stands has not ended after k symbols.                   *)
Current(buffer, s, k) ==
    \E i \in DOMAIN buffer, j \in 1..k :
       /\ LastReport(buffer, i) /\ buffer[i] = s[j]
       /\ \A l \in (j + 1)..k : s[l] \notin DOMAIN Report
       /\ \A l \in j..k : Depths[s][l] \in {"in", "string"}

(* The last report of the buffer is what an object reports that has ended by  *)
(* then.                                                                      *)
Counted(buffer, s, k) ==
    \E i \in DOMAIN buffer, e \in Ends[s] :
       /\ LastReport(buffer, i) /\ e <= k
       /\ Reported[s][e] = Report[buffer[i]]

(* Whatever is in an object is behind the beginning of one.                   *)
LEMMA ObjectBegins ==
    ASSUME NEW s \in Streams
    PROVE  \A k \in 0..Len(s) : Depths[s][k] \in {"in", "string"} =>
              \E m \in 1..k : s[m] = "lbrace" /\ Depths[s][m - 1] \notin {"in", "string"}
<1> DEFINE Begun(k) == \E m \in 1..k : s[m] = "lbrace" /\ Depths[s][m - 1] \notin {"in", "string"}
           P == {k \in 0..Len(s) : Depths[s][k] \in {"in", "string"} => Begun(k)}
<1>1. Len(s) \in Nat
    BY StreamAssumption
<1>2. 0 \in P
    BY <1>1, DepthsRun
<1>3. ASSUME NEW k \in 0..(Len(s) - 1), k \in P PROVE k + 1 \in P
    <2>1. /\ k + 1 \in 1..Len(s) /\ (k + 1) - 1 = k
          /\ Depths[s][k + 1] = ScanObject(Depths[s][k], s[k + 1])
        BY DepthSteps, <1>1
    <2>2. CASE Depths[s][k] \in {"in", "string"}
        <3>1. PICK m \in 1..k : s[m] = "lbrace" /\ Depths[s][m - 1] \notin {"in", "string"}
            BY <1>3, <2>2
        <3>2. m \in 1..(k + 1)
            BY <2>1
        <3> QED
            BY <2>1, <3>1, <3>2
    <2>3. CASE Depths[s][k] \notin {"in", "string"}
        <3>1. Depths[s][k + 1] \in {"in", "string"} => s[k + 1] = "lbrace"
            BY <2>1, <2>3 DEF ScanObject
        <3>2. k + 1 \in 1..(k + 1)
            BY <2>1
        <3> QED
            BY <2>1, <2>3, <3>1, <3>2
    <2> QED
        BY <2>2, <2>3
<1>4. \A k \in 0..Len(s) : k \in P
    <2> HIDE DEF P
    <2> QED
        BY <1>1, <1>2, <1>3, IntervalInduction
<1> QED
    BY <1>4

(* The last report before the end of an object is the one of the object,      *)
(* unless it stands before its beginning.                                     *)
LEMMA ObjectReports ==
    ASSUME NEW s \in Streams, NEW k \in 0..(Len(s) - 1), Depths[s][k] = "in", s[k + 1] = "rbrace",
           NEW j \in 1..k, s[j] \in DOMAIN Report,
           \A l \in (j + 1)..k : s[l] \notin DOMAIN Report,
           \A l \in j..k : Depths[s][l] \in {"in", "string"}
    PROVE  k + 1 \in Ends[s] /\ Reported[s][k + 1] = Report[s[j]]
<1> DEFINE e == k + 1
           begins == {m \in 1..e : s[m] = "lbrace" /\ Depths[s][m - 1] \notin {"in", "string"}}
           found == {i \in Begin(s, e)..e : s[i] \in DOMAIN Report}
<1>1. /\ e \in 1..Len(s) /\ DOMAIN s = 1..Len(s) /\ Len(s) \in Nat /\ k \in Nat
      /\ Depths[s][e] = ScanObject("in", "rbrace")
    BY DepthSteps, StreamAssumption
<1>2. "rbrace" \notin DOMAIN Report /\ "rbrace" \notin Spaces
    BY StreamAssumption DEF Spaces, Syntax
<1>3. Depths[s][e] = "done"
    BY <1>1, <1>2 DEF ScanObject, ParseStep
<1>4. e \in Ends[s]
    BY <1>1, <1>3 DEF Ends
<1>5. \A m \in begins : m <= j
    <2>1. ASSUME NEW m \in begins, ~(m <= j) PROVE FALSE
        <3>1. m - 1 \in j..k
            BY <1>1, <2>1
        <3> QED
            BY <2>1, <3>1
    <2> QED
        BY <2>1
<1>6. begins # {} /\ begins \in SUBSET Nat /\ \A m \in begins : m \in 1..e
    <2>1. k \in 0..Len(s)
        BY <1>1
    <2>2. PICK m \in 1..k : s[m] = "lbrace" /\ Depths[s][m - 1] \notin {"in", "string"}
        BY <2>1, ObjectBegins
    <2>3. m \in 1..e
        BY <1>1
    <2> QED
        BY <1>1, <2>2, <2>3
<1>7. Begin(s, e) \in begins
    <2>1. Begin(s, e) = Max(begins)
        BY DEF Begin
    <2>2. j \in Nat
        BY <1>1
    <2> HIDE DEF begins
    <2> QED
        BY <1>5, <1>6, <2>1, <2>2, MaxIsGreatest
<1>8. Begin(s, e) \in 1..j
    BY <1>5, <1>6, <1>7
<1>9. j \in found /\ \A i \in found : i <= j
    <2>1. j \in found
        BY <1>1, <1>8
    <2>2. ASSUME NEW i \in found, ~(i <= j) PROVE FALSE
        <3>1. i = e \/ i \in (j + 1)..k
            BY <1>1, <1>8, <2>2
        <3> QED
            BY <1>2, <2>2, <3>1
    <2> QED
        BY <2>1, <2>2
<1>10. Max(found) = j
    <2>1. found \in SUBSET Nat /\ j \in Nat
        BY <1>1, <1>8
    <2> HIDE DEF found
    <2>2. Max(found) \in found /\ j <= Max(found)
        BY <1>9, <2>1, MaxIsGreatest
    <2>3. Max(found) \in Nat /\ Max(found) <= j
        BY <1>9, <2>1, <2>2
    <2> QED
        BY <2>1, <2>2, <2>3
<1>11. SelectLastInSubSeq(s, Begin(s, e), e, LAMBDA x : x \in DOMAIN Report) = j
    <2>1. SelectLastInSubSeq(s, Begin(s, e), e, LAMBDA x : x \in DOMAIN Report)
             = IF found # {} THEN Max(found) ELSE 0
        BY DEF SelectLastInSubSeq
    <2> QED
        BY <1>9, <1>10, <2>1
<1>12. j # 0
    BY <1>1
<1> QED
    BY <1>4, <1>11, <1>12 DEF Reported

(* The report stays the last one of its object until the next, or the end.    *)
LEMMA CurrentGoesOn ==
    ASSUME NEW s \in Streams, NEW k \in 0..(Len(s) - 1), NEW buffer \in Seq(Symbols),
           Depths[s][k + 1] \in {"in", "string"}, s[k + 1] \notin DOMAIN Report,
           Current(buffer, s, k)
    PROVE  Current(Append(buffer, s[k + 1]), s, k + 1)
<1> DEFINE t == Append(buffer, s[k + 1])
<1>1. PICK i \in DOMAIN buffer, j \in 1..k :
         /\ LastReport(buffer, i) /\ buffer[i] = s[j]
         /\ \A l \in (j + 1)..k : s[l] \notin DOMAIN Report
         /\ \A l \in j..k : Depths[s][l] \in {"in", "string"}
    BY DEF Current
<1>2. s[k + 1] \in Symbols /\ k \in Nat
    BY DepthSteps
<1>3. i \in DOMAIN t /\ LastReport(t, i) /\ t[i] = s[j]
    BY <1>1, <1>2, AppendReports
<1>4. j \in 1..(k + 1)
    BY <1>2
<1>5. \A l \in (j + 1)..(k + 1) : s[l] \notin DOMAIN Report
    <2>1. \A l \in (j + 1)..(k + 1) : l = k + 1 \/ l \in (j + 1)..k
        BY <1>2
    <2> QED
        BY <1>1, <2>1
<1>6. \A l \in j..(k + 1) : Depths[s][l] \in {"in", "string"}
    <2>1. \A l \in j..(k + 1) : l = k + 1 \/ l \in j..k
        BY <1>2
    <2> QED
        BY <1>1, <2>1
<1> HIDE DEF t
<1>7. Current(t, s, k + 1)
    BY <1>3, <1>4, <1>5, <1>6 DEF Current
<1> QED
    BY <1>7 DEF t

(* A report that is appended in an object is its last one so far.             *)
LEMMA CurrentBegins ==
    ASSUME NEW s \in Streams, NEW k \in 0..(Len(s) - 1), NEW buffer \in Seq(Symbols),
           Depths[s][k + 1] \in {"in", "string"}, s[k + 1] \in DOMAIN Report
    PROVE  Current(Append(buffer, s[k + 1]), s, k + 1)
<1> DEFINE t == Append(buffer, s[k + 1])
           i == Len(buffer) + 1
           j == k + 1
<1>1. s[j] \in Symbols /\ k \in Nat
    <2>1. s[k + 1] \in Symbols /\ Len(s) \in Nat
        BY DepthSteps
    <2> QED
        BY <2>1
<1>2. i \in DOMAIN t /\ LastReport(t, i) /\ t[i] = s[j]
    BY <1>1, AppendReports
<1>3. /\ j \in 1..j /\ (j + 1)..j = {} /\ j..j = {j}
    BY <1>1
<1> HIDE DEF t, i, j
<1>4. Current(t, s, j)
    BY <1>2, <1>3 DEF Current, j
<1> QED
    BY <1>4 DEF t, j

(* Nothing changes while the stream goes on without a report.                 *)
LEMMA CurrentStays ==
    ASSUME NEW s \in Streams, NEW k \in 0..(Len(s) - 1), NEW buffer,
           Depths[s][k + 1] \in {"in", "string"}, s[k + 1] \notin DOMAIN Report,
           Current(buffer, s, k)
    PROVE  Current(buffer, s, k + 1)
<1>1. PICK i \in DOMAIN buffer, j \in 1..k :
         /\ LastReport(buffer, i) /\ buffer[i] = s[j]
         /\ \A l \in (j + 1)..k : s[l] \notin DOMAIN Report
         /\ \A l \in j..k : Depths[s][l] \in {"in", "string"}
    BY DEF Current
<1>2. j \in 1..(k + 1) /\ k \in Nat
    BY DepthSteps
<1>3. \A l \in (j + 1)..(k + 1) : l = k + 1 \/ l \in (j + 1)..k
    BY <1>2
<1>4. \A l \in j..(k + 1) : l = k + 1 \/ l \in j..k
    BY <1>2
<1> QED
    BY <1>1, <1>2, <1>3, <1>4 DEF Current

(* What an object has reported stays so.                                      *)
LEMMA CountedStays ==
    ASSUME NEW s \in Streams, NEW k \in 0..(Len(s) - 1), NEW buffer \in Seq(Symbols),
           s[k + 1] \notin DOMAIN Report, Counted(buffer, s, k)
    PROVE  Counted(Append(buffer, s[k + 1]), s, k + 1)
<1> DEFINE t == Append(buffer, s[k + 1])
<1>1. PICK i \in DOMAIN buffer, e \in Ends[s] :
         LastReport(buffer, i) /\ e <= k /\ Reported[s][e] = Report[buffer[i]]
    BY DEF Counted
<1>2. s[k + 1] \in Symbols /\ k \in Nat /\ e \in Nat
    BY DepthSteps, StreamAssumption DEF Ends
<1>3. i \in DOMAIN t /\ LastReport(t, i) /\ t[i] = buffer[i] /\ e <= k + 1
    BY <1>1, <1>2, AppendReports
<1> HIDE DEF t
<1>4. Counted(t, s, k + 1)
    BY <1>1, <1>3 DEF Counted
<1> QED
    BY <1>4 DEF t

(* The object that ends reports the last report of the buffer.                *)
LEMMA CountedAtEnd ==
    ASSUME NEW s \in Streams, NEW k \in 0..(Len(s) - 1), NEW buffer \in Seq(Symbols),
           Depths[s][k] = "in", s[k + 1] = "rbrace", Current(buffer, s, k)
    PROVE  Counted(Append(buffer, s[k + 1]), s, k + 1)
<1> DEFINE t == Append(buffer, s[k + 1])
<1>1. PICK i \in DOMAIN buffer, j \in 1..k :
         /\ LastReport(buffer, i) /\ buffer[i] = s[j]
         /\ \A l \in (j + 1)..k : s[l] \notin DOMAIN Report
         /\ \A l \in j..k : Depths[s][l] \in {"in", "string"}
    BY DEF Current
<1>2. s[k + 1] \in Symbols /\ k \in Nat /\ s[k + 1] \notin DOMAIN Report
    BY DepthSteps, StreamAssumption DEF Syntax
<1>3. s[j] \in DOMAIN Report
    BY <1>1 DEF LastReport
<1>4. k + 1 \in Ends[s] /\ Reported[s][k + 1] = Report[s[j]]
    BY <1>1, <1>3, ObjectReports
<1>5. i \in DOMAIN t /\ LastReport(t, i) /\ t[i] = s[j] /\ k + 1 <= k + 1
    BY <1>1, <1>2, AppendReports
<1> HIDE DEF t
<1>6. Counted(t, s, k + 1)
    BY <1>4, <1>5 DEF Counted
<1> QED
    BY <1>6 DEF t

-----------------------------------------------------------------------------
(* How the buffer reflects the stream.                                        *)

(* After k symbols of the stream, either the buffer can never become an       *)
(* object, or its reports are genuine: as far as the parser is in an object   *)
(* or in a string of one, it agrees with the stream about that, or else it    *)
(* takes the text in quotes for what is between them and has seen no report,  *)
(* which is not text.                                                         *)
Reflects(buffer, s, k) ==
    \/ Parse(buffer) \in {"bad", "top"}
    \/ Parse(buffer) = "start" /\ Quiet(buffer)
    \/ /\ Parse(buffer) = "in"
       /\ Depths[s][k] \in {"in", "string"}
       /\ Quiet(buffer) \/ (Depths[s][k] = "in" /\ Current(buffer, s, k))
    \/ /\ Parse(buffer) = "string"
       /\ Quiet(buffer) \/ (Depths[s][k] = "string" /\ Current(buffer, s, k))
    \/ Parse(buffer) = "done" /\ (Quiet(buffer) \/ Counted(buffer, s, k))

(* An empty buffer reflects any place of a stream.                            *)
LEMMA ReflectsNothing ==
    ASSUME NEW s \in Streams, NEW k \in 0..Len(s)
    PROVE  Reflects(<<>>, s, k)
BY ParseEmpty DEF Reflects, Quiet

(* A symbol of the stream that is appended keeps it so: one step of the       *)
(* parser in the buffer, and one in the stream.                               *)
LEMMA ReflectsAppend ==
    ASSUME NEW s \in Streams, WellFormed(s), NEW k \in 0..(Len(s) - 1),
           NEW buffer \in Seq(Symbols), Reflects(buffer, s, k)
    PROVE  Reflects(Append(buffer, s[k + 1]), s, k + 1)
<1> DEFINE x == s[k + 1]
           t == Append(buffer, x)
           p == Parse(buffer)
           d == Depths[s][k]
           e == Depths[s][k + 1]
<1>1. /\ x \in Symbols /\ k + 1 \in 1..Len(s) /\ k + 1 \in 0..Len(s) /\ (k + 1) - 1 = k
      /\ d \in ParseStates /\ e = ScanObject(d, x)
    BY DepthSteps
<1>2. e # "bad" /\ (d \notin {"in", "string"} => x # "quote")
    BY <1>1 DEF WellFormed, Within
<1>3. Parse(t) = ParseStep(p, x)
    BY <1>1, ParseAppend
<1>4. x \in DOMAIN Report => x \notin Syntax
    BY StreamAssumption
<1>5. x \notin DOMAIN Report /\ Quiet(buffer) => Quiet(t)
    BY <1>1, AppendReports
<1>6. CASE p \in {"bad", "top"}
    BY <1>3, <1>6 DEF ParseStep, Reflects
<1>7. CASE p = "done"
    <2>1. CASE x \in Spaces
        <3>1. Quiet(buffer) \/ Counted(buffer, s, k)
            BY <1>7 DEF Reflects
        <3>2. x \notin DOMAIN Report
            BY <1>4, <2>1 DEF Syntax
        <3>3. Quiet(t) \/ Counted(t, s, k + 1)
            BY <1>5, <3>1, <3>2, CountedStays
        <3> QED
            BY <1>3, <1>7, <2>1, <3>3 DEF ParseStep, Reflects
    <2>2. CASE x \notin Spaces
        BY <1>3, <1>7, <2>2 DEF ParseStep, Reflects
    <2> QED
        BY <2>1, <2>2
<1>8. CASE p = "start"
    <2>1. Quiet(buffer)
        BY <1>8 DEF Reflects
    <2>2. CASE x \in Spaces
        <3>1. Quiet(t)
            BY <1>4, <1>5, <2>1, <2>2 DEF Syntax
        <3> QED
            BY <1>3, <1>8, <2>2, <3>1 DEF ParseStep, Reflects
    <2>3. CASE x = "lbrace"
        <3>1. Quiet(t)
            BY <1>4, <1>5, <2>1, <2>3 DEF Syntax
        <3>2. e \in {"in", "string"}
            BY <1>1, <1>2, <1>4, <2>3 DEF ScanObject, ParseStep, Syntax, Spaces, NotInString
        <3> QED
            BY <1>3, <1>8, <2>3, <3>1, <3>2 DEF ParseStep, Reflects, Spaces
    <2>4. CASE x \notin Spaces \cup {"lbrace"}
        BY <1>3, <1>8, <2>4 DEF ParseStep, Reflects
    <2> QED
        BY <2>2, <2>3, <2>4
<1>9. CASE p = "in" /\ d = "in"
    <2>1. e = ParseStep(p, x) /\ e \in {"in", "string", "done"}
        BY <1>1, <1>2, <1>9 DEF ScanObject, ParseStep
    <2>2. Quiet(buffer) \/ Current(buffer, s, k)
        BY <1>9 DEF Reflects
    <2>3. CASE x \in DOMAIN Report
        <3>1. e = "in"
            BY <2>1, <1>9, <2>3 DEF ParseStep
        <3>2. Current(t, s, k + 1)
            BY <2>3, <3>1, CurrentBegins
        <3> QED
            BY <1>3, <2>1, <3>1, <3>2 DEF Reflects
    <2>4. CASE x \notin DOMAIN Report /\ e \in {"in", "string"}
        <3>1. Quiet(t) \/ Current(t, s, k + 1)
            BY <1>5, <2>2, <2>4, CurrentGoesOn
        <3> QED
            BY <1>3, <2>1, <2>4, <3>1 DEF Reflects
    <2>5. CASE x \notin DOMAIN Report /\ e = "done"
        <3>1. x = "rbrace"
            BY <2>1, <1>9, <2>5 DEF ParseStep
        <3>2. Quiet(t) \/ Counted(t, s, k + 1)
            BY <1>5, <1>9, <2>2, <2>5, <3>1, CountedAtEnd
        <3> QED
            BY <1>3, <2>1, <2>5, <3>2 DEF Reflects
    <2> QED
        BY <2>1, <2>3, <2>4, <2>5
<1>10. CASE p = "in" /\ d = "string"
    <2>1. Quiet(buffer)
        BY <1>10 DEF Reflects
    <2>2. x \notin NotInString
        BY <1>1, <1>2, <1>4, <1>10 DEF ScanObject, ParseStep, Syntax, NotInString, Spaces
    <2>3. Quiet(t)
        BY <1>5, <2>1, <2>2 DEF NotInString
    <2>4. ParseStep(p, x) = "in" => e \in {"in", "string"}
        BY <1>1, <1>2, <1>10 DEF ScanObject, ParseStep
    <2>5. ParseStep(p, x) \in {"in", "string", "done", "bad"}
        BY <1>10 DEF ParseStep
    <2> QED
        BY <1>3, <2>3, <2>4, <2>5 DEF Reflects
<1>11. CASE p = "string" /\ d = "string"
    <2>1. e = ParseStep(p, x) /\ e \in {"in", "string"} /\ x \notin DOMAIN Report
        BY <1>1, <1>2, <1>4, <1>11 DEF ScanObject, ParseStep, NotInString, Syntax
    <2>2. Quiet(t) \/ Current(t, s, k + 1)
        BY <1>5, <1>11, <2>1, CurrentGoesOn DEF Reflects
    <2> QED
        BY <1>3, <2>1, <2>2 DEF Reflects
<1>12. CASE p = "string" /\ d # "string"
    <2>1. Quiet(buffer)
        BY <1>12 DEF Reflects
    <2>2. CASE x \in NotInString
        <3>1. x # "quote"
            BY <1>4, <2>2 DEF NotInString, Syntax
        <3> QED
            BY <1>3, <1>12, <2>2, <3>1 DEF ParseStep, Reflects
    <2>3. CASE x \notin NotInString
        <3>1. Quiet(t)
            BY <1>5, <2>1, <2>3 DEF NotInString
        <3>2. x = "quote" => e \in {"in", "string"}
            BY <1>1, <1>2, <1>4, <1>12 DEF ScanObject, ParseStep, Syntax, Spaces
        <3> QED
            BY <1>3, <1>12, <2>3, <3>1, <3>2 DEF ParseStep, Reflects
    <2> QED
        BY <2>2, <2>3
<1> QED
    BY <1>6, <1>7, <1>8, <1>9, <1>10, <1>11, <1>12 DEF Reflects

(* A blank, or half of a marker, that is left out changes nothing.            *)
LEMMA ReflectsBlank ==
    ASSUME NEW s \in Streams, WellFormed(s), NEW k \in 0..(Len(s) - 1),
           NEW buffer \in Seq(Symbols), Reflects(buffer, s, k),
           s[k + 1] \in Spaces \cup {"da", "ta:"}
    PROVE  Reflects(buffer, s, k + 1)
<1> DEFINE x == s[k + 1]
           d == Depths[s][k]
           e == Depths[s][k + 1]
<1>1. /\ k + 1 \in 0..Len(s) /\ e = ScanObject(d, x)
    BY DepthSteps
<1>2. e # "bad"
    BY <1>1 DEF WellFormed
<1>3. x \notin DOMAIN Report /\ x \notin {"quote", "lbrace", "rbrace"}
    BY StreamAssumption DEF Syntax, Spaces
<1>4. (d = "in" => e = "in") /\ (d = "string" => e = "string")
    BY <1>1, <1>2, <1>3 DEF ScanObject, ParseStep
<1>5. d \in {"in", "string"} /\ Current(buffer, s, k) => Current(buffer, s, k + 1)
    BY <1>3, <1>4, CurrentStays
<1>6. Counted(buffer, s, k) => Counted(buffer, s, k + 1)
    <2>1. \A n \in Ends[s] : n <= k => n <= k + 1
        BY StreamAssumption DEF Ends
    <2> QED
        BY <2>1 DEF Counted
<1> HIDE DEF x, d, e
<1>7. CASE Parse(buffer) = "in"
    BY <1>4, <1>5, <1>7 DEF Reflects, d, e
<1>8. CASE Parse(buffer) = "string"
    BY <1>4, <1>5, <1>8 DEF Reflects, d, e
<1>9. CASE Parse(buffer) \notin {"in", "string"}
    BY <1>6, <1>9 DEF Reflects
<1> QED
    BY <1>7, <1>8, <1>9

(* Outside of the objects of the stream anything may be left out.             *)
LEMMA ReflectsAcross ==
    ASSUME NEW s \in Streams, NEW a \in 0..Len(s), NEW b \in a..Len(s),
           NEW buffer \in Seq(Symbols), Reflects(buffer, s, a),
           Depths[s][a] \notin {"in", "string"}
    PROVE  Reflects(buffer, s, b)
<1>1. Counted(buffer, s, a) => Counted(buffer, s, b)
    <2>1. \A n \in Ends[s] : n <= a => n <= b
        BY StreamAssumption DEF Ends
    <2> QED
        BY <2>1 DEF Counted
<1> QED
    BY <1>1 DEF Reflects

(* So does a piece of the stream, trimmed or not.                             *)
LEMMA ReflectsPiece ==
    ASSUME NEW s \in Streams, WellFormed(s), NEW a \in 0..Len(s), NEW b \in a..Len(s),
           NEW buffer \in Seq(Symbols), Reflects(buffer, s, a)
    PROVE  /\ Reflects(buffer \o SubSeq(s, a + 1, b), s, b)
           /\ Reflects(buffer \o Trim(SubSeq(s, a + 1, b)), s, b)
<1> DEFINE R == {q \in Seq(Symbols) \X (0..Len(s)) : Reflects(q[1], s, q[2])}
<1>1. s \in Seq(Symbols) /\ Len(s) \in Nat
    BY StreamAssumption
<1>2. <<buffer, a>> \in R
    OBVIOUS
<1>3. ASSUME NEW k \in a..(b - 1), NEW t \in Seq(Symbols), <<t, k>> \in R
      PROVE  /\ <<Append(t, s[k + 1]), k + 1>> \in R
             /\ s[k + 1] \in Spaces => <<t, k + 1>> \in R
    <2>1. k \in 0..(Len(s) - 1) /\ k + 1 \in 0..Len(s) /\ Reflects(t, s, k)
        BY <1>1, <1>3
    <2>2. s[k + 1] \in Symbols
        BY <2>1, DepthSteps
    <2>3. Append(t, s[k + 1]) \in Seq(Symbols)
        BY <2>2
    <2>4. Reflects(Append(t, s[k + 1]), s, k + 1)
        BY <2>1, ReflectsAppend
    <2>5. s[k + 1] \in Spaces => Reflects(t, s, k + 1)
        BY <2>1, ReflectsBlank
    <2> QED
        BY <2>1, <2>3, <2>4, <2>5
<1>4. <<buffer \o SubSeq(s, a + 1, b), b>> \in R
    <2> HIDE DEF R
    <2> QED
        BY <1>1, <1>2, <1>3, PieceCarries
<1>5. <<buffer \o Trim(SubSeq(s, a + 1, b)), b>> \in R
    <2> HIDE DEF R
    <2> QED
        BY <1>1, <1>2, <1>3, TrimmedCarries
<1> QED
    BY <1>4, <1>5

-----------------------------------------------------------------------------
(* Where the candidates of a frame stand in the stream.                       *)

(* How much of the stream has been offered.                                   *)
Position == sent - Len(rest)

(* What is left of the frame is the stream from there on, and the buffer      *)
(* reflects the stream up to there; what is looked for behind a marker is not *)
(* behind the middle of an object.                                            *)
Faithful ==
    /\ Position \in 0..sent
    /\ rest = SubSeq(stream, Position + 1, sent)
    /\ Reflects(pending, stream, Position)
    /\ ~open /\ rest # <<>> /\ pending # <<>> =>
          FirstMarker(rest) = 1 \/ Depths[stream][Position] \notin {"in", "string"}

(* No marker stands between a and c.                                          *)
Unmarked(s, a, c) == \A i \in (a + 1)..(c - 1) : ~(s[i] = "da" /\ s[i + 1] = "ta:")

(* What is left of a frame is a piece of the stream.                          *)
LEMMA RestIs ==
    ASSUME TypeOK, Faithful
    PROVE  /\ stream \in Streams /\ stream \in Seq(Symbols) /\ Len(stream) \in Nat
           /\ sent \in 0..Len(stream) /\ pending \in Seq(Symbols) /\ rest \in Seq(Symbols)
           /\ Position \in 0..sent /\ Position \in 0..Len(stream) /\ sent \in Position..Len(stream)
           /\ Position \in Nat /\ sent \in Nat /\ Len(rest) = sent - Position
           /\ rest = SubSeq(stream, Position + 1, sent)
           /\ \A i \in 1..(sent - Position) : rest[i] = stream[Position + i]
           /\ rest # <<>> <=> Position # sent
<1>1. /\ stream \in Streams /\ stream \in Seq(Symbols) /\ Len(stream) \in Nat
      /\ sent \in 0..Len(stream) /\ pending \in Seq(Symbols) /\ rest \in Seq(Symbols)
    BY StreamAssumption DEF TypeOK
<1>2. Position \in 0..sent /\ rest = SubSeq(stream, Position + 1, sent)
    BY DEF Faithful
<1> DEFINE a == Position
<1> HIDE DEF a
<1>3. a \in 0..sent /\ rest = SubSeq(stream, a + 1, sent)
    BY <1>2 DEF a
<1>4. a \in 0..Len(stream) /\ sent \in a..Len(stream) /\ a \in Nat /\ sent \in Nat
    BY <1>1, <1>3
<1>5. Len(rest) = sent - a /\ \A i \in 1..(sent - a) : rest[i] = stream[a + i]
    BY <1>1, <1>3, <1>4, PieceIs
<1>6. rest # <<>> <=> a # sent
    <2>1. rest = <<>> <=> Len(rest) = 0
        BY <1>1
    <2> QED
        BY <1>4, <1>5, <2>1
<1> QED
    BY <1>1, <1>3, <1>4, <1>5, <1>6 DEF a

(* Up to the first marker there is none.                                      *)
LEMMA UnmarkedBefore ==
    ASSUME TypeOK, Faithful, NEW c \in Position..sent,
           FirstMarker(rest) = 0 \/ c - Position < FirstMarker(rest)
    PROVE  Unmarked(stream, Position, c)
<1> DEFINE a == Position
<1>1. /\ stream \in Seq(Symbols) /\ Len(stream) \in Nat /\ sent \in 0..Len(stream)
      /\ rest \in Seq(Symbols) /\ a \in 0..sent /\ Len(rest) = sent - a
      /\ c \in a..sent /\ (FirstMarker(rest) = 0 \/ c - a < FirstMarker(rest))
      /\ \A i \in 1..(sent - a) : rest[i] = stream[a + i]
    BY RestIs
<1> SUFFICES Unmarked(stream, a, c)
    OBVIOUS
<1> HIDE DEF a
<1> SUFFICES ASSUME NEW i \in (a + 1)..(c - 1), stream[i] = "da", stream[i + 1] = "ta:"
             PROVE  FALSE
    BY DEF Unmarked
<1> DEFINE j == i - a
<1>2. /\ j \in 1..(Len(rest) - 1) /\ j \in 1..(sent - a) /\ j + 1 \in 1..(sent - a)
      /\ a + j = i /\ a + (j + 1) = i + 1 /\ j < c - a /\ j - 1 \in 0..Len(rest)
      /\ j + 1 \in (j - 1)..Len(rest) /\ (j - 1) + 1 = j /\ (j + 1) - (j - 1) = 2 /\ (j - 1) + 2 = j + 1
    BY <1>1
<1>3. rest[j] = "da" /\ rest[j + 1] = "ta:"
    BY <1>1, <1>2
<1> HIDE DEF j
<1>4. SubSeq(rest, j, j + 1) = Marker
    <2> DEFINE l == j - 1
    <2>1. l \in 0..Len(rest) /\ l + 2 \in l..Len(rest) /\ l + 1 = j /\ l + 2 = j + 1
        BY <1>1, <1>2
    <2> HIDE DEF l
    <2>2. SubSeq(rest, l + 1, l + 2) = Marker
        BY <1>1, <1>3, <2>1, MarkerIs
    <2> QED
        BY <2>1, <2>2
<1>5. FirstMarker(rest) # 0 /\ FirstMarker(rest) <= j
    BY <1>1, <1>2, <1>4, MarkersFollow
<1>6. FirstMarker(rest) \in Nat
    BY <1>1, MarkerIsFirst
<1> QED
    BY <1>1, <1>2, <1>5, <1>6

(* Where the first marker stands.                                             *)
LEMMA MarkerStands ==
    ASSUME TypeOK, Faithful, FirstMarker(rest) # 0
    PROVE  \E q \in Position..sent :
              /\ q = Position + (FirstMarker(rest) - 1) /\ q + 2 \in q..sent
              /\ stream[q + 1] = "da" /\ stream[q + 2] = "ta:"
              /\ Unmarked(stream, Position, q)
<1> DEFINE a == Position
           m == FirstMarker(rest)
           q == a + (m - 1)
<1>1. /\ stream \in Seq(Symbols) /\ Len(stream) \in Nat /\ sent \in 0..Len(stream)
      /\ rest \in Seq(Symbols) /\ a \in 0..sent /\ Len(rest) = sent - a
      /\ \A i \in 1..(sent - a) : rest[i] = stream[a + i]
    BY RestIs
<1>2. m \in 1..(Len(rest) - 1) /\ SubSeq(rest, m, m + 1) = Marker
    BY <1>1, MarkerIsFirst
<1> SUFFICES \E n \in a..sent :
              /\ n = a + (m - 1) /\ n + 2 \in n..sent
              /\ stream[n + 1] = "da" /\ stream[n + 2] = "ta:"
              /\ Unmarked(stream, a, n)
    OBVIOUS
<1>3. q \in a..sent /\ q - a < m => Unmarked(stream, a, q)
    BY UnmarkedBefore
<1> HIDE DEF a, m
<1>4. /\ q \in a..sent /\ q + 2 \in q..sent /\ q - a < m
      /\ m \in 1..(sent - a) /\ m + 1 \in 1..(sent - a) /\ a + m = q + 1 /\ a + (m + 1) = q + 2
    BY <1>1, <1>2
<1>5. rest[m] = "da" /\ rest[m + 1] = "ta:"
    <2> DEFINE two == SubSeq(rest, m, m + 1)
    <2>1. two[1] = rest[m] /\ two[2] = rest[m + 1]
        BY <1>1, <1>2
    <2>2. Marker[1] = "da" /\ Marker[2] = "ta:"
        BY DEF Marker
    <2> QED
        BY <1>2, <2>1, <2>2
<1>6. stream[q + 1] = "da" /\ stream[q + 2] = "ta:"
    BY <1>1, <1>4, <1>5
<1> QED
    BY <1>3, <1>4, <1>6

(* A line behind a marker does not end within an object.                      *)
LEMMA LineEndsOutside ==
    ASSUME NEW s \in Streams, WellFormed(s), NEW q \in Nat, NEW c \in 0..(Len(s) - 1), q + 2 <= c,
           s[q + 1] = "da", s[q + 2] = "ta:", s[c + 1] = "nl"
    PROVE  ~Within(s, c) /\ Depths[s][c] \notin {"in", "string"}
<1>1. s \in Seq(Symbols) /\ Len(s) \in Nat
    BY StreamAssumption
<1>2. /\ q \in 0..Len(s) /\ q + 2 \in q..Len(s) /\ q + 1 + 1 = q + 2
      /\ c + 1 \in 1..Len(s) /\ q + 1 \in 1..((c + 1) - 2) /\ (c + 1) - 1 = c
    BY <1>1
<1>3. SubSeq(s, q + 1, (q + 1) + 1) = Marker
    BY <1>1, <1>2, MarkerIs
<1> QED
    BY <1>2, <1>3 DEF WellFormed, Within

(* What an offer does besides.                                                *)
LEMMA OfferPlaces ==
    ASSUME TypeOK, Faithful, NEW c \in Position..sent, NEW candidate,
           Offer(candidate, SubSeq(stream, c + 1, sent))
    PROVE  /\ Position' = c /\ (rest' # <<>> => c # sent) /\ open' = FALSE
           /\ UNCHANGED <<stream, sent, clean>> /\ Consume(pending \o candidate)
<1>1. /\ stream \in Seq(Symbols) /\ c \in 0..Len(stream) /\ sent \in c..Len(stream) /\ sent \in Nat /\ c \in Nat
    BY RestIs
<1>2. /\ rest' = SubSeq(stream, c + 1, sent) /\ UNCHANGED <<stream, sent, clean>> /\ open' = FALSE
      /\ Consume(pending \o candidate)
    BY DEF Offer
<1>3. Len(rest') = sent - c
    BY <1>1, <1>2, PieceIs
<1>4. Position' = c
    BY <1>1, <1>2, <1>3 DEF Position
<1>5. c = sent => rest' = <<>>
    BY <1>1, <1>2
<1> QED
    BY <1>2, <1>4, <1>5

(* The continuation is what precedes the first marker (usage.rs               *)
(* Candidates::next).                                                         *)
LEMMA ContinuationPlace ==
    ASSUME TypeOK, Faithful, OfferContinuation
    PROVE  \E c \in Position..sent :
              /\ Offer(SubSeq(stream, Position + 1, c), SubSeq(stream, c + 1, sent))
              /\ Unmarked(stream, Position, c)
              /\ c # sent => c + 2 \in c..sent /\ stream[c + 1] = "da" /\ stream[c + 2] = "ta:"
<1> DEFINE a == Position
           m == FirstMarker(rest)
           n == IF m = 0 THEN Len(rest) ELSE m - 1
           c == a + n
<1>1. /\ stream \in Seq(Symbols) /\ Len(stream) \in Nat /\ sent \in 0..Len(stream) /\ sent \in Nat
      /\ a \in 0..Len(stream) /\ sent \in a..Len(stream)
      /\ rest \in Seq(Symbols) /\ a \in 0..sent /\ Len(rest) = sent - a
      /\ rest = SubSeq(stream, a + 1, sent)
    BY RestIs
<1>2. Offer(SubSeq(rest, 1, n), After(rest, n))
    BY DEF OfferContinuation
<1>3. m # 0 => m \in 1..(Len(rest) - 1)
    BY <1>1, MarkerIsFirst
<1>4. m # 0 => \E q \in a..sent :
              /\ q = a + (m - 1) /\ q + 2 \in q..sent
              /\ stream[q + 1] = "da" /\ stream[q + 2] = "ta:"
    BY MarkerStands
<1>5. c \in a..sent /\ (m = 0 \/ c - a < m) => Unmarked(stream, a, c)
    BY UnmarkedBefore
<1> SUFFICES \E b \in a..sent :
              /\ Offer(SubSeq(stream, a + 1, b), SubSeq(stream, b + 1, sent))
              /\ Unmarked(stream, a, b)
              /\ b # sent => b + 2 \in b..sent /\ stream[b + 1] = "da" /\ stream[b + 2] = "ta:"
    OBVIOUS
<1> HIDE DEF a, m
<1>6. n \in 0..(sent - a) /\ c \in a..sent /\ (m = 0 \/ c - a < m)
    BY <1>1, <1>3
<1>7. m = 0 => c = sent
    BY <1>1
<1>8. SubSeq(rest, 1, n) = SubSeq(stream, a + 1, c) /\ After(rest, n) = SubSeq(stream, c + 1, sent)
    <2> HIDE DEF n
    <2> QED
        BY <1>1, <1>6, SuffixIs
<1>9. m # 0 => c = a + (m - 1)
    OBVIOUS
<1> HIDE DEF n, c
<1>10. c # sent => c + 2 \in c..sent /\ stream[c + 1] = "da" /\ stream[c + 2] = "ta:"
    BY <1>4, <1>7, <1>9
<1> QED
    BY <1>2, <1>5, <1>6, <1>8, <1>10

(* The payload begins behind the first marker, or behind a blank that follows *)
(* it, and reaches to the end of the line (usage.rs Candidates::next).        *)
LEMMA PayloadPlace ==
    ASSUME TypeOK, Faithful, OfferPayload
    PROVE  \E q \in Position..sent, r \in 0..sent, c \in 0..sent :
              /\ r = q + 2 \/ r = q + 3
              /\ r <= c /\ FirstMarker(rest) = q - Position + 1
              /\ Unmarked(stream, Position, q)
              /\ stream[q + 1] = "da" /\ stream[q + 2] = "ta:"
              /\ r = q + 3 => stream[r] = "space"
              /\ r = q + 2 /\ r # sent => stream[r + 1] # "space"
              /\ \A i \in (r + 1)..c : stream[i] # "nl"
              /\ c # sent => stream[c + 1] = "nl"
              /\ Offer(Trim(SubSeq(stream, r + 1, c)), SubSeq(stream, c + 1, sent))
<1> DEFINE a == Position
           m == FirstMarker(rest)
<1>1. /\ stream \in Seq(Symbols) /\ Len(stream) \in Nat /\ sent \in 0..Len(stream) /\ sent \in Nat
      /\ a \in 0..Len(stream) /\ sent \in a..Len(stream)
      /\ rest \in Seq(Symbols) /\ a \in 0..sent /\ Len(rest) = sent - a
      /\ rest = SubSeq(stream, a + 1, sent)
    BY RestIs
<1>2. m # 0 /\ m \in Nat
    BY <1>1, MarkerIsFirst DEF OfferPayload
<1>3. PICK q \in a..sent :
          /\ q = a + (m - 1) /\ q + 2 \in q..sent
          /\ stream[q + 1] = "da" /\ stream[q + 2] = "ta:"
          /\ Unmarked(stream, a, q)
    BY <1>2, MarkerStands
<1> DEFINE behind == After(rest, m + 1)
           padded == behind # <<>> /\ Head(behind) = "space"
           payload == IF padded THEN Tail(behind) ELSE behind
           line == FirstLine(payload)
<1>4. Offer(Trim(line), After(payload, Len(line)))
    BY DEF OfferPayload
<1> SUFFICES \E n \in a..sent, r \in 0..sent, c \in 0..sent :
              /\ r = n + 2 \/ r = n + 3
              /\ r <= c /\ m = n - a + 1
              /\ Unmarked(stream, a, n)
              /\ stream[n + 1] = "da" /\ stream[n + 2] = "ta:"
              /\ r = n + 3 => stream[r] = "space"
              /\ r = n + 2 /\ r # sent => stream[r + 1] # "space"
              /\ \A i \in (r + 1)..c : stream[i] # "nl"
              /\ c # sent => stream[c + 1] = "nl"
              /\ Offer(Trim(SubSeq(stream, r + 1, c)), SubSeq(stream, c + 1, sent))
    OBVIOUS
<1> HIDE DEF a, m
<1> DEFINE p == q + 2
<1>5. /\ p \in 0..sent /\ p \in 0..Len(stream) /\ sent \in p..Len(stream) /\ p \in Nat
      /\ m + 1 \in 0..(sent - a) /\ a + (m + 1) = p /\ m = q - a + 1 /\ q \in Nat
    BY <1>1, <1>2, <1>3
<1>6. behind = SubSeq(stream, p + 1, sent)
    <2>1. behind = SubSeq(stream, (a + (m + 1)) + 1, sent)
        BY <1>1, <1>5, SuffixIs
    <2> QED
        BY <1>5, <2>1
<1> HIDE DEF p
<1>7. /\ behind \in Seq(Symbols) /\ Len(behind) = sent - p
      /\ \A i \in 1..(sent - p) : behind[i] = stream[p + i]
    <2> HIDE DEF behind
    <2> QED
        BY <1>1, <1>5, <1>6, PieceIs
<1>8. PICK r \in 0..sent :
         /\ r = p \/ (r = p + 1 /\ stream[r] = "space")
         /\ r = p /\ r # sent => stream[r + 1] # "space"
         /\ payload = SubSeq(stream, r + 1, sent)
    <2>1. CASE ~padded
        <3>1. payload = behind
            BY <2>1
        <3>2. p # sent => behind # <<>> /\ Head(behind) = behind[1] /\ behind[1] = stream[p + 1]
            <4>1. p # sent => 1 \in 1..(sent - p) /\ Len(behind) # 0
                BY <1>1, <1>5, <1>7
            <4> HIDE DEF behind
            <4> QED
                BY <1>7, <4>1
        <3>3. p # sent => stream[p + 1] # "space"
            BY <2>1, <3>2
        <3> HIDE DEF behind, payload, padded
        <3> QED
            BY <1>5, <1>6, <3>1, <3>3
    <2>2. CASE padded
        <3>1. behind # <<>> /\ behind[1] = "space" /\ payload = Tail(behind)
            BY <1>7, <2>2
        <3> HIDE DEF behind, padded, payload
        <3>2. Len(behind) >= 1 /\ Tail(behind) = After(behind, 1)
            BY <1>7, <3>1 DEF After
        <3>3. 1 \in 0..(sent - p) /\ 1 \in 1..(sent - p) /\ p + 1 \in 0..sent /\ p + 1 # p
            BY <1>1, <1>5, <1>7, <3>2
        <3>4. After(behind, 1) = SubSeq(stream, (p + 1) + 1, sent)
            BY <1>1, <1>5, <1>6, <3>3, SuffixIs
        <3>5. stream[p + 1] = "space"
            BY <1>7, <3>1, <3>3
        <3> DEFINE r == p + 1
        <3>6. /\ r \in 0..sent /\ r = p + 1 /\ stream[r] = "space" /\ r # p
              /\ payload = SubSeq(stream, r + 1, sent)
            BY <3>1, <3>2, <3>3, <3>4, <3>5
        <3> HIDE DEF r
        <3> QED
            BY <3>6
    <2> QED
        BY <2>1, <2>2
<1> HIDE DEF behind, padded, payload
<1>9. r \in 0..Len(stream) /\ sent \in r..Len(stream)
    BY <1>1
<1>10. /\ payload \in Seq(Symbols) /\ Len(payload) = sent - r
       /\ \A i \in 1..(sent - r) : payload[i] = stream[r + i]
    BY <1>1, <1>8, <1>9, PieceIs
<1>11. PICK n \in 0..(sent - r) :
         /\ line = SubSeq(payload, 1, n) /\ Len(line) = n
         /\ n # sent - r => payload[n + 1] = "nl"
         /\ \A i \in 1..n : payload[i] # "nl"
    BY <1>10, LineEnds
<1> DEFINE c == r + n
<1>12. line = SubSeq(stream, r + 1, c) /\ After(payload, n) = SubSeq(stream, c + 1, sent)
    <2> HIDE DEF line
    <2> QED
        BY <1>1, <1>8, <1>9, <1>11, SuffixIs
<1>13. c \in 0..sent /\ r <= c
    BY <1>1, <1>9, <1>11
<1>14. c # sent => stream[c + 1] = "nl"
    <2>1. c # sent => n # sent - r /\ n + 1 \in 1..(sent - r) /\ r + (n + 1) = c + 1
        BY <1>1, <1>9, <1>11
    <2> QED
        BY <1>10, <1>11, <2>1
<1>15. \A i \in (r + 1)..c : stream[i] # "nl"
    <2>1. ASSUME NEW i \in (r + 1)..c PROVE stream[i] # "nl"
        <3>1. i - r \in 1..n /\ i - r \in 1..(sent - r) /\ r + (i - r) = i
            BY <1>9, <1>11, <1>13
        <3> QED
            BY <1>10, <1>11, <3>1
    <2> QED
        BY <2>1
<1>16. Offer(Trim(SubSeq(stream, r + 1, c)), SubSeq(stream, c + 1, sent))
    BY <1>4, <1>11, <1>12
<1> HIDE DEF c, line
<1>17. /\ r = q + 2 \/ r = q + 3
       /\ r = q + 3 => stream[r] = "space"
       /\ r = q + 2 /\ r # sent => stream[r + 1] # "space"
    BY <1>5, <1>8 DEF p
<1> QED
    BY <1>3, <1>5, <1>13, <1>14, <1>15, <1>16, <1>17

-----------------------------------------------------------------------------
(* Nothing is invented.                                                       *)

(* The inductive invariant (usage.rs UsageScanner).                           *)
Genuine == WellFormed(stream) => Faithful /\ NothingInvented

(* Of a buffer that reflects the stream, the usage that counts is that of an  *)
(* object which has ended (usage.rs UsageScanner::consume).                   *)
LEMMA ConsumesReal ==
    ASSUME stream \in Streams, sent \in 0..Len(stream), NEW b \in 0..sent, NEW buffer \in Seq(Symbols),
           Reflects(buffer, stream, b), Consume(buffer), NothingInvented,
           UNCHANGED <<stream, sent>>
    PROVE  NothingInvented' /\ Reflects(pending', stream, b) /\ pending' \in Seq(Symbols)
<1>1. pending' \in {<<>>, buffer}
    BY DEF Consume, Settle
<1>2. <<>> \in Seq(Symbols) /\ b \in 0..Len(stream)
    BY StreamAssumption
<1>3. Reflects(pending', stream, b) /\ pending' \in Seq(Symbols)
    BY <1>1, <1>2, ReflectsNothing
<1>4. Pushed' = Pushed
    BY DEF Pushed
<1>5. usage' = usage \/ (Parse(buffer) = "done" /\ usage' = MergeUsage(usage, ReportIn(buffer)))
    BY DEF Consume, Settle
<1>6. CASE usage' = usage
    BY <1>3, <1>4, <1>6 DEF NothingInvented
<1>7. CASE Parse(buffer) = "done" /\ usage' = MergeUsage(usage, ReportIn(buffer))
    <2>1. Quiet(buffer) \/ Counted(buffer, stream, b)
        BY <1>7 DEF Reflects
    <2>2. CASE Quiet(buffer)
        <3>1. usage' = usage
            BY <1>7, <2>2, ReportInIs DEF MergeUsage
        <3> QED
            BY <1>6, <3>1
    <2>3. CASE Counted(buffer, stream, b)
        <3>1. PICK i \in DOMAIN buffer, e \in Ends[stream] :
                 LastReport(buffer, i) /\ e <= b /\ Reported[stream][e] = Report[buffer[i]]
            BY <2>3 DEF Counted
        <3>2. e \in Ends[stream] \cap 1..sent
            BY <1>2, <3>1, StreamAssumption DEF Ends
        <3>3. e \in DOMAIN Pushed /\ Pushed[e] = Report[buffer[i]]
            BY <3>1, <3>2 DEF Pushed, Restrict
        <3>4. buffer[i] \in DOMAIN Report /\ Report[buffer[i]] # None
            BY <3>1, StreamAssumption DEF LastReport
        <3>5. usage' = usage \/ usage' = TokenUsage(Pushed[e])
            BY <1>7, <3>1, <3>3, ReportInIs DEF MergeUsage
        <3>6. CASE usage' = TokenUsage(Pushed[e])
            BY <1>3, <1>4, <3>3, <3>4, <3>6 DEF NothingInvented
        <3> QED
            BY <1>6, <3>5, <3>6
    <2> QED
        BY <2>1, <2>2, <2>3
<1>8. NothingInvented'
    BY <1>5, <1>6, <1>7
<1> QED
    BY <1>3, <1>8

(* So does offering a candidate, when what remains of the frame begins with a *)
(* marker or outside of the objects (usage.rs UsageScanner::push).            *)
LEMMA OfferReal ==
    ASSUME TypeOK, Faithful, NothingInvented,
           NEW candidate \in Seq(Symbols), NEW c \in Position..sent,
           Offer(candidate, SubSeq(stream, c + 1, sent)),
           Reflects(pending \o candidate, stream, c),
           c # sent => \/ FirstMarker(SubSeq(stream, c + 1, sent)) = 1
                       \/ Depths[stream][c] \notin {"in", "string"}
    PROVE  Faithful' /\ NothingInvented'
<1>1. /\ Position' = c /\ (rest' # <<>> => c # sent) /\ UNCHANGED <<stream, sent>>
      /\ Consume(pending \o candidate) /\ rest' = SubSeq(stream, c + 1, sent)
    BY OfferPlaces DEF Offer
<1>2. stream \in Streams /\ sent \in 0..Len(stream) /\ pending \in Seq(Symbols) /\ c \in 0..sent
    BY RestIs
<1>3. pending \o candidate \in Seq(Symbols)
    BY <1>2, JoinedType
<1>4. NothingInvented' /\ Reflects(pending', stream, c)
    BY <1>1, <1>2, <1>3, ConsumesReal
<1>5. (Reflects(pending, stream, Position))'
    BY <1>1, <1>4
<1>6. (rest # <<>> => FirstMarker(rest) = 1 \/ Depths[stream][Position] \notin {"in", "string"})'
    BY <1>1
<1> QED
    BY <1>1, <1>2, <1>4, <1>5, <1>6 DEF Faithful

(* What precedes the first marker is a piece of the stream (usage.rs          *)
(* Candidates::next, the continuation).                                       *)
LEMMA ContinuationReal ==
    ASSUME TypeOK, WellFormed(stream), Faithful, NothingInvented, OfferContinuation
    PROVE  Faithful' /\ NothingInvented'
<1>1. PICK c \in Position..sent :
         /\ Offer(SubSeq(stream, Position + 1, c), SubSeq(stream, c + 1, sent))
         /\ c # sent => c + 2 \in c..sent /\ stream[c + 1] = "da" /\ stream[c + 2] = "ta:"
    BY ContinuationPlace
<1>2. /\ stream \in Streams /\ stream \in Seq(Symbols) /\ pending \in Seq(Symbols)
      /\ Position \in 0..Len(stream) /\ c \in Position..Len(stream)
      /\ c \in 0..Len(stream) /\ sent \in c..Len(stream)
    BY RestIs
<1>3. SubSeq(stream, Position + 1, c) \in Seq(Symbols)
    BY <1>2, PieceIs
<1>4. Reflects(pending \o SubSeq(stream, Position + 1, c), stream, c)
    BY <1>2, ReflectsPiece DEF Faithful
<1>5. c # sent => FirstMarker(SubSeq(stream, c + 1, sent)) = 1
    BY <1>1, <1>2, MarkerBegins
<1> QED
    BY <1>1, <1>3, <1>4, <1>5, OfferReal

(* The line behind a marker is a piece of the stream, and does not end within *)
(* an object; the marker is reached from the place that the buffer reflects,  *)
(* whatever is skipped (usage.rs Candidates::next, the payload).              *)
LEMMA PayloadReal ==
    ASSUME TypeOK, WellFormed(stream), Faithful, NothingInvented, OfferPayload
    PROVE  Faithful' /\ NothingInvented'
<1> DEFINE s == stream
           a == Position
<1>1. PICK q \in Position..sent, r \in 0..sent, c \in 0..sent :
         /\ r = q + 2 \/ r = q + 3
         /\ r <= c /\ FirstMarker(rest) = q - Position + 1
         /\ stream[q + 1] = "da" /\ stream[q + 2] = "ta:"
         /\ r = q + 3 => stream[r] = "space"
         /\ c # sent => stream[c + 1] = "nl"
         /\ Offer(Trim(SubSeq(stream, r + 1, c)), SubSeq(stream, c + 1, sent))
    BY PayloadPlace
<1>2. /\ s \in Streams /\ s \in Seq(Symbols) /\ Len(s) \in Nat /\ sent \in 0..Len(s)
      /\ pending \in Seq(Symbols) /\ a \in 0..sent /\ a \in 0..Len(s) /\ a \in Nat
    BY RestIs
<1>3. q \in a..sent /\ c \in a..sent /\ FirstMarker(rest) = q - a + 1
    BY <1>1, <1>2
<1>4. pending = <<>> \/ FirstMarker(rest) = 1 \/ Depths[s][a] \notin {"in", "string"}
    BY DEF Faithful, OfferPayload, Continues
<1>5. Reflects(pending, s, a)
    BY DEF Faithful
<1> HIDE DEF a
<1>6. /\ q \in 0..Len(s) /\ q \in a..Len(s) /\ q \in Nat /\ r \in q..Len(s) /\ r \in 0..Len(s)
      /\ c \in r..Len(s) /\ c \in 0..Len(s) /\ (FirstMarker(rest) = 1 => q = a)
    BY <1>1, <1>2, <1>3
<1>7. Reflects(pending, s, q)
    BY <1>2, <1>4, <1>5, <1>6, ReflectsNothing, ReflectsAcross
<1>8. Reflects(pending, s, r)
    <2>1. ASSUME NEW k \in q..(r - 1), Reflects(pending, s, k) PROVE Reflects(pending, s, k + 1)
        <3>1. k = q \/ k = q + 1 \/ (k = q + 2 /\ r = q + 3)
            BY <1>1, <1>6
        <3>2. k \in 0..(Len(s) - 1) /\ q + 1 + 1 = q + 2 /\ q + 2 + 1 = q + 3
            BY <1>2, <1>6
        <3>3. s[k + 1] \in Spaces \cup {"da", "ta:"}
            BY <1>1, <3>1, <3>2 DEF Spaces
        <3> QED
            BY <1>2, <2>1, <3>2, <3>3, ReflectsBlank
    <2>2. q \in q..(r - 1) /\ q + 1 \in q..(r - 1) /\ (r = q + 3 => q + 2 \in q..(r - 1))
        BY <1>1, <1>6
    <2>3. q + 1 + 1 = q + 2 /\ q + 2 + 1 = q + 3
        BY <1>6
    <2>4. Reflects(pending, s, q + 1)
        BY <1>7, <2>1, <2>2
    <2>5. Reflects(pending, s, q + 2)
        BY <2>1, <2>2, <2>3, <2>4
    <2> QED
        BY <1>1, <2>1, <2>2, <2>3, <2>5
<1>9. Reflects(pending \o Trim(SubSeq(s, r + 1, c)), s, c)
    BY <1>2, <1>6, <1>8, ReflectsPiece
<1>10. SubSeq(s, r + 1, c) \in Seq(Symbols)
    BY <1>2, <1>6, PieceIs
<1>11. Trim(SubSeq(s, r + 1, c)) \in Seq(Symbols)
    BY <1>10, TrimType
<1>12. c # sent => Depths[s][c] \notin {"in", "string"}
    <2>1. c # sent => c \in 0..(Len(s) - 1) /\ q + 2 <= c
        BY <1>1, <1>2, <1>6
    <2> QED
        BY <1>1, <1>2, <1>6, <2>1, LineEndsOutside
<1> QED
    BY <1>1, <1>3, <1>9, <1>11, <1>12, OfferReal DEF a

(* So is a frame without a marker (usage.rs Candidates::next, the plain       *)
(* body).                                                                     *)
LEMMA PlainReal ==
    ASSUME TypeOK, WellFormed(stream), Faithful, NothingInvented, OfferPlain
    PROVE  Faithful' /\ NothingInvented'
<1> DEFINE candidate == Trim(SubSeq(stream, Position + 1, sent))
<1>1. /\ stream \in Streams /\ stream \in Seq(Symbols) /\ pending \in Seq(Symbols) /\ rest \in Seq(Symbols)
      /\ Position \in 0..Len(stream) /\ sent \in Position..Len(stream) /\ sent \in Position..sent
      /\ rest = SubSeq(stream, Position + 1, sent) /\ SubSeq(stream, sent + 1, sent) = <<>>
    BY RestIs
<1>2. Offer(candidate, SubSeq(stream, sent + 1, sent))
    BY <1>1 DEF OfferPlain
<1>3. candidate \in Seq(Symbols)
    BY <1>1, TrimType
<1>4. Reflects(pending \o candidate, stream, sent)
    BY <1>1, ReflectsPiece DEF Faithful
<1> HIDE DEF candidate
<1> QED
    BY <1>1, <1>2, <1>3, <1>4, OfferReal

(* The next frame begins where the last one ended (usage.rs                   *)
(* UsageScanner::push).                                                       *)
LEMMA PushReal ==
    ASSUME TypeOK, WellFormed(stream), Faithful, NothingInvented, Push
    PROVE  Faithful' /\ NothingInvented'
<1>1. /\ stream \in Streams /\ stream \in Seq(Symbols) /\ sent \in 0..Len(stream)
      /\ Len(stream) \in Nat
    BY StreamAssumption DEF TypeOK
<1>2. PICK size \in 1..(Len(stream) - sent) :
         sent' = sent + size /\ rest' = SubSeq(stream, sent + 1, sent + size)
    BY DEF Push
<1>3. rest = <<>> /\ open' = (pending # <<>>) /\ UNCHANGED <<stream, pending, usage>>
    BY DEF Push
<1>4. Position = sent
    BY <1>1, <1>3 DEF Position
<1>5. sent + size \in sent..Len(stream) /\ sent \in 0..(sent + size) /\ (sent + size) - size = sent
    BY <1>1, <1>2
<1>6. Len(rest') = (sent + size) - sent
    BY <1>1, <1>2, <1>5, PieceIs
<1>7. Position' = sent
    BY <1>1, <1>2, <1>5, <1>6 DEF Position
<1>8. Faithful'
    <2>1. Position' \in 0..sent'
        BY <1>2, <1>5, <1>7
    <2>2. rest' = SubSeq(stream', Position' + 1, sent')
        BY <1>2, <1>3, <1>7
    <2>3. (Reflects(pending, stream, Position))'
        BY <1>3, <1>4, <1>7 DEF Faithful
    <2>4. open' \/ pending' = <<>>
        BY <1>3
    <2> QED
        BY <2>1, <2>2, <2>3, <2>4 DEF Faithful
<1>9. NothingInvented'
    <2>1. CASE usage = None
        BY <1>3, <2>1 DEF NothingInvented
    <2>2. CASE usage # None
        <3>1. PICK i \in DOMAIN Pushed : Pushed[i] # None /\ usage = TokenUsage(Pushed[i])
            BY <2>2 DEF NothingInvented
        <3>2. i \in DOMAIN Pushed' /\ Pushed'[i] = Pushed[i]
            <4>1. 1..sent \subseteq 1..(sent + size)
                BY <1>1, <1>2
            <4>2. /\ DOMAIN Pushed = Ends[stream] \cap 1..sent
                  /\ DOMAIN Pushed' = Ends[stream] \cap 1..(sent + size)
                BY <1>2, <1>3 DEF Pushed, Restrict
            <4>3. i \in DOMAIN Pushed'
                BY <3>1, <4>1, <4>2
            <4>4. Pushed[i] = Reported[stream][i] /\ Pushed'[i] = Reported[stream][i]
                BY <1>2, <1>3, <3>1, <4>2, <4>3 DEF Pushed, Restrict
            <4> QED
                BY <4>3, <4>4
        <3> QED
            BY <1>3, <3>1, <3>2 DEF NothingInvented
    <2> QED
        BY <2>1, <2>2
<1> QED
    BY <1>8, <1>9

(* The buffer always reflects the stream (usage.rs UsageScanner::push).       *)
LEMMA AlwaysGenuine == Spec => []Genuine
<1>1. Init => Genuine
    <2> SUFFICES ASSUME Init PROVE Faithful /\ NothingInvented
        BY DEF Genuine
    <2>1. stream \in Streams /\ Len(stream) \in Nat
        BY StreamAssumption DEF Init
    <2>2. Position = 0 /\ 0 \in 0..0 /\ 0 \in 0..Len(stream) /\ SubSeq(stream, 1, 0) = <<>>
        <3>1. Len(rest) = 0 /\ sent = 0 /\ stream \in Seq(Symbols)
            BY StreamAssumption DEF Init
        <3> QED
            BY <2>1, <3>1 DEF Position
    <2>3. Reflects(<<>>, stream, 0)
        BY <2>1, <2>2, ReflectsNothing
    <2> QED
        BY <2>2, <2>3 DEF Init, Faithful, NothingInvented
<1>2. TypeOK /\ Genuine /\ [Next]_vars => Genuine'
    <2> SUFFICES ASSUME TypeOK, Genuine, [Next]_vars, WellFormed(stream)'
                 PROVE  Faithful' /\ NothingInvented'
        BY DEF Genuine
    <2>1. stream' = stream
        BY DEF Next, Push, Scan, OfferContinuation, OfferPayload, OfferPlain, Offer, vars
    <2>2. WellFormed(stream) /\ Faithful /\ NothingInvented
        BY <2>1 DEF Genuine
    <2>3. CASE Push
        BY <2>2, <2>3, PushReal
    <2>4. CASE OfferContinuation
        BY <2>2, <2>4, ContinuationReal
    <2>5. CASE OfferPayload
        BY <2>2, <2>5, PayloadReal
    <2>6. CASE OfferPlain
        BY <2>2, <2>6, PlainReal
    <2>7. CASE UNCHANGED vars
        BY <2>2, <2>7 DEF vars, Faithful, NothingInvented, Position, Pushed
    <2> QED
        BY <2>3, <2>4, <2>5, <2>6, <2>7 DEF Next, Scan
<1> QED
    BY <1>1, <1>2, TypeCorrect, PTL DEF Spec

(* However the frames of an event stream or of a plain answer are cut, and    *)
(* whatever is dropped of it, no usage is invented: it is always one that an  *)
(* object reports which has arrived in full (usage.rs UsageScanner::push,     *)
(* consume).                                                                  *)
THEOREM NoneInvented == Spec => [](WellFormed(stream) => NothingInvented)
<1>1. Genuine => (WellFormed(stream) => NothingInvented)
    BY DEF Genuine
<1> QED
    BY <1>1, AlwaysGenuine, PTL

-----------------------------------------------------------------------------
(* The places of a stream.                                                    *)

(* No object begins between a and c.                                          *)
Calm(s, a, c) == \A k \in a..(c - 1) : ~Within(s, k) => s[k + 1] # "lbrace"

(* What is outside of the objects between a and c is blank.                   *)
Trailing(s, a, c) == \A k \in a..(c - 1) : ~Within(s, k) => s[k + 1] \in Spaces

(* One more symbol of a stream.                                               *)
LEMMA WithinSteps ==
    ASSUME NEW s \in Streams, WellFormed(s), NEW k \in 0..(Len(s) - 1)
    PROVE  /\ ~Within(s, k) => (Within(s, k + 1) <=> s[k + 1] = "lbrace") /\ k + 1 \notin Ends[s]
           /\ ~Within(s, k) /\ s[k + 1] = "lbrace" => Depths[s][k + 1] = "in"
           /\ Within(s, k) => Depths[s][k + 1] = ParseStep(Depths[s][k], s[k + 1])
           /\ Within(s, k) /\ ~Within(s, k + 1) =>
                 /\ s[k + 1] = "rbrace" /\ Depths[s][k] = "in" /\ Depths[s][k + 1] = "done"
                 /\ k + 1 \in Ends[s]
<1> DEFINE x == s[k + 1]
           d == Depths[s][k]
           e == Depths[s][k + 1]
<1>1. /\ k + 1 \in 1..Len(s) /\ x \in Symbols /\ d \in ParseStates /\ e = ScanObject(d, x)
    BY DepthSteps
<1>2. e # "bad"
    <2>1. k + 1 \in 0..Len(s)
        BY <1>1, StreamAssumption
    <2> QED
        BY <2>1 DEF WellFormed
<1>3. (k + 1 \in Ends[s] <=> x = "rbrace" /\ e = "done")
    <2>1. DOMAIN s = 1..Len(s)
        BY StreamAssumption
    <2> QED
        BY <1>1, <2>1 DEF Ends
<1> HIDE DEF x, d, e
<1>4. CASE d \notin {"in", "string"}
    BY <1>1, <1>3, <1>4 DEF ScanObject, Within, x, d, e
<1>5. CASE d \in {"in", "string"}
    <2>1. e = ParseStep(d, x)
        BY <1>1, <1>5 DEF ScanObject
    <2>2. e \notin {"in", "string"} => d = "in" /\ x = "rbrace" /\ e = "done"
        BY <1>2, <1>5, <2>1 DEF ParseStep
    <2> QED
        BY <1>3, <1>5, <2>1, <2>2 DEF Within, x, d, e
<1> QED
    BY <1>4, <1>5

(* An end is that of an object.                                               *)
LEMMA EndIs ==
    ASSUME NEW s \in Streams, WellFormed(s), NEW n \in Ends[s]
    PROVE  /\ n \in 1..Len(s) /\ n \in Nat /\ n - 1 \in 0..(Len(s) - 1) /\ n \in 0..Len(s)
           /\ s[n] = "rbrace" /\ Within(s, n - 1) /\ ~Within(s, n)
<1>1. n \in 1..Len(s) /\ s[n] = "rbrace" /\ Depths[s][n] = "done" /\ Len(s) \in Nat
    BY StreamAssumption DEF Ends
<1>2. n - 1 \in 0..(Len(s) - 1) /\ (n - 1) + 1 = n /\ n \in 0..Len(s)
    BY <1>1
<1>3. Within(s, n - 1)
    BY <1>2, WithinSteps
<1> QED
    BY <1>1, <1>2, <1>3 DEF Within

(* Behind a place that is outside of the objects only the beginning of an     *)
(* object leads into one.                                                     *)
LEMMA CalmGap ==
    ASSUME NEW s \in Streams, WellFormed(s), NEW a \in 0..Len(s), NEW c \in a..Len(s),
           ~Within(s, a), Calm(s, a, c)
    PROVE  \A n \in a..c : ~Within(s, n) /\ (n # a => n \notin Ends[s])
<1> DEFINE P == {k \in 0..(c - a) : ~Within(s, a + k)}
<1>1. c - a \in Nat /\ Len(s) \in Nat /\ a + 0 = a
    BY StreamAssumption
<1>2. 0 \in P
    BY <1>1
<1>3. ASSUME NEW k \in 0..((c - a) - 1), k \in P PROVE k + 1 \in P
    <2>1. /\ a + k \in a..(c - 1) /\ a + k \in 0..(Len(s) - 1) /\ a + (k + 1) = (a + k) + 1
          /\ k + 1 \in 0..(c - a)
        BY <1>1
    <2>2. ~Within(s, a + k) /\ s[(a + k) + 1] # "lbrace"
        BY <1>3, <2>1 DEF Calm
    <2>3. ~Within(s, (a + k) + 1)
        BY <2>1, <2>2, WithinSteps
    <2> QED
        BY <2>1, <2>3
<1>4. \A k \in 0..(c - a) : k \in P
    <2> HIDE DEF P
    <2> QED
        BY <1>1, <1>2, <1>3, IntervalInduction
<1>5. \A n \in a..c : ~Within(s, n)
    <2>1. ASSUME NEW n \in a..c PROVE ~Within(s, n)
        <3>1. n - a \in 0..(c - a) /\ a + (n - a) = n
            BY <1>1
        <3> HIDE DEF P
        <3>2. n - a \in P
            BY <1>4, <3>1
        <3> QED
            BY <3>1, <3>2 DEF P
    <2> QED
        BY <2>1
<1>6. \A n \in a..c : n # a => n \notin Ends[s]
    <2>1. ASSUME NEW n \in a..c, n # a, n \in Ends[s] PROVE FALSE
        <3>1. n - 1 \in a..c
            BY <1>1, <2>1
        <3> QED
            BY <1>5, <2>1, <3>1, EndIs
    <2> QED
        BY <2>1
<1> QED
    BY <1>5, <1>6

(* From within an object to the outside there is the end of that object.      *)
LEMMA NextEnd ==
    ASSUME NEW s \in Streams, WellFormed(s), NEW a \in 0..Len(s), NEW c \in a..Len(s),
           Within(s, a), ~Within(s, c)
    PROVE  \E e \in Ends[s] : a < e /\ e <= c /\ \A l \in a..(e - 1) : Within(s, l)
<1> DEFINE out == {n \in a..c : ~Within(s, n)}
<1>1. out \in SUBSET Nat /\ c \in out /\ Len(s) \in Nat
    BY StreamAssumption
<1>2. PICK e \in out : \A n \in out : e <= n
    <2> HIDE DEF out
    <2> QED
        BY <1>1, LeastElement
<1>3. /\ e \in a..c /\ e # a /\ e - 1 \in a..c /\ e - 1 \in 0..(Len(s) - 1) /\ (e - 1) + 1 = e
    BY <1>1, <1>2
<1>4. \A l \in a..(e - 1) : Within(s, l)
    <2>1. ASSUME NEW l \in a..(e - 1), ~Within(s, l) PROVE FALSE
        <3>1. l \in out /\ ~(e <= l)
            BY <1>1, <1>3, <2>1
        <3> QED
            BY <1>2, <3>1
    <2> QED
        BY <2>1
<1>5. Within(s, e - 1) /\ ~Within(s, e)
    <2>1. e - 1 \in a..(e - 1)
        BY <1>1, <1>3
    <2> QED
        BY <1>2, <1>4, <2>1
<1>6. e \in Ends[s]
    BY <1>3, <1>5, WithinSteps
<1> QED
    BY <1>1, <1>3, <1>4, <1>6

(* What is left of an object has one end, and nothing but that one ends       *)
(* before another object begins.                                              *)
LEMMA CalmEnds ==
    ASSUME NEW s \in Streams, WellFormed(s), NEW a \in 0..Len(s), NEW c \in a..Len(s),
           Calm(s, a, c), NEW e \in Ends[s], a < e, \A l \in a..(e - 1) : Within(s, l)
    PROVE  /\ \A n \in Ends[s] : a < n /\ n <= c => n = e
           /\ e <= c => \A n \in e..c : ~Within(s, n)
<1>1. /\ e \in 1..Len(s) /\ e \in Nat /\ e \in 0..Len(s) /\ ~Within(s, e) /\ Len(s) \in Nat
    BY EndIs, StreamAssumption
<1>2. e <= c => \A n \in e..c : ~Within(s, n) /\ (n # e => n \notin Ends[s])
    <2>1. ASSUME e <= c PROVE c \in e..Len(s) /\ Calm(s, e, c)
        <3>1. \A k \in e..(c - 1) : k \in a..(c - 1)
            BY <1>1
        <3>2. c \in e..Len(s)
            BY <1>1, <2>1
        <3> QED
            BY <3>1, <3>2 DEF Calm
    <2> QED
        BY <1>1, <2>1, CalmGap
<1>3. ASSUME NEW n \in Ends[s], a < n, n <= c, n # e PROVE FALSE
    <2>1. n \in Nat /\ ~Within(s, n)
        BY EndIs
    <2>2. CASE n < e
        <3>1. n \in a..(e - 1)
            BY <1>1, <1>3, <2>1, <2>2
        <3> QED
            BY <2>1, <3>1
    <2>3. CASE e < n
        <3>1. e <= c /\ n \in e..c
            BY <1>1, <1>3, <2>1, <2>3
        <3> QED
            BY <1>2, <1>3, <3>1
    <2> QED
        BY <1>1, <1>3, <2>1, <2>2, <2>3
<1> QED
    BY <1>2, <1>3

(* No object begins where only blanks are outside.                            *)
LEMMA TrailingCalm ==
    ASSUME NEW s, NEW a, NEW c, Trailing(s, a, c)
    PROVE  Calm(s, a, c)
BY DEF Trailing, Calm, Spaces

(* What is outside of the objects of an event stream.                         *)
LEMMA OutsideIs ==
    ASSUME NEW s \in Streams, WellFormed(s), EventStream(s), NEW k \in 0..(Len(s) - 1),
           ~Within(s, k)
    PROVE  /\ s[k + 1] \in Spaces \cup {"da", "ta:", "word", "lbrace"}
           /\ s[k + 1] = "da" => /\ k + 2 \in 1..Len(s) /\ s[k + 2] = "ta:"
                                 /\ k = 0 \/ s[k] = "nl"
           /\ s[k + 1] = "ta:" => k >= 1 /\ s[k] = "da" /\ ~Within(s, k - 1)
           /\ s[k + 1] = "lbrace" =>
                 \/ k >= 1 /\ s[k] = "ta:" /\ ~Within(s, k - 1)
                 \/ /\ k >= 2 /\ s[k] = "space" /\ s[k - 1] = "ta:"
                    /\ ~Within(s, k - 1) /\ ~Within(s, k - 2)
<1>1. Len(s) \in Nat /\ DOMAIN s = 1..Len(s) /\ k + 1 \in DOMAIN s /\ (k + 1) - 1 = k
    BY StreamAssumption
<1>2. /\ s[k + 1] \in Spaces \cup {"da", "ta:", "word", "lbrace"}
      /\ s[k + 1] = "da" =>
            k + 1 < Len(s) /\ s[(k + 1) + 1] = "ta:" /\ (k + 1 = 1 \/ s[(k + 1) - 1] = "nl")
      /\ s[k + 1] = "ta:" => k + 1 > 1 /\ s[(k + 1) - 1] = "da"
      /\ s[k + 1] = "lbrace" =>
            \/ k + 1 > 1 /\ s[(k + 1) - 1] = "ta:"
            \/ k + 1 > 2 /\ s[(k + 1) - 1] = "space" /\ s[(k + 1) - 2] = "ta:"
    BY <1>1 DEF EventStream
<1>3. \A n \in 1..k : ~Within(s, n) /\ s[n] # "rbrace" => ~Within(s, n - 1)
    <2>1. ASSUME NEW n \in 1..k, ~Within(s, n), s[n] # "rbrace", Within(s, n - 1) PROVE FALSE
        <3>1. n - 1 \in 0..(Len(s) - 1) /\ (n - 1) + 1 = n
            BY <1>1
        <3> QED
            BY <2>1, <3>1, WithinSteps
    <2> QED
        BY <2>1
<1>4. (k + 1) + 1 = k + 2 /\ (k + 1) - 2 = k - 1 /\ (k - 1) - 1 = k - 2
    BY <1>1
<1>5. k + 1 < Len(s) => k + 2 \in 1..Len(s)
    BY <1>1
<1>6. (k + 1 > 1 => k >= 1 /\ k \in 1..k) /\ (k + 1 > 2 => k >= 2 /\ k \in 1..k /\ k - 1 \in 1..k)
    BY <1>1
<1>7. k + 1 = 1 => k = 0
    BY <1>1
<1>8. s[k + 1] = "ta:" => k >= 1 /\ s[k] = "da" /\ ~Within(s, k - 1)
    BY <1>1, <1>2, <1>3, <1>6
<1>9. ASSUME s[k + 1] = "lbrace"
      PROVE  \/ k >= 1 /\ s[k] = "ta:" /\ ~Within(s, k - 1)
             \/ /\ k >= 2 /\ s[k] = "space" /\ s[k - 1] = "ta:"
                /\ ~Within(s, k - 1) /\ ~Within(s, k - 2)
    <2>1. CASE k + 1 > 1 /\ s[k] = "ta:"
        BY <1>1, <1>3, <1>6, <2>1
    <2>2. CASE k + 1 > 2 /\ s[k] = "space" /\ s[k - 1] = "ta:"
        <3>1. ~Within(s, k - 1)
            BY <1>3, <1>6, <2>2
        <3>2. ~Within(s, k - 2)
            BY <1>3, <1>4, <1>6, <2>2, <3>1
        <3> QED
            BY <1>6, <2>2, <3>1, <3>2
    <2> QED
        BY <1>1, <1>2, <1>4, <1>9, <2>1, <2>2
<1> QED
    BY <1>1, <1>2, <1>4, <1>5, <1>7, <1>8, <1>9

(* An object begins right behind a marker that begins its line.               *)
LEMMA BeginsBehindMarker ==
    ASSUME NEW s \in Streams, WellFormed(s), EventStream(s), NEW k \in 0..(Len(s) - 1),
           ~Within(s, k), s[k + 1] = "lbrace"
    PROVE  \E q \in 0..k :
              /\ s[q + 1] = "da" /\ s[q + 2] = "ta:"
              /\ k = q + 2 \/ (k = q + 3 /\ s[q + 3] = "space")
              /\ \A n \in q..k : ~Within(s, n)
              /\ q = 0 \/ s[q] = "nl"
<1>1. Len(s) \in Nat /\ k \in Nat
    BY StreamAssumption
<1>2. ASSUME NEW n \in 1..k, s[n] = "ta:", ~Within(s, n - 1)
      PROVE  /\ n >= 2 /\ n - 2 \in 0..k /\ s[(n - 2) + 1] = "da" /\ s[(n - 2) + 2] = "ta:"
             /\ ~Within(s, n - 2) /\ (n - 2 = 0 \/ s[n - 2] = "nl")
    <2>1. n - 1 \in 0..(Len(s) - 1) /\ (n - 1) + 1 = n /\ (n - 1) - 1 = n - 2
        BY <1>1
    <2>2. n - 1 >= 1 /\ s[n - 1] = "da" /\ ~Within(s, n - 2)
        BY <1>2, <2>1, OutsideIs
    <2>3. n - 2 \in 0..(Len(s) - 1) /\ (n - 2) + 1 = n - 1 /\ (n - 2) + 2 = n /\ n >= 2 /\ n - 2 \in 0..k
        BY <1>1, <2>2
    <2>4. n - 2 = 0 \/ s[n - 2] = "nl"
        BY <2>2, <2>3, OutsideIs
    <2> QED
        BY <1>2, <2>2, <2>3, <2>4
<1>3. CASE k >= 1 /\ s[k] = "ta:" /\ ~Within(s, k - 1)
    <2> DEFINE q == k - 2
    <2>1. k \in 1..k
        BY <1>1, <1>3
    <2>2. k >= 2 /\ q \in 0..k /\ s[q + 1] = "da" /\ s[q + 2] = "ta:" /\ ~Within(s, q) /\ (q = 0 \/ s[q] = "nl")
        BY <1>2, <1>3, <2>1
    <2>3. k = q + 2 /\ \A n \in q..k : n = q \/ n = k - 1 \/ n = k
        BY <1>1
    <2>4. \A n \in q..k : ~Within(s, n)
        BY <1>3, <2>2, <2>3
    <2> HIDE DEF q
    <2> QED
        BY <2>2, <2>3, <2>4
<1>4. CASE k >= 2 /\ s[k] = "space" /\ s[k - 1] = "ta:" /\ ~Within(s, k - 1) /\ ~Within(s, k - 2)
    <2> DEFINE q == k - 3
    <2>1. k - 1 \in 1..k /\ (k - 1) - 2 = q /\ (k - 1) - 1 = k - 2
        BY <1>1, <1>4
    <2>2. k - 1 >= 2 /\ q \in 0..k /\ s[q + 1] = "da" /\ s[q + 2] = "ta:" /\ ~Within(s, q) /\ (q = 0 \/ s[q] = "nl")
        BY <1>2, <1>4, <2>1
    <2>3. k = q + 3 /\ \A n \in q..k : n = q \/ n = k - 2 \/ n = k - 1 \/ n = k
        BY <1>1
    <2>4. \A n \in q..k : ~Within(s, n)
        BY <1>4, <2>2, <2>3
    <2> HIDE DEF q
    <2> QED
        BY <1>4, <2>2, <2>3, <2>4
<1> QED
    BY <1>3, <1>4, OutsideIs

(* Where there is no marker, no object begins, unless a marker was cut.       *)
LEMMA CalmBeforeMarker ==
    ASSUME stream \in Streams, WellFormed(stream), EventStream(stream),
           NEW a \in 0..Len(stream), NEW c \in a..Len(stream), Unmarked(stream, a, c),
           Within(stream, a) \/ ~TearsMarker(a) \/ stream[a + 1] = "nl"
    PROVE  Calm(stream, a, c)
<1> DEFINE s == stream
<1>1. Len(s) \in Nat /\ DOMAIN s = 1..Len(s)
    BY StreamAssumption
<1>2. SUFFICES ASSUME NEW k \in a..(c - 1), ~Within(s, k), s[k + 1] = "lbrace" PROVE FALSE
    BY DEF Calm
<1>3. k \in 0..(Len(s) - 1) /\ k \in Nat
    BY <1>1
<1> HIDE DEF s
<1>4. PICK q \in 0..k : /\ s[q + 1] = "da" /\ s[q + 2] = "ta:"
                        /\ k = q + 2 \/ (k = q + 3 /\ s[q + 3] = "space")
                        /\ \A n \in q..k : ~Within(s, n)
    BY <1>2, <1>3, BeginsBehindMarker DEF s
<1>5. CASE q >= a
    <2>1. q + 1 \in (a + 1)..(c - 1) /\ (q + 1) + 1 = q + 2
        BY <1>1, <1>3, <1>4, <1>5
    <2> QED
        BY <1>4, <2>1 DEF Unmarked, s
<1>6. CASE ~(q >= a)
    <2>1. a \in q..k /\ a \in DOMAIN s /\ a \in Nat
        BY <1>1, <1>3, <1>4, <1>6
    <2>2. ~Within(s, a)
        BY <1>4, <2>1
    <2>3. \/ a = q + 1
          \/ a = q + 2
          \/ a = q + 3 /\ k = q + 3
        BY <1>1, <1>3, <1>4, <1>6, <2>1
    <2>4. TearsMarker(a)
        <3>1. a = q + 3 => a > 1 /\ a - 1 = q + 2
            BY <1>4, <2>1
        <3> QED
            BY <1>4, <2>1, <2>2, <2>3, <3>1 DEF TearsMarker, Inside, s
    <2>5. s[a + 1] # "nl"
        <3>1. (a = q + 1 => a + 1 = q + 2) /\ (a = q + 2 => a + 1 = q + 3)
              /\ (a = k => a + 1 = k + 1)
            BY <1>4, <2>1
        <3> QED
            BY <1>2, <1>4, <2>3, <3>1
    <2> QED
        BY <2>2, <2>4, <2>5 DEF s
<1> QED
    BY <1>5, <1>6

(* Nor is anything but blanks behind the object which a frame continues.      *)
LEMMA TrailingBeforeMarker ==
    ASSUME stream \in Streams, WellFormed(stream), EventStream(stream),
           NEW a \in 0..Len(stream), NEW c \in a..Len(stream), Unmarked(stream, a, c),
           Within(stream, a), ~ForeignLine(a, c), ~TearsMarker(c) \/ stream[c + 1] = "da"
    PROVE  Trailing(stream, a, c)
<1> DEFINE s == stream
           bad == {k \in a..(c - 1) : ~Within(s, k) /\ s[k + 1] \notin Spaces}
<1>1. Len(s) \in Nat /\ DOMAIN s = 1..Len(s) /\ bad \in SUBSET Nat
    BY StreamAssumption
<1>2. SUFFICES ASSUME bad # {} PROVE FALSE
    BY DEF Trailing
<1>3. PICK k \in bad : \A n \in bad : k <= n
    <2> HIDE DEF bad
    <2> QED
        BY <1>1, <1>2, LeastElement
<1>4. k \in a..(c - 1) /\ ~Within(s, k) /\ s[k + 1] \notin Spaces /\ k \in Nat /\ k # a
    BY <1>1, <1>3
<1>5. ASSUME NEW n \in (a + 1)..k, ~Within(s, n - 1) PROVE s[n] \in Spaces
    <2>1. n - 1 \in a..(c - 1) /\ (n - 1) + 1 = n /\ ~(k <= n - 1)
        BY <1>1, <1>4
    <2> QED
        BY <1>3, <1>5, <2>1
<1> HIDE DEF s, bad
<1>6. k \in 0..(Len(s) - 1) /\ k + 1 \in DOMAIN s /\ k + 1 \in 0..Len(s)
    BY <1>1, <1>4 DEF s
<1>7. /\ s[k + 1] \in Spaces \cup {"da", "ta:", "word", "lbrace"}
      /\ s[k + 1] = "da" => k + 2 \in 1..Len(s) /\ s[k + 2] = "ta:"
      /\ s[k + 1] = "ta:" => k >= 1 /\ s[k] = "da" /\ ~Within(s, k - 1)
      /\ s[k + 1] = "lbrace" =>
            \/ k >= 1 /\ s[k] = "ta:" /\ ~Within(s, k - 1)
            \/ /\ k >= 2 /\ s[k] = "space" /\ s[k - 1] = "ta:"
               /\ ~Within(s, k - 1) /\ ~Within(s, k - 2)
    BY <1>4, <1>6, OutsideIs DEF s
<1>8. ~Within(s, k - 1) => s[k] \in Spaces
    <2>1. k \in (a + 1)..k
        BY <1>1, <1>4
    <2> QED
        BY <1>5, <2>1
<1>9. ~Within(s, k - 1) /\ ~Within(s, k - 2) => s[k - 1] \in Spaces
    <2>1. ASSUME ~Within(s, k - 1) PROVE k - 1 \in (a + 1)..k /\ (k - 1) - 1 = k - 2
        <3>1. k - 1 # a
            BY <2>1 DEF s
        <3> QED
            BY <1>1, <1>4, <3>1
    <2> QED
        BY <1>5, <2>1
<1>10. CASE s[k + 1] \in {"ta:", "lbrace"}
    BY <1>7, <1>8, <1>9, <1>10 DEF Spaces
<1>11. s[k + 1] # "lbrace" => ~Within(s, k + 1)
    BY <1>4, <1>6, WithinSteps DEF s
<1>12. CASE s[k + 1] = "da"
    <2>1. CASE k + 1 = c
        <3>1. TearsMarker(c)
            BY <1>6, <1>11, <1>12, <2>1 DEF TearsMarker, Inside, s
        <3>2. c + 1 = k + 2
            BY <1>4, <2>1
        <3> QED
            BY <1>7, <1>12, <3>1, <3>2 DEF s
    <2>2. CASE k + 1 # c
        <3>1. k + 1 \in (a + 1)..(c - 1) /\ (k + 1) + 1 = k + 2
            BY <1>1, <1>4, <2>2
        <3> QED
            BY <1>7, <1>12, <3>1 DEF Unmarked, s
    <2> QED
        BY <2>1, <2>2
<1>13. CASE s[k + 1] = "word"
    <2>1. k + 1 \in (a + 1)..c
        BY <1>1, <1>4
    <2>2. ASSUME NEW j \in (a + 1)..(k + 1), s[j] = "ta:", ~Within(s, j) PROVE FALSE
        <3>1. j # k + 1
            BY <1>13, <2>2
        <3>2. j \in (a + 1)..k /\ j - 1 \in 0..(Len(s) - 1) /\ (j - 1) + 1 = j
            BY <1>1, <1>4, <3>1 DEF s
        <3>3. ~Within(s, j - 1)
            BY <2>2, <3>2, WithinSteps DEF s
        <3> QED
            BY <1>5, <2>2, <3>2, <3>3 DEF Spaces
    <2>3. ForeignLine(a, c)
        BY <1>11, <1>13, <2>1, <2>2 DEF ForeignLine, Inside, s
    <2> QED
        BY <2>3
<1> QED
    BY <1>4, <1>7, <1>10, <1>12, <1>13

(* In the line behind a marker an object begins at once, or none does.        *)
LEMMA LineBegins ==
    ASSUME NEW s \in Streams, WellFormed(s), EventStream(s),
           NEW r \in 2..Len(s), NEW c \in r..Len(s), ~Within(s, r),
           s[r] = "ta:" \/ (s[r] = "space" /\ s[r - 1] = "ta:"),
           s[r] = "ta:" /\ r # c => s[r + 1] # "space",
           \A i \in (r + 1)..c : s[i] # "nl"
    PROVE  (r # c /\ s[r + 1] = "lbrace") \/ Calm(s, r, c)
<1>1. Len(s) \in Nat
    BY StreamAssumption
<1>2. ASSUME NEW k \in r..(c - 1), k # r, ~Within(s, k), s[k + 1] = "lbrace" PROVE FALSE
    <2>1. k \in 0..(Len(s) - 1) /\ k \in Nat
        BY <1>1
    <2>2. PICK q \in 0..k : /\ s[q + 1] = "da" /\ s[q + 2] = "ta:"
                            /\ k = q + 2 \/ (k = q + 3 /\ s[q + 3] = "space")
                            /\ q = 0 \/ s[q] = "nl"
        BY <1>2, <2>1, BeginsBehindMarker
    <2>3. q >= r - 2 /\ q <= c
        BY <1>1, <1>2, <2>1, <2>2
    <2>4. CASE q >= r
        <3>1. q # 0 /\ (q = r \/ q \in (r + 1)..c)
            BY <1>1, <2>1, <2>3, <2>4
        <3>2. s[q] = "nl" /\ s[r] # "nl"
            BY <2>2, <3>1
        <3> QED
            BY <3>1, <3>2
    <2>5. CASE q = r - 1
        <3>1. q + 1 = r
            BY <1>1, <2>5
        <3>2. s[r] = "da"
            BY <2>2, <3>1
        <3> QED
            BY <3>2
    <2>6. CASE q = r - 2
        <3>1. q + 2 = r /\ k = q + 3 /\ q + 3 = r + 1 /\ r # c
            BY <1>1, <1>2, <2>1, <2>2, <2>6
        <3>2. s[r] = "ta:" /\ s[r + 1] = "space"
            <4>1. k # q + 2
                BY <1>1, <3>1
            <4>2. s[q + 3] = "space" /\ s[q + 2] = "ta:"
                BY <2>2, <4>1
            <4> QED
                BY <3>1, <4>2
        <3> QED
            BY <3>1, <3>2
    <2> QED
        BY <1>1, <2>1, <2>3, <2>4, <2>5, <2>6
<1>3. ASSUME r = c \/ s[r + 1] # "lbrace" PROVE Calm(s, r, c)
    <2>1. ASSUME NEW k \in r..(c - 1), ~Within(s, k), s[k + 1] = "lbrace" PROVE FALSE
        <3>1. k # r
            BY <1>1, <1>3, <2>1
        <3> QED
            BY <1>2, <2>1, <3>1
    <2> QED
        BY <2>1 DEF Calm
<1> QED
    BY <1>3

(* Nothing follows an object in its line.                                     *)
LEMMA LineTrailing ==
    ASSUME NEW s \in Streams, WellFormed(s), EventStream(s),
           NEW r \in 0..Len(s), NEW c \in r..Len(s), Within(s, r),
           \A i \in (r + 1)..c : s[i] # "nl"
    PROVE  Trailing(s, r, c)
<1>1. Len(s) \in Nat /\ DOMAIN s = 1..Len(s)
    BY StreamAssumption
<1>2. ASSUME NEW k \in r..(c - 1), ~Within(s, k), s[k + 1] \notin Spaces PROVE FALSE
    <2>1. k \in r..Len(s) /\ k + 1 \in DOMAIN s
        BY <1>1
    <2>2. PICK e \in Ends[s] : r < e /\ e <= k
        BY <1>2, <2>1, NextEnd
    <2>3. e \in Nat /\ e < k + 1
        BY <1>1, <2>2, EndIs
    <2>4. PICK i \in (e + 1)..((k + 1) - 1) : s[i] = "nl"
        BY <1>2, <2>1, <2>3 DEF EventStream
    <2>5. i \in (r + 1)..c
        BY <1>1, <2>2, <2>3
    <2> QED
        BY <2>4, <2>5
<1> QED
    BY <1>2 DEF Trailing

(* Nothing follows the object of a plain answer.                              *)
LEMMA PlainTrailing ==
    ASSUME NEW s \in Streams, PlainAnswer(s), NEW a \in 1..Len(s), NEW c \in a..Len(s)
    PROVE  Trailing(s, a, c)
<1>1. Len(s) \in Nat
    BY StreamAssumption
<1>2. ASSUME NEW k \in a..(c - 1), ~Within(s, k) PROVE s[k + 1] \in Spaces
    <2>1. k + 1 \in 2..Len(s) /\ (k + 1) - 1 = k
        BY <1>1
    <2> QED
        BY <1>2, <2>1 DEF PlainAnswer
<1> QED
    BY <1>2 DEF Trailing

-----------------------------------------------------------------------------
(* The buffer while it follows the stream.                                    *)

(* The last report of the buffer is the last one of the stream from the m-th  *)
(* to the k-th symbol.                                                        *)
Latest(buffer, s, m, k) ==
    \/ Quiet(buffer) /\ \A l \in m..k : s[l] \notin DOMAIN Report
    \/ \E i \in DOMAIN buffer, j \in m..k :
          LastReport(buffer, i) /\ buffer[i] = s[j] /\ \A l \in (j + 1)..k : s[l] \notin DOMAIN Report

(* The stream is in the object that begins at m, and the buffer is what has   *)
(* been read of it; or it has ended, and only blanks have followed.           *)
Open(buffer, s, m, k) ==
    Parse(buffer) = Depths[s][k] /\ \A l \in m..k : Within(s, l)

Ended(buffer, s, m, k) ==
    /\ Parse(buffer) = "done" /\ ~Within(s, k)
    /\ \E e \in Ends[s] : /\ m <= e /\ e <= k
                          /\ \A l \in m..(e - 1) : Within(s, l)
                          /\ \A l \in (e + 1)..k : s[l] \in Spaces

Holds(buffer, s, m, k) ==
    /\ m \in 1..k /\ s[m] = "lbrace" /\ ~Within(s, m - 1)
    /\ Len(buffer) <= k - m + 1
    /\ Latest(buffer, s, m, k)
    /\ Open(buffer, s, m, k) \/ Ended(buffer, s, m, k)

(* The last report, when another symbol is appended.                          *)
LEMMA LatestAppend ==
    ASSUME NEW s \in Streams, NEW k \in 0..(Len(s) - 1), NEW m \in 1..(k + 1),
           NEW buffer \in Seq(Symbols), Latest(buffer, s, m, k)
    PROVE  Latest(Append(buffer, s[k + 1]), s, m, k + 1)
<1> DEFINE x == s[k + 1]
           t == Append(buffer, x)
<1>1. x \in Symbols /\ k \in Nat /\ k + 1 \in m..(k + 1)
    <2>1. x \in Symbols /\ Len(s) \in Nat
        BY DepthSteps
    <2> QED
        BY <2>1
<1>2. \A n \in Nat : n <= k + 1 => \A l \in n..(k + 1) : l = k + 1 \/ l \in n..k
    BY <1>1
<1>3. CASE x \in DOMAIN Report
    <2> DEFINE i == Len(buffer) + 1
    <2>1. i \in DOMAIN t /\ LastReport(t, i) /\ t[i] = x
        BY <1>1, <1>3, AppendReports
    <2>2. \A l \in ((k + 1) + 1)..(k + 1) : FALSE
        BY <1>1
    <2> HIDE DEF t, i
    <2>3. Latest(t, s, m, k + 1)
        BY <1>1, <2>1, <2>2 DEF Latest
    <2> QED
        BY <2>3 DEF t
<1>4. CASE x \notin DOMAIN Report /\ Quiet(buffer) /\ \A l \in m..k : s[l] \notin DOMAIN Report
    <2>1. Quiet(t)
        BY <1>1, <1>4, AppendReports
    <2>2. m \in Nat /\ m <= k + 1
        BY <1>1
    <2>3. \A l \in m..(k + 1) : s[l] \notin DOMAIN Report
        BY <1>2, <1>4, <2>2
    <2> HIDE DEF t
    <2>4. Latest(t, s, m, k + 1)
        BY <2>1, <2>3 DEF Latest
    <2> QED
        BY <2>4 DEF t
<1>5. CASE /\ x \notin DOMAIN Report
           /\ \E i \in DOMAIN buffer, j \in m..k :
                 /\ LastReport(buffer, i) /\ buffer[i] = s[j]
                 /\ \A l \in (j + 1)..k : s[l] \notin DOMAIN Report
    <2>1. PICK i \in DOMAIN buffer, j \in m..k :
                 /\ LastReport(buffer, i) /\ buffer[i] = s[j]
                 /\ \A l \in (j + 1)..k : s[l] \notin DOMAIN Report
        BY <1>5
    <2>2. i \in DOMAIN t /\ LastReport(t, i) /\ t[i] = s[j]
        BY <1>1, <1>5, <2>1, AppendReports
    <2>3. j \in m..(k + 1) /\ j + 1 \in Nat /\ j + 1 <= k + 1
        BY <1>1
    <2>4. \A l \in (j + 1)..(k + 1) : s[l] \notin DOMAIN Report
        BY <1>2, <1>5, <2>1, <2>3
    <2> HIDE DEF t
    <2>5. Latest(t, s, m, k + 1)
        BY <2>2, <2>3, <2>4 DEF Latest
    <2> QED
        BY <2>5 DEF t
<1> QED
    BY <1>3, <1>4, <1>5 DEF Latest

(* The same when a symbol without a report is left out.                       *)
LEMMA LatestSkip ==
    ASSUME NEW s \in Streams, NEW k \in 0..(Len(s) - 1), NEW m \in 1..(k + 1),
           NEW buffer \in Seq(Symbols), Latest(buffer, s, m, k), s[k + 1] \notin DOMAIN Report
    PROVE  Latest(buffer, s, m, k + 1)
<1>1. k \in Nat
    BY DepthSteps
<1>2. \A n \in Nat : n <= k + 1 => \A l \in n..(k + 1) : l = k + 1 \/ l \in n..k
    BY <1>1
<1>3. m \in Nat /\ m <= k + 1
    BY <1>1
<1>4. CASE Quiet(buffer) /\ \A l \in m..k : s[l] \notin DOMAIN Report
    <2>1. \A l \in m..(k + 1) : s[l] \notin DOMAIN Report
        BY <1>2, <1>3, <1>4
    <2> QED
        BY <1>4, <2>1 DEF Latest
<1>5. CASE \E i \in DOMAIN buffer, j \in m..k :
              /\ LastReport(buffer, i) /\ buffer[i] = s[j]
              /\ \A l \in (j + 1)..k : s[l] \notin DOMAIN Report
    <2>1. PICK i \in DOMAIN buffer, j \in m..k :
                 /\ LastReport(buffer, i) /\ buffer[i] = s[j]
                 /\ \A l \in (j + 1)..k : s[l] \notin DOMAIN Report
        BY <1>5
    <2>2. j \in m..(k + 1) /\ j + 1 \in Nat /\ j + 1 <= k + 1
        BY <1>1
    <2>3. \A l \in (j + 1)..(k + 1) : s[l] \notin DOMAIN Report
        BY <1>2, <2>1, <2>2
    <2> QED
        BY <2>1, <2>2, <2>3 DEF Latest
<1> QED
    BY <1>4, <1>5 DEF Latest

(* The buffer follows the next symbol of its object, and the blanks behind.   *)
LEMMA HoldsAppend ==
    ASSUME NEW s \in Streams, WellFormed(s), NEW k \in 0..(Len(s) - 1), NEW m,
           NEW buffer \in Seq(Symbols), Holds(buffer, s, m, k),
           ~Within(s, k) => s[k + 1] \in Spaces
    PROVE  Holds(Append(buffer, s[k + 1]), s, m, k + 1)
<1> DEFINE x == s[k + 1]
           t == Append(buffer, x)
<1>1. x \in Symbols /\ k \in Nat /\ Len(s) \in Nat /\ k + 1 \in 1..Len(s)
    <2>1. x \in Symbols /\ Len(s) \in Nat /\ k + 1 \in 1..Len(s)
        BY DepthSteps
    <2> QED
        BY <2>1
<1>2. m \in 1..k /\ m \in 1..(k + 1) /\ m \in Nat
    BY <1>1 DEF Holds
<1>3. Latest(t, s, m, k + 1)
    BY <1>2, LatestAppend DEF Holds
<1>4. Len(t) <= (k + 1) - m + 1
    <2>1. Len(t) = Len(buffer) + 1 /\ Len(buffer) \in Nat /\ Len(buffer) <= k - m + 1
        BY <1>1 DEF Holds
    <2> HIDE DEF t
    <2> QED
        BY <1>1, <1>2, <2>1
<1>5. Parse(t) = ParseStep(Parse(buffer), x)
    BY <1>1, ParseAppend
<1> SUFFICES Holds(t, s, m, k + 1)
    OBVIOUS
<1> HIDE DEF t, x
<1>6. CASE Open(buffer, s, m, k)
    <2>1. Within(s, k) /\ Parse(buffer) = Depths[s][k]
        <3>1. k \in m..k
            BY <1>1, <1>2
        <3> QED
            BY <1>6, <3>1 DEF Open
    <2>2. Parse(t) = Depths[s][k + 1]
        BY <1>5, <2>1, WithinSteps DEF x
    <2>3. CASE Within(s, k + 1)
        <3>1. \A l \in m..(k + 1) : l = k + 1 \/ l \in m..k
            BY <1>1, <1>2
        <3>2. Open(t, s, m, k + 1)
            BY <1>6, <2>2, <2>3, <3>1 DEF Open
        <3> QED
            BY <1>2, <1>3, <1>4, <3>2 DEF Holds
    <2>4. CASE ~Within(s, k + 1)
        <3>1. k + 1 \in Ends[s] /\ Depths[s][k + 1] = "done"
            BY <2>1, <2>4, WithinSteps
        <3>2. /\ m <= k + 1 /\ k + 1 <= k + 1 /\ (k + 1) - 1 = k
              /\ \A l \in ((k + 1) + 1)..(k + 1) : FALSE
            BY <1>1, <1>2
        <3>3. Ended(t, s, m, k + 1)
            BY <1>6, <2>2, <2>4, <3>1, <3>2 DEF Ended, Open
        <3> QED
            BY <1>2, <1>3, <1>4, <3>3 DEF Holds
    <2> QED
        BY <2>3, <2>4
<1>7. CASE Ended(buffer, s, m, k)
    <2>1. PICK e \in Ends[s] : /\ m <= e /\ e <= k
                               /\ \A l \in m..(e - 1) : Within(s, l)
                               /\ \A l \in (e + 1)..k : s[l] \in Spaces
        BY <1>7 DEF Ended
    <2>2. x \in Spaces /\ ~Within(s, k) /\ Parse(buffer) = "done"
        BY <1>7 DEF Ended, x
    <2>3. Parse(t) = "done"
        BY <1>5, <2>2 DEF ParseStep
    <2>4. ~Within(s, k + 1)
        BY <2>2, WithinSteps DEF x, Spaces
    <2>5. e \in Nat /\ e <= k + 1
        BY <1>1, <2>1, EndIs
    <2>6. \A l \in (e + 1)..(k + 1) : s[l] \in Spaces
        <3>1. \A l \in (e + 1)..(k + 1) : l = k + 1 \/ l \in (e + 1)..k
            BY <1>1, <2>5
        <3> QED
            BY <2>1, <2>2, <3>1 DEF x
    <2>7. Ended(t, s, m, k + 1)
        BY <2>1, <2>3, <2>4, <2>5, <2>6 DEF Ended
    <2> QED
        BY <1>2, <1>3, <1>4, <2>7 DEF Holds
<1> QED
    BY <1>6, <1>7 DEF Holds

(* A blank, or half of a marker, that is left out changes nothing.            *)
LEMMA HoldsSkip ==
    ASSUME NEW s \in Streams, WellFormed(s), NEW k \in 0..(Len(s) - 1), NEW m,
           NEW buffer \in Seq(Symbols), Holds(buffer, s, m, k),
           s[k + 1] \in Spaces \cup {"da", "ta:"}, ~Within(s, k) => s[k + 1] \in Spaces
    PROVE  Holds(buffer, s, m, k + 1)
<1> DEFINE x == s[k + 1]
<1>1. k \in Nat /\ Len(s) \in Nat /\ k + 1 \in 1..Len(s) /\ k + 1 \in 0..Len(s)
    <2>1. Len(s) \in Nat /\ k + 1 \in 1..Len(s)
        BY DepthSteps
    <2> QED
        BY <2>1
<1>2. m \in 1..k /\ m \in 1..(k + 1) /\ m \in Nat
    BY <1>1 DEF Holds
<1>3. x \notin DOMAIN Report /\ x \notin {"quote", "rbrace", "lbrace"}
    BY StreamAssumption DEF Syntax, Spaces
<1>4. Latest(buffer, s, m, k + 1)
    BY <1>2, <1>3, LatestSkip DEF Holds
<1>5. Len(buffer) <= (k + 1) - m + 1
    <2>1. Len(buffer) \in Nat /\ Len(buffer) <= k - m + 1
        BY <1>1 DEF Holds
    <2> QED
        BY <1>1, <1>2, <2>1
<1> HIDE DEF x
<1>6. CASE Open(buffer, s, m, k)
    <2>1. Within(s, k) /\ Parse(buffer) = Depths[s][k]
        <3>1. k \in m..k
            BY <1>1, <1>2
        <3> QED
            BY <1>6, <3>1 DEF Open
    <2>2. Depths[s][k + 1] = ParseStep(Depths[s][k], x) /\ Depths[s][k + 1] # "bad"
        BY <1>1, <2>1, WithinSteps DEF WellFormed, x
    <2>3. Depths[s][k + 1] = Depths[s][k]
        BY <1>3, <2>1, <2>2 DEF ParseStep, Within
    <2>4. \A l \in m..(k + 1) : l = k + 1 \/ l \in m..k
        BY <1>1, <1>2
    <2>5. Within(s, k + 1)
        BY <2>1, <2>3 DEF Within
    <2>6. Open(buffer, s, m, k + 1)
        BY <1>6, <2>3, <2>4, <2>5 DEF Open
    <2> QED
        BY <1>2, <1>4, <1>5, <2>6 DEF Holds
<1>7. CASE Ended(buffer, s, m, k)
    <2>1. PICK e \in Ends[s] : /\ m <= e /\ e <= k
                               /\ \A l \in m..(e - 1) : Within(s, l)
                               /\ \A l \in (e + 1)..k : s[l] \in Spaces
        BY <1>7 DEF Ended
    <2>2. x \in Spaces /\ ~Within(s, k) /\ Parse(buffer) = "done"
        BY <1>7 DEF Ended, x
    <2>4. ~Within(s, k + 1)
        BY <2>2, WithinSteps DEF x, Spaces
    <2>5. e \in Nat /\ e <= k + 1
        BY <1>1, <2>1, EndIs
    <2>6. \A l \in (e + 1)..(k + 1) : s[l] \in Spaces
        <3>1. \A l \in (e + 1)..(k + 1) : l = k + 1 \/ l \in (e + 1)..k
            BY <1>1, <2>5
        <3> QED
            BY <2>1, <2>2, <3>1 DEF x
    <2>7. Ended(buffer, s, m, k + 1)
        BY <2>1, <2>2, <2>4, <2>5, <2>6 DEF Ended
    <2> QED
        BY <1>2, <1>4, <1>5, <2>7 DEF Holds
<1> QED
    BY <1>6, <1>7 DEF Holds

(* An object begins with an empty buffer.                                     *)
LEMMA HoldsBegins ==
    ASSUME NEW s \in Streams, WellFormed(s), NEW k \in 0..(Len(s) - 1),
           ~Within(s, k), s[k + 1] = "lbrace"
    PROVE  Holds(Append(<<>>, s[k + 1]), s, k + 1, k + 1)
<1> DEFINE x == s[k + 1]
           t == Append(<<>>, x)
           m == k + 1
<1>1. x \in Symbols /\ k \in Nat /\ <<>> \in Seq(Symbols) /\ m \in 1..m /\ m - 1 = k
      /\ (m - m) + 1 = 1 /\ Len(t) = 1 /\ Len(t) <= 1
    <2>1. x \in Symbols /\ Len(s) \in Nat
        BY DepthSteps
    <2> QED
        BY <2>1
<1>2. Latest(<<>>, s, m, k)
    <2>1. \A l \in m..k : FALSE
        BY <1>1
    <2>2. Quiet(<<>>)
        BY DEF Quiet
    <2> QED
        BY <2>1, <2>2 DEF Latest
<1>3. Latest(t, s, m, k + 1)
    BY <1>1, <1>2, LatestAppend
<1>4. Parse(t) = ParseStep("start", x)
    BY <1>1, ParseAppend, ParseEmpty
<1>5. Parse(t) = "in"
    BY <1>4 DEF ParseStep, Spaces
<1>6. Depths[s][m] = "in" /\ Within(s, m)
    BY WithinSteps DEF Within
<1>7. \A l \in m..m : l = m
    BY <1>1
<1> HIDE DEF t, x, m
<1>8. Open(t, s, m, m)
    BY <1>5, <1>6, <1>7 DEF Open
<1>9. Holds(t, s, m, m)
    BY <1>1, <1>3, <1>8 DEF Holds, x, m
<1> QED
    BY <1>9 DEF t, x, m

(* It follows a piece of the stream.                                          *)
LEMMA HoldsPiece ==
    ASSUME NEW s \in Streams, WellFormed(s), NEW a \in 0..Len(s), NEW b \in a..Len(s), NEW m,
           NEW buffer \in Seq(Symbols), Holds(buffer, s, m, a), Trailing(s, a, b)
    PROVE  /\ Holds(buffer \o SubSeq(s, a + 1, b), s, m, b)
           /\ Holds(buffer \o Trim(SubSeq(s, a + 1, b)), s, m, b)
<1> DEFINE R == {q \in Seq(Symbols) \X (0..Len(s)) : Holds(q[1], s, m, q[2])}
<1>1. s \in Seq(Symbols) /\ Len(s) \in Nat
    BY StreamAssumption
<1>2. \A t, k : <<t, k>> \in R <=> t \in Seq(Symbols) /\ k \in 0..Len(s) /\ Holds(t, s, m, k)
    OBVIOUS
<1> HIDE DEF R
<1>3. <<buffer, a>> \in R
    BY <1>2
<1>4. ASSUME NEW k \in a..(b - 1), NEW t \in Seq(Symbols), <<t, k>> \in R
      PROVE  <<Append(t, s[k + 1]), k + 1>> \in R
    <2>1. k \in 0..(Len(s) - 1) /\ k + 1 \in 0..Len(s)
        BY <1>1
    <2>2. ~Within(s, k) => s[k + 1] \in Spaces
        BY DEF Trailing
    <2>3. Holds(Append(t, s[k + 1]), s, m, k + 1)
        BY <1>2, <1>4, <2>1, <2>2, HoldsAppend
    <2>4. Append(t, s[k + 1]) \in Seq(Symbols)
        <3>1. s[k + 1] \in Symbols
            BY <2>1, DepthSteps
        <3> QED
            BY <3>1
    <2> QED
        BY <1>2, <2>1, <2>3, <2>4
<1>5. ASSUME NEW k \in a..(b - 1), NEW t \in Seq(Symbols), <<t, k>> \in R, s[k + 1] \in Spaces
      PROVE  <<t, k + 1>> \in R
    <2>1. k \in 0..(Len(s) - 1) /\ k + 1 \in 0..Len(s)
        BY <1>1
    <2>2. Holds(t, s, m, k + 1)
        BY <1>2, <1>5, <2>1, HoldsSkip
    <2> QED
        BY <1>2, <2>1, <2>2
<1>6. <<buffer \o SubSeq(s, a + 1, b), b>> \in R
    BY <1>1, <1>3, <1>4, PieceCarries
<1>7. <<buffer \o Trim(SubSeq(s, a + 1, b)), b>> \in R
    BY <1>1, <1>3, <1>4, <1>5, TrimmedCarries
<1> QED
    BY <1>2, <1>6, <1>7

(* It follows an object from its beginning on.                                *)
LEMMA HoldsLine ==
    ASSUME NEW s \in Streams, WellFormed(s), NEW a \in 0..(Len(s) - 1), NEW b \in (a + 1)..Len(s),
           ~Within(s, a), s[a + 1] = "lbrace", Trailing(s, a + 1, b)
    PROVE  Holds(<<>> \o Trim(SubSeq(s, a + 1, b)), s, a + 1, b)
<1> DEFINE m == a + 1
           R == {q \in Seq(Symbols) \X (0..Len(s)) : Holds(q[1], s, m, q[2])}
<1>1. s \in Seq(Symbols) /\ Len(s) \in Nat /\ <<>> \in Seq(Symbols) /\ m \in 0..Len(s)
    <2>1. s \in Seq(Symbols) /\ Len(s) \in Nat /\ <<>> \in Seq(Symbols)
        BY StreamAssumption
    <2> QED
        BY <2>1
<1>2. \A t, k : <<t, k>> \in R <=> t \in Seq(Symbols) /\ k \in 0..Len(s) /\ Holds(t, s, m, k)
    OBVIOUS
<1> HIDE DEF R
<1>3. <<Append(<<>>, s[a + 1]), a + 1>> \in R
    <2>1. s[a + 1] \in Symbols
        BY DepthSteps
    <2>2. Append(<<>>, s[a + 1]) \in Seq(Symbols)
        BY <1>1, <2>1
    <2> QED
        BY <1>1, <1>2, <2>2, HoldsBegins
<1>4. ASSUME NEW k \in (a + 1)..(b - 1), NEW t \in Seq(Symbols), <<t, k>> \in R
      PROVE  <<Append(t, s[k + 1]), k + 1>> \in R
    <2>1. k \in 0..(Len(s) - 1) /\ k + 1 \in 0..Len(s)
        BY <1>1
    <2>2. ~Within(s, k) => s[k + 1] \in Spaces
        BY DEF Trailing
    <2>3. Holds(Append(t, s[k + 1]), s, m, k + 1)
        BY <1>2, <1>4, <2>1, <2>2, HoldsAppend
    <2>4. Append(t, s[k + 1]) \in Seq(Symbols)
        <3>1. s[k + 1] \in Symbols
            BY <2>1, DepthSteps
        <3> QED
            BY <3>1
    <2> QED
        BY <1>2, <2>1, <2>3, <2>4
<1>5. ASSUME NEW k \in (a + 1)..(b - 1), NEW t \in Seq(Symbols), <<t, k>> \in R, s[k + 1] \in Spaces
      PROVE  <<t, k + 1>> \in R
    <2>1. k \in 0..(Len(s) - 1) /\ k + 1 \in 0..Len(s)
        BY <1>1
    <2>2. Holds(t, s, m, k + 1)
        BY <1>2, <1>5, <2>1, HoldsSkip
    <2> QED
        BY <1>2, <2>1, <2>2
<1>6. s[a + 1] \notin Spaces
    BY DEF Spaces
<1>7. <<<<>> \o Trim(SubSeq(s, a + 1, b)), b>> \in R
    BY <1>1, <1>3, <1>4, <1>5, <1>6, TrimmedBegins
<1> QED
    BY <1>2, <1>7

(* Where an object begins.                                                    *)
LEMMA BeginIs ==
    ASSUME NEW s \in Streams, WellFormed(s), NEW e \in Ends[s], NEW m \in 1..e,
           s[m] = "lbrace", ~Within(s, m - 1), \A l \in m..(e - 1) : Within(s, l)
    PROVE  Begin(s, e) = m
<1> DEFINE begins == {n \in 1..e : s[n] = "lbrace" /\ ~Within(s, n - 1)}
<1>1. e \in Nat /\ s[e] = "rbrace"
    BY EndIs
<1>2. Begin(s, e) = Max(begins)
    BY DEF Begin, Within
<1>3. m \in begins /\ begins \in SUBSET Nat /\ \A n \in begins : n <= e
    BY <1>1
<1>4. \A n \in begins : n <= m
    <2>1. ASSUME NEW n \in begins, ~(n <= m) PROVE FALSE
        <3>1. n - 1 \in m..(e - 1)
            BY <1>1, <2>1
        <3> QED
            BY <2>1, <3>1
    <2> QED
        BY <2>1
<1> HIDE DEF begins
<1>5. Max(begins) \in begins /\ m <= Max(begins)
    BY <1>1, <1>3, MaxIsGreatest
<1>6. Max(begins) \in Nat /\ Max(begins) <= m /\ m \in Nat
    BY <1>3, <1>4, <1>5
<1> QED
    BY <1>2, <1>5, <1>6

(* What an object reports is what its buffer does.                            *)
LEMMA HoldsReports ==
    ASSUME NEW s \in Streams, WellFormed(s), NEW c \in 0..Len(s), NEW m,
           NEW buffer \in Seq(Symbols), Holds(buffer, s, m, c), NEW e \in Ends[s],
           m <= e, e <= c, \A l \in m..(e - 1) : Within(s, l),
           \A l \in (e + 1)..c : s[l] \in Spaces
    PROVE  ReportIn(buffer) = IF Reported[s][e] = None THEN None ELSE TokenUsage(Reported[s][e])
<1> DEFINE found == {i \in Begin(s, e)..e : s[i] \in DOMAIN Report}
           last == IF found # {} THEN Max(found) ELSE 0
<1>1. c \in Nat /\ e \in Nat /\ Len(s) \in Nat /\ m \in 1..e /\ e \in 1..Len(s) /\ s[e] = "rbrace"
    <2>1. c \in Nat /\ e \in Nat /\ Len(s) \in Nat /\ e \in 1..Len(s) /\ s[e] = "rbrace"
        BY EndIs, StreamAssumption
    <2>2. m \in 1..c
        BY DEF Holds
    <2> QED
        BY <2>1, <2>2
<1>2. Begin(s, e) = m
    BY <1>1, BeginIs DEF Holds
<1>3. Reported[s][e] = IF last = 0 THEN None ELSE Report[s[last]]
    BY DEF Reported, SelectLastInSubSeq
<1>4. found \in SUBSET Nat /\ \A i \in found : i <= e /\ i \in m..e /\ i # 0
    BY <1>1, <1>2
<1>5. \A l \in m..c : s[l] \in DOMAIN Report => l \in found
    <2>1. ASSUME NEW l \in m..c, s[l] \in DOMAIN Report PROVE l \in found
        <3>1. s[l] \notin Spaces
            BY <2>1, StreamAssumption DEF Syntax
        <3>2. l \in m..e
            BY <1>1, <2>1, <3>1
        <3> QED
            BY <1>2, <2>1, <3>2
    <2> QED
        BY <2>1
<1>6. CASE Quiet(buffer) /\ \A l \in m..c : s[l] \notin DOMAIN Report
    <2>1. \A i \in found : i \in m..c
        BY <1>1, <1>4
    <2>2. found = {}
        BY <1>6, <2>1
    <2>3. ReportIn(buffer) = None
        BY <1>6, ReportInIs
    <2> QED
        BY <1>3, <2>2, <2>3
<1>7. CASE \E i \in DOMAIN buffer, j \in m..c :
              /\ LastReport(buffer, i) /\ buffer[i] = s[j]
              /\ \A l \in (j + 1)..c : s[l] \notin DOMAIN Report
    <2>1. PICK i \in DOMAIN buffer, j \in m..c :
              /\ LastReport(buffer, i) /\ buffer[i] = s[j]
              /\ \A l \in (j + 1)..c : s[l] \notin DOMAIN Report
        BY <1>7
    <2>2. s[j] \in DOMAIN Report
        BY <2>1 DEF LastReport
    <2>3. j \in found /\ j \in Nat
        BY <1>1, <1>5, <2>2
    <2>4. \A l \in found : l <= j
        <3>1. ASSUME NEW l \in found, ~(l <= j) PROVE FALSE
            <4>1. l \in m..e
                BY <1>4
            <4>2. l \in (j + 1)..c
                BY <1>1, <2>3, <3>1, <4>1
            <4> QED
                BY <2>1, <3>1, <4>2
        <3> QED
            BY <3>1
    <2> HIDE DEF found
    <2>5. Max(found) \in found /\ j <= Max(found)
        BY <1>1, <1>4, <2>3, MaxIsGreatest
    <2>6. Max(found) = j
        <3>1. Max(found) \in Nat /\ Max(found) <= j
            BY <1>4, <2>4, <2>5
        <3> QED
            BY <2>3, <2>5, <3>1
    <2>7. last = j /\ last # 0
        BY <1>4, <2>3, <2>6
    <2> HIDE DEF last
    <2>8. Reported[s][e] = Report[s[j]]
        BY <1>3, <2>7
    <2>9. ReportIn(buffer) = TokenUsage(Report[s[j]])
        BY <2>1, ReportInIs
    <2>10. Report[s[j]] # None
        BY <2>2, StreamAssumption
    <2> QED
        BY <2>8, <2>9, <2>10
<1> QED
    BY <1>6, <1>7 DEF Holds, Latest

(* What an object that reports something has in it.                           *)
LEMMA ReportedIs ==
    ASSUME NEW s \in Streams, WellFormed(s), NEW e \in Ends[s], Reported[s][e] # None
    PROVE  /\ \E r \in DOMAIN Report : Reported[s][e] = Report[r]
           /\ \A m \in 1..e : s[m] = "lbrace" /\ ~Within(s, m - 1)
                              /\ (\A l \in m..(e - 1) : Within(s, l)) =>
                 \E l \in m..e : s[l] \in DOMAIN Report
<1> DEFINE found == {i \in Begin(s, e)..e : s[i] \in DOMAIN Report}
           last == IF found # {} THEN Max(found) ELSE 0
<1>1. e \in Nat
    BY EndIs
<1>2. Reported[s][e] = IF last = 0 THEN None ELSE Report[s[last]]
    BY DEF Reported, SelectLastInSubSeq
<1>3. Begin(s, e) \in Nat
    <2> DEFINE begins == {n \in 1..e : s[n] = "lbrace" /\ Depths[s][n - 1] \notin {"in", "string"}}
    <2>1. e \in 1..Len(s) /\ e - 1 \in 0..Len(s) /\ Within(s, e - 1) /\ Len(s) \in Nat
        BY EndIs, StreamAssumption
    <2>2. PICK n \in 1..(e - 1) : s[n] = "lbrace" /\ Depths[s][n - 1] \notin {"in", "string"}
        BY <2>1, ObjectBegins DEF Within
    <2>3. n \in begins /\ begins \in SUBSET Nat /\ \A l \in begins : l <= e
        BY <1>1, <2>2
    <2>4. Begin(s, e) = Max(begins)
        BY DEF Begin
    <2> HIDE DEF begins
    <2>5. Max(begins) \in begins
        BY <1>1, <2>3, MaxIsGreatest
    <2> QED
        BY <2>3, <2>4, <2>5
<1>4. found \in SUBSET Nat /\ \A i \in found : i <= e
    BY <1>1, <1>3
<1>5. last # 0
    BY <1>2
<1>6. found # {} /\ last = Max(found)
    BY <1>5
<1> HIDE DEF last
<1>7. last \in found
    <2> HIDE DEF found
    <2> QED
        BY <1>1, <1>4, <1>6, MaxIsGreatest
<1>8. s[last] \in DOMAIN Report /\ last \in Begin(s, e)..e
    BY <1>7
<1>9. Reported[s][e] = Report[s[last]]
    BY <1>2, <1>5
<1>10. ASSUME NEW m \in 1..e, s[m] = "lbrace", ~Within(s, m - 1), \A l \in m..(e - 1) : Within(s, l)
       PROVE  \E l \in m..e : s[l] \in DOMAIN Report
    <2>1. Begin(s, e) = m
        BY <1>10, BeginIs
    <2> QED
        BY <1>8, <2>1
<1> QED
    BY <1>8, <1>9, <1>10

(* An object whose buffer has become too long is one that is too long.        *)
LEMMA HoldsTooLong ==
    ASSUME NEW s \in Streams, WellFormed(s), NEW c \in 0..Len(s), NEW m,
           NEW buffer \in Seq(Symbols), Holds(buffer, s, m, c), Len(buffer) > MaxPending,
           NEW e \in Ends[s], m <= e, \A l \in m..(e - 1) : Within(s, l),
           \A l \in (e + 1)..c : s[l] \in Spaces
    PROVE  e \in TooLong[s]
<1> DEFINE reached == {n \in e..Len(s) : \A i \in (e + 1)..n : s[i] \in Spaces}
<1>1. /\ c \in Nat /\ e \in Nat /\ Len(s) \in Nat /\ m \in 1..e /\ e \in 1..Len(s) /\ m \in 1..c
      /\ Len(buffer) \in Nat /\ MaxPending \in Nat
    <2>1. c \in Nat /\ e \in Nat /\ Len(s) \in Nat /\ e \in 1..Len(s)
        BY EndIs, StreamAssumption
    <2>2. m \in 1..c
        BY DEF Holds
    <2>3. Len(buffer) \in Nat
        OBVIOUS
    <2> QED
        BY <2>1, <2>2, <2>3, PendingAssumption
<1>2. Begin(s, e) = m
    BY <1>1, BeginIs DEF Holds
<1>3. c - m >= MaxPending
    <2>1. Len(buffer) <= c - m + 1
        BY DEF Holds
    <2> QED
        BY <1>1, <2>1
<1>4. Reach(s, e) = Max(reached)
    BY DEF Reach
<1>5. reached \in SUBSET Nat /\ \A n \in reached : n <= Len(s)
    BY <1>1
<1>6. e \in reached /\ (e <= c => c \in reached)
    <2>1. \A i \in (e + 1)..e : FALSE
        BY <1>1
    <2> QED
        BY <1>1, <2>1
<1> HIDE DEF reached
<1>7. \A n \in reached : n <= Max(reached)
    BY <1>1, <1>5, <1>6, MaxIsGreatest
<1>8. Max(reached) \in Nat
    <2>1. Max(reached) \in reached
        BY <1>1, <1>5, <1>6, MaxIsGreatest
    <2> QED
        BY <1>5, <2>1
<1>9. c <= Max(reached)
    <2>1. e <= c => c <= Max(reached)
        BY <1>6, <1>7
    <2>2. e <= Max(reached)
        BY <1>6, <1>7
    <2> QED
        BY <1>1, <1>8, <2>1, <2>2
<1>10. Reach(s, e) - Begin(s, e) >= MaxPending
    BY <1>1, <1>2, <1>3, <1>4, <1>8, <1>9
<1> QED
    BY <1>10 DEF TooLong

-----------------------------------------------------------------------------
(* The buffer that has lost the stream.                                       *)

(* It can never become an object, or it has no report, and it takes what is   *)
(* in quotes in the stream for what is not.                                   *)
Misaligned(buffer, s, k) ==
    \/ Parse(buffer) = "bad"
    \/ /\ Quiet(buffer)
       /\ Parse(buffer) = "in" => Depths[s][k] = "string"
       /\ Parse(buffer) = "string" => Depths[s][k] # "string"

(* An empty buffer is nowhere.                                                *)
LEMMA MisalignedNothing ==
    ASSUME NEW s, NEW k
    PROVE  Misaligned(<<>>, s, k)
BY ParseEmpty DEF Misaligned, Quiet

(* It stays so, unless it is blank and an object begins; and a report ends    *)
(* its hopes.                                                                 *)
LEMMA MisalignedAppend ==
    ASSUME NEW s \in Streams, WellFormed(s), NEW k \in 0..(Len(s) - 1),
           NEW buffer \in Seq(Symbols), Misaligned(buffer, s, k),
           Parse(buffer) # "start" \/ Within(s, k) \/ s[k + 1] # "lbrace"
    PROVE  /\ Misaligned(Append(buffer, s[k + 1]), s, k + 1)
           /\ Append(buffer, s[k + 1]) \in Seq(Symbols)
           /\ s[k + 1] \in DOMAIN Report \/ Parse(buffer) = "bad" =>
                 Parse(Append(buffer, s[k + 1])) = "bad"
           /\ Parse(buffer) # "start" => Parse(Append(buffer, s[k + 1])) # "start"
<1> DEFINE x == s[k + 1]
           t == Append(buffer, x)
           p == Parse(buffer)
           d == Depths[s][k]
           e == Depths[s][k + 1]
<1>1. /\ x \in Symbols /\ d \in ParseStates /\ e = ScanObject(d, x) /\ t \in Seq(Symbols)
      /\ p \in ParseStates /\ Parse(t) = ParseStep(p, x) /\ k + 1 \in 0..Len(s)
      /\ k + 1 \in 1..Len(s) /\ (k + 1) - 1 = k
    <2>1. x \in Symbols /\ d \in ParseStates /\ e = ScanObject(d, x) /\ k + 1 \in 1..Len(s) /\ Len(s) \in Nat
        BY DepthSteps
    <2> HIDE DEF x
    <2>2. t \in Seq(Symbols)
        BY <2>1
    <2> QED
        BY <2>1, <2>2, ParseAppend
<1>2. e # "bad" /\ (d \notin {"in", "string"} => x # "quote")
    BY <1>1 DEF WellFormed, Within
<1>3. /\ x \in DOMAIN Report => x \notin Syntax
      /\ x \notin DOMAIN Report /\ Quiet(buffer) => Quiet(t)
    BY <1>1, StreamAssumption, AppendReports
<1>4. p # "start" \/ d \in {"in", "string"} \/ x # "lbrace"
    BY DEF Within
<1>5. p = "bad" \/ (Quiet(buffer) /\ (p = "in" => d = "string") /\ (p = "string" => d # "string"))
    BY DEF Misaligned
<1>6. SUFFICES /\ Misaligned(t, s, k + 1)
               /\ x \in DOMAIN Report \/ p = "bad" => Parse(t) = "bad"
               /\ p # "start" => Parse(t) # "start"
    BY <1>1
<1> HIDE DEF x, t, p, d, e
<1>7. CASE x \in DOMAIN Report
    <2>1. x \notin Spaces \cup {"quote", "lbrace", "rbrace"}
        BY <1>3, <1>7 DEF Syntax
    <2>2. d # "string"
        BY <1>1, <1>2, <1>7, <2>1 DEF ScanObject, ParseStep, NotInString
    <2>3. Parse(t) = "bad"
        BY <1>1, <1>5, <1>7, <2>1, <2>2 DEF ParseStep, ParseStates, NotInString
    <2> QED
        BY <2>3 DEF Misaligned
<1>8. CASE x \notin DOMAIN Report /\ p = "bad"
    <2>1. Parse(t) = "bad"
        BY <1>1, <1>8 DEF ParseStep
    <2> QED
        BY <2>1 DEF Misaligned
<1>9. CASE x \notin DOMAIN Report /\ p # "bad"
    <2>1. Quiet(t)
        BY <1>3, <1>5, <1>9
    <2>2. Parse(t) = "in" => e = "string"
        <3>1. ASSUME Parse(t) = "in" PROVE e = "string"
            <4>1. \/ p = "start" /\ x = "lbrace"
                  \/ p = "in" /\ x \in Spaces
                  \/ p = "string" /\ x = "quote"
                BY <1>1, <1>9, <3>1 DEF ParseStep, ParseStates
            <4>2. CASE p = "start" /\ x = "lbrace"
                <5>1. d = "string"
                    BY <1>1, <1>2, <1>3, <1>4, <1>9, <4>2 DEF ScanObject, ParseStep, Spaces
                <5> QED
                    BY <1>1, <1>2, <4>2, <5>1 DEF ScanObject, ParseStep
            <4>3. CASE p = "in" /\ x \in Spaces
                BY <1>1, <1>2, <1>5, <4>3 DEF ScanObject, ParseStep, Spaces
            <4>4. CASE p = "string" /\ x = "quote"
                BY <1>1, <1>2, <1>5, <1>9, <4>4 DEF ScanObject, ParseStep, Spaces
            <4> QED
                BY <4>1, <4>2, <4>3, <4>4
        <3> QED
            BY <3>1
    <2>3. Parse(t) = "string" => e # "string"
        <3>1. ASSUME Parse(t) = "string" PROVE e # "string"
            <4>1. \/ p = "in" /\ x = "quote"
                  \/ p = "string" /\ x # "quote"
                BY <1>1, <1>9, <3>1 DEF ParseStep, ParseStates
            <4>2. CASE p = "in" /\ x = "quote"
                BY <1>1, <1>5, <1>9, <4>2 DEF ScanObject, ParseStep
            <4>3. CASE p = "string" /\ x # "quote"
                BY <1>1, <1>2, <1>5, <1>9, <4>3 DEF ScanObject, ParseStep
            <4> QED
                BY <4>1, <4>2, <4>3
        <3> QED
            BY <3>1
    <2>4. p # "start" => Parse(t) # "start"
        BY <1>1 DEF ParseStep, ParseStates
    <2> QED
        BY <1>9, <2>1, <2>2, <2>3, <2>4 DEF Misaligned, e
<1> QED
    BY <1>7, <1>8, <1>9

(* A blank, or half of a marker, that is left out changes nothing.            *)
LEMMA MisalignedSkip ==
    ASSUME NEW s \in Streams, WellFormed(s), NEW k \in 0..(Len(s) - 1), NEW buffer,
           Misaligned(buffer, s, k), s[k + 1] \in Spaces \cup {"da", "ta:"}
    PROVE  Misaligned(buffer, s, k + 1)
<1> DEFINE x == s[k + 1]
           d == Depths[s][k]
           e == Depths[s][k + 1]
<1>1. /\ d \in ParseStates /\ e = ScanObject(d, x) /\ k + 1 \in 0..Len(s)
    <2>1. d \in ParseStates /\ e = ScanObject(d, x) /\ k + 1 \in 1..Len(s) /\ Len(s) \in Nat
        BY DepthSteps
    <2> QED
        BY <2>1
<1>2. e # "bad"
    BY <1>1 DEF WellFormed
<1>3. x \notin {"quote", "lbrace", "rbrace"}
    BY DEF Spaces
<1> HIDE DEF x, d, e
<1>4. d = "string" <=> e = "string"
    BY <1>1, <1>2, <1>3 DEF ScanObject, ParseStep
<1> QED
    BY <1>4 DEF Misaligned, d, e

(* Outside of the objects anything may be left out.                           *)
LEMMA MisalignedAcross ==
    ASSUME NEW s, NEW a, NEW c, NEW buffer, Misaligned(buffer, s, a), ~Within(s, a), ~Within(s, c)
    PROVE  Misaligned(buffer, s, c)
BY DEF Misaligned, Within

(* It stays so along a piece of the stream in which no object begins.         *)
LEMMA MisalignedPiece ==
    ASSUME NEW s \in Streams, WellFormed(s), NEW a \in 0..Len(s), NEW b \in a..Len(s),
           NEW buffer \in Seq(Symbols), Misaligned(buffer, s, a), Calm(s, a, b)
    PROVE  /\ Misaligned(buffer \o SubSeq(s, a + 1, b), s, b)
           /\ Misaligned(buffer \o Trim(SubSeq(s, a + 1, b)), s, b)
<1> DEFINE R == {q \in Seq(Symbols) \X (0..Len(s)) : Misaligned(q[1], s, q[2])}
<1>1. s \in Seq(Symbols) /\ Len(s) \in Nat
    BY StreamAssumption
<1>2. \A t, k : <<t, k>> \in R <=> t \in Seq(Symbols) /\ k \in 0..Len(s) /\ Misaligned(t, s, k)
    OBVIOUS
<1> HIDE DEF R
<1>3. <<buffer, a>> \in R
    BY <1>2
<1>4. ASSUME NEW k \in a..(b - 1), NEW t \in Seq(Symbols), <<t, k>> \in R
      PROVE  <<Append(t, s[k + 1]), k + 1>> \in R
    <2>1. k \in 0..(Len(s) - 1) /\ k + 1 \in 0..Len(s)
        BY <1>1
    <2>2. Within(s, k) \/ s[k + 1] # "lbrace"
        BY DEF Calm
    <2>3. Misaligned(Append(t, s[k + 1]), s, k + 1) /\ Append(t, s[k + 1]) \in Seq(Symbols)
        BY <1>2, <1>4, <2>1, <2>2, MisalignedAppend
    <2> QED
        BY <1>2, <2>1, <2>3
<1>5. ASSUME NEW k \in a..(b - 1), NEW t \in Seq(Symbols), <<t, k>> \in R, s[k + 1] \in Spaces
      PROVE  <<t, k + 1>> \in R
    <2>1. k \in 0..(Len(s) - 1) /\ k + 1 \in 0..Len(s)
        BY <1>1
    <2>2. Misaligned(t, s, k + 1)
        BY <1>2, <1>5, <2>1, MisalignedSkip
    <2> QED
        BY <1>2, <2>1, <2>2
<1>6. <<buffer \o SubSeq(s, a + 1, b), b>> \in R
    BY <1>1, <1>3, <1>4, PieceCarries
<1>7. <<buffer \o Trim(SubSeq(s, a + 1, b)), b>> \in R
    BY <1>1, <1>3, <1>4, <1>5, TrimmedCarries
<1> QED
    BY <1>2, <1>6, <1>7

(* A buffer that has begun cannot survive a report.                           *)
LEMMA MisalignedLine ==
    ASSUME NEW s \in Streams, WellFormed(s), NEW a \in 0..Len(s), NEW b \in a..Len(s),
           NEW buffer \in Seq(Symbols), Misaligned(buffer, s, a), Parse(buffer) # "start"
    PROVE  LET t == buffer \o Trim(SubSeq(s, a + 1, b)) IN
           /\ Misaligned(t, s, b)
           /\ (\E l \in (a + 1)..b : s[l] \in DOMAIN Report) => Parse(t) = "bad"
<1> DEFINE Lost(t, k) == /\ Misaligned(t, s, k) /\ Parse(t) # "start"
                         /\ (\E l \in (a + 1)..k : s[l] \in DOMAIN Report) => Parse(t) = "bad"
           R == {q \in Seq(Symbols) \X (0..Len(s)) : Lost(q[1], q[2])}
<1>1. s \in Seq(Symbols) /\ Len(s) \in Nat
    BY StreamAssumption
<1>2. \A t, k : <<t, k>> \in R <=> t \in Seq(Symbols) /\ k \in 0..Len(s) /\ Lost(t, k)
    OBVIOUS
<1> HIDE DEF R
<1>3. <<buffer, a>> \in R
    <2>1. \A l \in (a + 1)..a : FALSE
        BY <1>1
    <2> QED
        BY <1>2, <2>1
<1>4. ASSUME NEW k \in a..(b - 1), NEW t \in Seq(Symbols), <<t, k>> \in R
      PROVE  <<Append(t, s[k + 1]), k + 1>> \in R
    <2>1. k \in 0..(Len(s) - 1) /\ k + 1 \in 0..Len(s) /\ k \in Nat
        BY <1>1
    <2>2. /\ Misaligned(Append(t, s[k + 1]), s, k + 1) /\ Append(t, s[k + 1]) \in Seq(Symbols)
          /\ s[k + 1] \in DOMAIN Report \/ Parse(t) = "bad" => Parse(Append(t, s[k + 1])) = "bad"
          /\ Parse(Append(t, s[k + 1])) # "start"
        BY <1>2, <1>4, <2>1, MisalignedAppend
    <2>3. \A l \in (a + 1)..(k + 1) : l = k + 1 \/ l \in (a + 1)..k
        BY <1>1, <2>1
    <2>4. (\E l \in (a + 1)..(k + 1) : s[l] \in DOMAIN Report) => Parse(Append(t, s[k + 1])) = "bad"
        BY <1>2, <1>4, <2>2, <2>3
    <2>5. Lost(Append(t, s[k + 1]), k + 1)
        BY <2>2, <2>4
    <2> HIDE DEF Lost
    <2> QED
        BY <1>2, <2>1, <2>2, <2>5
<1>5. ASSUME NEW k \in a..(b - 1), NEW t \in Seq(Symbols), <<t, k>> \in R, s[k + 1] \in Spaces
      PROVE  <<t, k + 1>> \in R
    <2>1. k \in 0..(Len(s) - 1) /\ k + 1 \in 0..Len(s) /\ k \in Nat
        BY <1>1
    <2>2. Misaligned(t, s, k + 1)
        BY <1>2, <1>5, <2>1, MisalignedSkip
    <2>3. \A l \in (a + 1)..(k + 1) : l = k + 1 \/ l \in (a + 1)..k
        BY <1>1, <2>1
    <2>4. s[k + 1] \notin DOMAIN Report
        BY <1>5, StreamAssumption DEF Syntax
    <2>5. Lost(t, k + 1)
        BY <1>2, <1>5, <2>2, <2>3, <2>4
    <2> HIDE DEF Lost
    <2> QED
        BY <1>2, <2>1, <2>5
<1>6. <<buffer \o Trim(SubSeq(s, a + 1, b)), b>> \in R
    BY <1>1, <1>3, <1>4, <1>5, TrimmedCarries
<1>7. Lost(buffer \o Trim(SubSeq(s, a + 1, b)), b)
    <2> HIDE DEF Lost
    <2> QED
        BY <1>2, <1>6
<1> QED
    BY <1>7

-----------------------------------------------------------------------------
(* Behind an object that is too long.                                         *)

(* After k symbols the stream is still in an object that is too long, or it   *)
(* is outside of the objects and none that reports something has followed.    *)
Behind(s, k) ==
    \E t \in TooLong[s] :
       \/ k < t /\ \A l \in k..(t - 1) : Within(s, l)
       \/ t <= k /\ ~Within(s, k) /\ \A n \in Ends[s] : t < n /\ n <= k => Reported[s][n] = None

(* An object that is too long ends, and is endangered itself.                 *)
LEMMA TooLongIs ==
    ASSUME NEW s \in Streams, WellFormed(s), NEW t \in TooLong[s]
    PROVE  t \in Ends[s] /\ t \in Endangered[s] /\ t \in 1..Len(s) /\ t \in Nat
<1>1. t \in Ends[s]
    BY DEF TooLong
<1>2. t \in 1..Len(s) /\ t \in Nat
    BY <1>1, EndIs
<1>3. t \in DOMAIN s /\ t <= t /\ \A k \in Ends[s] : ~(t < k /\ k < t)
    <2>1. \A k \in Ends[s] : k \in Nat
        BY EndIs
    <2>2. DOMAIN s = 1..Len(s)
        BY StreamAssumption
    <2> QED
        BY <1>2, <2>1, <2>2
<1>4. t \in Endangered[s]
    BY <1>3 DEF Endangered
<1> QED
    BY <1>1, <1>2, <1>4

(* What is endangered behind one.                                             *)
LEMMA EndangeredIs ==
    ASSUME NEW s \in Streams, WellFormed(s), NEW t \in TooLong[s], NEW n \in 1..Len(s), t <= n,
           \A k \in Ends[s] : t < k /\ k < n => Reported[s][k] = None
    PROVE  n \in Endangered[s]
<1>1. DOMAIN s = 1..Len(s)
    BY StreamAssumption
<1> QED
    BY <1>1 DEF Endangered

(* As long as no object begins, this goes on, and what ends is endangered.    *)
LEMMA BehindCarries ==
    ASSUME NEW s \in Streams, WellFormed(s), NEW a \in 0..Len(s), NEW c \in a..Len(s),
           Behind(s, a), Calm(s, a, c)
    PROVE  /\ Behind(s, c)
           /\ \A n \in Ends[s] : a < n /\ n <= c => n \in Endangered[s]
<1>1. PICK t \in TooLong[s] :
         \/ a < t /\ \A l \in a..(t - 1) : Within(s, l)
         \/ t <= a /\ ~Within(s, a) /\ \A n \in Ends[s] : t < n /\ n <= a => Reported[s][n] = None
    BY DEF Behind
<1>2. t \in Ends[s] /\ t \in Endangered[s] /\ t \in Nat
    BY TooLongIs
<1>3. \A n \in Ends[s] : n \in Nat
    BY EndIs
<1>4. a \in Nat /\ c \in Nat /\ a <= c
    OBVIOUS
<1>5. CASE a < t /\ \A l \in a..(t - 1) : Within(s, l)
    <2>1. /\ \A n \in Ends[s] : a < n /\ n <= c => n = t
          /\ t <= c => \A n \in t..c : ~Within(s, n)
        BY <1>2, <1>5, CalmEnds
    <2>2. CASE t <= c
        <3>1. ~Within(s, c)
            BY <1>2, <1>4, <2>1, <2>2
        <3>2. \A n \in Ends[s] : ~(t < n /\ n <= c)
            BY <1>2, <1>3, <1>4, <1>5, <2>1
        <3> QED
            BY <1>2, <2>1, <2>2, <3>1, <3>2 DEF Behind
    <2>3. CASE ~(t <= c)
        <3>1. c < t /\ \A l \in c..(t - 1) : l \in a..(t - 1)
            BY <1>2, <1>4, <2>3
        <3> QED
            BY <1>2, <1>5, <2>1, <3>1 DEF Behind
    <2> QED
        BY <2>2, <2>3
<1>6. CASE /\ t <= a /\ ~Within(s, a)
           /\ \A n \in Ends[s] : t < n /\ n <= a => Reported[s][n] = None
    <2>1. \A n \in a..c : ~Within(s, n) /\ (n # a => n \notin Ends[s])
        BY <1>6, CalmGap
    <2>2. ~Within(s, c) /\ t <= c
        BY <1>2, <1>4, <1>6, <2>1
    <2>3. \A n \in Ends[s] : ~(a < n /\ n <= c)
        BY <1>3, <1>4, <2>1
    <2>4. \A n \in Ends[s] : t < n /\ n <= c => Reported[s][n] = None
        BY <1>3, <1>4, <1>6, <2>3
    <2> QED
        BY <2>2, <2>3, <2>4 DEF Behind
<1> QED
    BY <1>1, <1>5, <1>6

-----------------------------------------------------------------------------
(* What has been counted.                                                     *)

(* A report that must count, and how complete it is.                          *)
Due(s, n) == n \in Ends[s] /\ n \notin Endangered[s] /\ Reported[s][n] # None

Full(s, n) == Completeness(TokenUsage(Reported[s][n]))

(* The usage is that of an object that has ended after k symbols, and none    *)
(* that must count is more complete, or as complete and later.                *)
Tallied(u, s, k) ==
    \/ u = None /\ \A n \in 1..k : ~Due(s, n)
    \/ \E i \in Ends[s] :
          /\ i <= k /\ Reported[s][i] # None /\ u = TokenUsage(Reported[s][i])
          /\ \A j \in 1..k : Due(s, j) => Full(s, j) <= Full(s, i) /\ (j > i => Full(s, j) < Full(s, i))

(* How complete a report is, is a number (usage.rs completeness).             *)
LEMMA FullType ==
    ASSUME NEW s \in Streams, WellFormed(s), NEW n \in Ends[s], Reported[s][n] # None
    PROVE  Full(s, n) \in Nat /\ TokenUsage(Reported[s][n]) # None
<1>1. PICK r \in DOMAIN Report : Reported[s][n] = Report[r]
    BY ReportedIs
<1>2. TokenUsage(Report[r]) # None /\ DOMAIN Report[r] \subseteq Counters
    BY StreamAssumption
<1>3. DOMAIN TokenUsage(Report[r]) \subseteq Counters
    BY <1>2 DEF TokenUsage, Counters
<1>4. IsFiniteSet(Counters)
    <2>1. IsFiniteSet({"prompt"} \cup {"completion"} \cup {"total"})
        BY FS_Singleton, FS_AddElement
    <2>2. IsFiniteSet({"prompt"} \cup {"completion"} \cup {"total"}
                      \cup {"reasoning"} \cup {"cached"})
        BY <2>1, FS_AddElement
    <2>3. Counters = {"prompt"} \cup {"completion"} \cup {"total"}
                     \cup {"reasoning"} \cup {"cached"}
        BY DEF Counters
    <2> QED
        BY <2>2, <2>3
<1>5. IsFiniteSet(DOMAIN TokenUsage(Report[r]))
    BY <1>3, <1>4, FS_Subset
<1> QED
    BY <1>1, <1>2, <1>5, FS_CardinalityType DEF Full, Completeness

(* Where nothing ends that must count, the same usage counts.                 *)
LEMMA TallyStays ==
    ASSUME NEW s \in Streams, WellFormed(s), NEW a \in 0..Len(s), NEW c \in a..Len(s), NEW u,
           Tallied(u, s, a), \A n \in Ends[s] : a < n /\ n <= c => n \in Endangered[s]
    PROVE  Tallied(u, s, c)
<1>1. \A n \in 1..c : Due(s, n) => n \in 1..a
    <2>1. \A n \in 1..c : n \in Nat /\ (~(a < n /\ n <= c) => n \in 1..a)
        OBVIOUS
    <2> QED
        BY <2>1 DEF Due
<1>2. CASE u = None /\ \A n \in 1..a : ~Due(s, n)
    BY <1>1, <1>2 DEF Tallied
<1>3. CASE \E i \in Ends[s] :
              /\ i <= a /\ Reported[s][i] # None /\ u = TokenUsage(Reported[s][i])
              /\ \A j \in 1..a : Due(s, j) => Full(s, j) <= Full(s, i) /\ (j > i => Full(s, j) < Full(s, i))
    <2>1. PICK i \in Ends[s] :
              /\ i <= a /\ Reported[s][i] # None /\ u = TokenUsage(Reported[s][i])
              /\ \A j \in 1..a : Due(s, j) => Full(s, j) <= Full(s, i) /\ (j > i => Full(s, j) < Full(s, i))
        BY <1>3
    <2>2. i <= c
        <3>1. i \in Nat
            BY EndIs
        <3> QED
            BY <2>1, <3>1
    <2> QED
        BY <1>1, <2>1, <2>2 DEF Tallied
<1> QED
    BY <1>2, <1>3 DEF Tallied

(* The report of the one object that ends is merged (usage.rs merge_usage).   *)
LEMMA TallyMerges ==
    ASSUME NEW s \in Streams, WellFormed(s), NEW a \in 0..Len(s), NEW c \in a..Len(s), NEW u,
           Tallied(u, s, a), NEW e \in Ends[s], a < e, e <= c,
           \A n \in Ends[s] : a < n /\ n <= c => n = e
    PROVE  Tallied(MergeUsage(u, IF Reported[s][e] = None THEN None ELSE TokenUsage(Reported[s][e])), s, c)
<1> DEFINE seen == IF Reported[s][e] = None THEN None ELSE TokenUsage(Reported[s][e])
           merged == MergeUsage(u, seen)
<1> SUFFICES Tallied(merged, s, c)
    OBVIOUS
<1>1. \A n \in 1..c : Due(s, n) => n \in 1..a \/ n = e
    <2>1. \A n \in 1..c : n \in Nat /\ (~(a < n /\ n <= c) => n \in 1..a)
        OBVIOUS
    <2> QED
        BY <2>1 DEF Due
<1>2. e \in Nat /\ \A n \in 1..a : n < e /\ ~(n > e)
    <2>1. e \in Nat
        BY EndIs
    <2> QED
        BY <2>1
<1>3. CASE Reported[s][e] = None
    <2>1. merged = u
        BY <1>3 DEF MergeUsage
    <2>2. \A n \in 1..c : Due(s, n) => n \in 1..a
        BY <1>1, <1>3 DEF Due
    <2>3. CASE u = None /\ \A n \in 1..a : ~Due(s, n)
        BY <2>1, <2>2, <2>3 DEF Tallied
    <2>4. CASE ~(u = None /\ \A n \in 1..a : ~Due(s, n))
        <3>1. PICK i \in Ends[s] :
                  /\ i <= a /\ Reported[s][i] # None /\ u = TokenUsage(Reported[s][i])
                  /\ \A j \in 1..a : Due(s, j) => Full(s, j) <= Full(s, i) /\ (j > i => Full(s, j) < Full(s, i))
            BY <2>4 DEF Tallied
        <3>2. i <= c
            <4>1. i \in Nat
                BY EndIs
            <4> QED
                BY <3>1, <4>1
        <3> HIDE DEF merged
        <3>3. Tallied(u, s, c)
            BY <2>2, <3>1, <3>2 DEF Tallied
        <3> QED
            BY <2>1, <3>3 DEF merged
    <2> QED
        BY <2>3, <2>4
<1>4. CASE Reported[s][e] # None
    <2>1. seen = TokenUsage(Reported[s][e]) /\ seen # None /\ Full(s, e) \in Nat
        BY <1>4, FullType
    <2>2. \A j \in 1..c : Due(s, j) => Full(s, j) \in Nat
        BY FullType DEF Due
    <2>3. ASSUME merged = seen, \A j \in 1..a : Due(s, j) => Full(s, j) <= Full(s, e)
          PROVE  Tallied(merged, s, c)
        <3>1. \A j \in 1..c : Due(s, j) => Full(s, j) <= Full(s, e) /\ ~(j > e)
            BY <1>1, <1>2, <2>1, <2>3
        <3> HIDE DEF merged
        <3> QED
            BY <1>4, <2>1, <2>3, <3>1 DEF Tallied
    <2>4. CASE u = None /\ \A n \in 1..a : ~Due(s, n)
        <3>1. merged = seen
            BY <2>1, <2>4 DEF MergeUsage
        <3> QED
            BY <2>3, <2>4, <3>1
    <2>5. CASE ~(u = None /\ \A n \in 1..a : ~Due(s, n))
        <3>1. PICK i \in Ends[s] :
                  /\ i <= a /\ Reported[s][i] # None /\ u = TokenUsage(Reported[s][i])
                  /\ \A j \in 1..a : Due(s, j) => Full(s, j) <= Full(s, i) /\ (j > i => Full(s, j) < Full(s, i))
            BY <2>5 DEF Tallied
        <3>2. Full(s, i) \in Nat /\ u # None /\ i \in Nat /\ i <= c
            <4>1. i \in Nat
                BY EndIs
            <4> QED
                BY <3>1, <4>1, FullType
        <3>3. Completeness(u) = Full(s, i) /\ Completeness(seen) = Full(s, e)
            BY <2>1, <3>1 DEF Full
        <3>4. merged = IF Full(s, i) <= Full(s, e) THEN seen ELSE u
            BY <2>1, <3>2, <3>3 DEF MergeUsage
        <3> HIDE DEF merged, seen
        <3>5. CASE Full(s, i) <= Full(s, e)
            <4>1. \A j \in 1..a : Due(s, j) => Full(s, j) \in Nat
                BY <2>2
            <4>2. \A j \in 1..a : Due(s, j) => Full(s, j) <= Full(s, e)
                BY <2>1, <3>1, <3>2, <3>5, <4>1
            <4> QED
                BY <2>3, <3>4, <3>5, <4>2
        <3>6. CASE ~(Full(s, i) <= Full(s, e))
            <4>1. merged = u
                BY <3>4, <3>6
            <4>2. Full(s, e) < Full(s, i)
                BY <2>1, <3>2, <3>6
            <4>3. \A j \in 1..c : Due(s, j) =>
                     Full(s, j) <= Full(s, i) /\ (j > i => Full(s, j) < Full(s, i))
                <5>1. Full(s, e) <= Full(s, i)
                    BY <2>1, <3>2, <4>2
                <5> QED
                    BY <1>1, <3>1, <4>2, <5>1
            <4> QED
                BY <3>1, <3>2, <4>1, <4>3 DEF Tallied
        <3> QED
            BY <3>5, <3>6
    <2> QED
        BY <2>4, <2>5
<1> QED
    BY <1>3, <1>4

-----------------------------------------------------------------------------
(* The buffer and the usage, after k symbols of the stream.                   *)

(* The buffer is what has been read of the object the stream is in, or it is  *)
(* empty outside of the objects.                                              *)
InStep(buffer, s, k) ==
    IF Within(s, k) THEN \E m \in 1..k : Holds(buffer, s, m, k) ELSE buffer = <<>>

(* It has lost the stream, behind an object that is too long.                 *)
Astray(buffer, s, k) == Misaligned(buffer, s, k) /\ Behind(s, k)

Accounted(buffer, u, s, k) ==
    /\ InStep(buffer, s, k) \/ Astray(buffer, s, k)
    /\ Tallied(u, s, k)

(* Before its first symbol the stream is outside of the objects and behind    *)
(* none that is too long.                                                     *)
LEMMA AtFirst ==
    ASSUME NEW s \in Streams, WellFormed(s)
    PROVE  ~Within(s, 0) /\ ~Behind(s, 0)
<1>1. ~Within(s, 0)
    <2>1. Depths[s][0] = "start"
        BY DepthsRun
    <2> QED
        BY <2>1 DEF Within
<1>2. \A t \in TooLong[s] : t \in Nat /\ t >= 1
    <2>1. \A t \in TooLong[s] : t \in 1..Len(s)
        BY TooLongIs
    <2>2. Len(s) \in Nat
        BY StreamAssumption
    <2> QED
        BY <2>1, <2>2
<1>3. ASSUME Behind(s, 0) PROVE FALSE
    <2>1. PICK t \in TooLong[s] : t <= 0 \/ (0 < t /\ \A l \in 0..(t - 1) : Within(s, l))
        BY <1>3 DEF Behind
    <2>2. t <= 0 \/ 0 \in 0..(t - 1)
        BY <1>2
    <2> QED
        BY <1>1, <1>2, <2>1, <2>2
<1> QED
    BY <1>1, <1>3

(* While the buffer holds an object it is not empty.                          *)
LEMMA HoldsSomething ==
    ASSUME NEW s \in Streams, WellFormed(s), NEW k \in 0..Len(s), Within(s, k), InStep(<<>>, s, k)
    PROVE  FALSE
<1>1. PICK m \in 1..k : Holds(<<>>, s, m, k)
    BY DEF InStep
<1>2. Parse(<<>>) = Depths[s][k]
    BY <1>1 DEF Holds, Open, Ended
<1> QED
    BY <1>2, ParseEmpty DEF Within

(* A buffer that holds an object is kept until the object has ended, and then *)
(* merged; one that has become too long is dropped (usage.rs                  *)
(* UsageScanner::consume).                                                    *)
LEMMA ConsumeHeld ==
    ASSUME stream \in Streams, WellFormed(stream), ~Within(stream, Len(stream)),
           NEW a \in 0..Len(stream), NEW c \in a..Len(stream), NEW m, NEW buffer \in Seq(Symbols),
           Holds(buffer, stream, m, c), a < m => m = a + 1, \A l \in m..a : Within(stream, l),
           Tallied(usage, stream, a), Consume(buffer)
    PROVE  Accounted(pending', usage', stream, c)
<1> DEFINE s == stream
<1>1. /\ s \in Streams /\ c \in 0..Len(s) /\ a \in Nat /\ c \in Nat /\ a <= c /\ Len(s) \in Nat /\ c <= Len(s)
    BY StreamAssumption
<1>2. m \in 1..c /\ m \in Nat /\ m <= c
    BY <1>1 DEF Holds
<1>3. Open(buffer, s, m, c) \/ Ended(buffer, s, m, c)
    BY DEF Holds
<1>4. ASSUME NEW e \in Ends[s], m <= e, \A l \in m..(e - 1) : Within(s, l),
             \A l \in (e + 1)..c : s[l] \in Spaces
      PROVE  /\ a < e
             /\ \A n \in Ends[s] : a < n /\ n <= c => n = e
    <2>1. e \in Nat /\ ~Within(s, e)
        BY EndIs
    <2>2. ~(e \in m..a)
        BY <2>1
    <2>3. a < e
        BY <1>1, <1>2, <1>4, <2>1, <2>2
    <2>4. ASSUME NEW n \in Ends[s], a < n, n <= c, n # e PROVE FALSE
        <3>1. n \in Nat /\ ~Within(s, n) /\ s[n] = "rbrace"
            BY EndIs
        <3>2. m <= n
            BY <1>1, <1>2, <2>4, <3>1
        <3>3. n \in m..(e - 1) \/ n \in (e + 1)..c
            BY <1>1, <1>2, <2>1, <2>4, <3>1, <3>2
        <3> QED
            BY <1>4, <3>1, <3>3 DEF Spaces
    <2> QED
        BY <2>3, <2>4
<1>5. CASE Len(buffer) > MaxPending
    <2>1. pending' = <<>> /\ usage' = usage
        BY <1>5 DEF Consume
    <2>2. PICK e \in Ends[s] : /\ m <= e /\ \A l \in m..(e - 1) : Within(s, l)
                               /\ \A l \in (e + 1)..c : s[l] \in Spaces
                               /\ c < e \/ ~Within(s, c)
        <3>1. CASE Open(buffer, s, m, c)
            <4>1. \A l \in m..c : Within(s, l)
                BY <3>1 DEF Open
            <4>2. Within(s, c) /\ Len(s) \in c..Len(s)
                BY <1>1, <1>2, <4>1
            <4>3. PICK e \in Ends[s] : c < e /\ e <= Len(s) /\ \A l \in c..(e - 1) : Within(s, l)
                BY <1>1, <4>2, NextEnd
            <4>4. e \in Nat
                BY EndIs
            <4>5. \A l \in m..(e - 1) : l \in m..c \/ l \in c..(e - 1)
                BY <1>1, <1>2, <4>3, <4>4
            <4>6. m <= e /\ \A l \in (e + 1)..c : FALSE
                BY <1>1, <1>2, <4>3, <4>4
            <4> QED
                BY <4>1, <4>3, <4>5, <4>6
        <3>2. CASE Ended(buffer, s, m, c)
            BY <3>2 DEF Ended
        <3> QED
            BY <1>3, <3>1, <3>2
    <2>3. e \in TooLong[s]
        BY <1>1, <1>5, <2>2, HoldsTooLong
    <2>4. e \in Endangered[s] /\ e \in Nat
        BY <2>3, TooLongIs
    <2>5. a < e /\ \A n \in Ends[s] : a < n /\ n <= c => n = e
        BY <1>4, <2>2
    <2>6. Tallied(usage, s, c)
        BY <1>1, <2>4, <2>5, TallyStays
    <2>7. Behind(s, c)
        <3>1. CASE c < e
            <4>1. \A l \in c..(e - 1) : l \in m..(e - 1)
                BY <1>2, <2>4
            <4> QED
                BY <2>2, <2>3, <3>1, <4>1 DEF Behind
        <3>2. CASE ~(c < e)
            <4>1. e <= c /\ ~Within(s, c)
                BY <1>1, <2>2, <2>4, <3>2
            <4>2. \A n \in Ends[s] : ~(e < n /\ n <= c)
                <5>1. \A n \in Ends[s] : n \in Nat
                    BY EndIs
                <5> QED
                    BY <1>1, <2>4, <2>5, <5>1
            <4> QED
                BY <2>3, <4>1, <4>2 DEF Behind
        <3> QED
            BY <3>1, <3>2
    <2>8. Misaligned(<<>>, s, c)
        BY MisalignedNothing
    <2> QED
        BY <2>1, <2>6, <2>7, <2>8 DEF Accounted, Astray
<1>6. CASE ~(Len(buffer) > MaxPending) /\ Open(buffer, s, m, c)
    <2>1. Parse(buffer) = Depths[s][c] /\ \A l \in m..c : Within(s, l)
        BY <1>6 DEF Open
    <2>2. Within(s, c)
        BY <1>2, <2>1
    <2>3. Parse(buffer) \notin {"done", "bad"}
        BY <2>1, <2>2 DEF Within
    <2>4. pending' = buffer /\ usage' = usage
        BY <1>6, <2>3 DEF Consume, Settle
    <2>5. \A n \in Ends[s] : ~(a < n /\ n <= c)
        <3>1. ASSUME NEW n \in Ends[s], a < n, n <= c PROVE FALSE
            <4>1. n \in Nat /\ ~Within(s, n)
                BY EndIs
            <4>2. n \in m..c
                BY <1>1, <1>2, <3>1, <4>1
            <4> QED
                BY <2>1, <4>1, <4>2
        <3> QED
            BY <3>1
    <2>6. Tallied(usage, s, c)
        BY <1>1, <2>5, TallyStays
    <2>7. InStep(buffer, s, c)
        BY <1>2, <2>2 DEF InStep
    <2> QED
        BY <2>4, <2>6, <2>7 DEF Accounted
<1>7. CASE ~(Len(buffer) > MaxPending) /\ Ended(buffer, s, m, c)
    <2>1. Parse(buffer) = "done" /\ ~Within(s, c)
        BY <1>7 DEF Ended
    <2>2. PICK e \in Ends[s] : /\ m <= e /\ e <= c
                               /\ \A l \in m..(e - 1) : Within(s, l)
                               /\ \A l \in (e + 1)..c : s[l] \in Spaces
        BY <1>7 DEF Ended
    <2>3. pending' = <<>> /\ usage' = MergeUsage(usage, ReportIn(buffer))
        BY <1>7, <2>1 DEF Consume, Settle
    <2>4. ReportIn(buffer) = IF Reported[s][e] = None THEN None ELSE TokenUsage(Reported[s][e])
        BY <1>1, <2>2, HoldsReports
    <2>5. a < e /\ \A n \in Ends[s] : a < n /\ n <= c => n = e
        BY <1>4, <2>2
    <2>6. Tallied(MergeUsage(usage, IF Reported[s][e] = None THEN None ELSE TokenUsage(Reported[s][e])), s, c)
        BY <1>1, <2>2, <2>5, TallyMerges
    <2>7. Tallied(usage', s, c)
        BY <2>3, <2>4, <2>6
    <2>8. InStep(pending', s, c)
        BY <2>1, <2>3 DEF InStep
    <2> QED
        BY <2>7, <2>8 DEF Accounted
<1> QED
    BY <1>3, <1>5, <1>6, <1>7

(* A buffer that has lost the stream counts nothing, and is dropped once it   *)
(* can never become an object (usage.rs UsageScanner::consume).               *)
LEMMA ConsumeStray ==
    ASSUME NEW s, NEW c, NEW buffer \in Seq(Symbols), Misaligned(buffer, s, c), Consume(buffer)
    PROVE  /\ Misaligned(pending', s, c) /\ usage' = usage
           /\ Parse(buffer) = "bad" => pending' = <<>>
<1>1. pending' \in {<<>>, buffer} /\ (Parse(buffer) = "bad" => pending' = <<>>)
    BY DEF Consume, Settle
<1>2. Misaligned(pending', s, c)
    BY <1>1, MisalignedNothing
<1>3. usage' = usage
    <2>1. CASE Parse(buffer) = "done"
        <3>1. Quiet(buffer)
            BY <2>1 DEF Misaligned
        <3>2. ReportIn(buffer) = None
            BY <3>1, ReportInIs
        <3> QED
            BY <3>2 DEF Consume, Settle, MergeUsage
    <2>2. CASE Parse(buffer) # "done"
        BY <2>2 DEF Consume, Settle
    <2> QED
        BY <2>1, <2>2
<1> QED
    BY <1>1, <1>2, <1>3

(* Text between the objects is no object (usage.rs UsageScanner::consume).    *)
LEMMA ConsumeText ==
    ASSUME NEW s \in Streams, NEW a \in 0..Len(s), NEW c \in a..Len(s),
           \A k \in a..(c - 1) : s[k + 1] \in Spaces \cup {"da", "ta:", "word"},
           Consume(<<>> \o Trim(SubSeq(s, a + 1, c)))
    PROVE  pending' = <<>> /\ usage' = usage
<1> DEFINE line == SubSeq(s, a + 1, c)
           buffer == <<>> \o Trim(line)
           R == {x \in Seq(Symbols) \X Nat : Parse(x[1]) \in {"start", "bad"}}
<1>1. s \in Seq(Symbols) /\ Len(s) \in Nat /\ <<>> \in Seq(Symbols) /\ a \in Nat
    BY StreamAssumption
<1>2. line \in Seq(Symbols)
    BY <1>1, PieceIs
<1>3. Trim(line) \in Seq(Symbols)
    BY <1>2, TrimType
<1>4. <<buffer, c>> \in R
    <2>1. <<<<>>, a>> \in R
        BY <1>1, ParseEmpty
    <2>2. ASSUME NEW k \in a..(c - 1), NEW t \in Seq(Symbols), <<t, k>> \in R
          PROVE  <<Append(t, s[k + 1]), k + 1>> \in R
        <3>1. k + 1 \in 1..Len(s) /\ k + 1 \in Nat
            BY <1>1
        <3>2. s[k + 1] \in Symbols
            BY <1>1, <3>1
        <3>3. Append(t, s[k + 1]) \in Seq(Symbols)
            BY <3>2
        <3>4. Parse(Append(t, s[k + 1])) = ParseStep(Parse(t), s[k + 1])
            BY <3>2, ParseAppend
        <3>5. Parse(t) \in {"start", "bad"}
            BY <2>2
        <3>6. ParseStep(Parse(t), s[k + 1]) \in {"start", "bad"}
            BY <3>5 DEF ParseStep, Spaces
        <3> QED
            BY <3>1, <3>3, <3>4, <3>6
    <2>3. ASSUME NEW k \in a..(c - 1), NEW t \in Seq(Symbols), <<t, k>> \in R
          PROVE  <<t, k + 1>> \in R
        <3>1. k + 1 \in Nat
            BY <1>1
        <3> QED
            BY <2>3, <3>1
    <2> HIDE DEF R
    <2> QED
        BY <1>1, <2>1, <2>2, <2>3, TrimmedCarries
<1>5. Parse(buffer) \in {"start", "bad"}
    BY <1>4
<1>6. buffer = Trim(line)
    <2> HIDE DEF line
    <2> QED
        BY <1>3
<1>7. Parse(buffer) = "start" => buffer = <<>>
    <2>1. Parse(Trim(line)) = "start" => \A i \in 1..Len(Trim(line)) : Trim(line)[i] \in Spaces
        BY <1>3, StartIsBlank
    <2> QED
        BY <1>2, <1>6, <2>1, TrimNotBlank
<1>8. Consume(buffer)
    OBVIOUS
<1> HIDE DEF buffer
<1> QED
    BY <1>5, <1>7, <1>8 DEF Consume, Settle

(* What is kept between two candidates is not blank (usage.rs                 *)
(* UsageScanner::consume).                                                    *)
Kept(buffer) == buffer # <<>> => Parse(buffer) # "start"

LEMMA ConsumeKept ==
    ASSUME pending \in Seq(Symbols), Kept(pending), NEW line \in Seq(Symbols),
           NEW candidate \in {line, Trim(line)}, pending # <<>> \/ candidate = Trim(line),
           Consume(pending \o candidate)
    PROVE  Kept(pending')
<1>1. pending' \in {<<>>, pending \o candidate}
    BY DEF Consume, Settle
<1>2. candidate \in Seq(Symbols)
    BY TrimType
<1>3. CASE pending # <<>>
    BY <1>1, <1>2, <1>3, JoinedNotStart DEF Kept
<1>4. CASE pending = <<>>
    <2>1. candidate = <<>> \/ \E i \in 1..Len(candidate) : candidate[i] \notin Spaces
        BY <1>4, TrimNotBlank
    <2>2. CASE candidate = <<>>
        <3>1. pending \o candidate = <<>>
            BY <1>4, <2>2
        <3> QED
            BY <1>1, <3>1 DEF Kept
    <2>3. CASE \E i \in 1..Len(candidate) : candidate[i] \notin Spaces
        BY <1>1, <1>2, <2>3, JoinedNotStart DEF Kept
    <2> QED
        BY <2>1, <2>2, <2>3
<1> QED
    BY <1>3, <1>4

-----------------------------------------------------------------------------
(* The buffer and the usage in every state.                                   *)

(* What the cuts between clean frames promise: no marker is torn, nothing is  *)
(* cut behind an object that is too long, what continues an object has no     *)
(* other line in it, and what is left of a frame outside of the objects       *)
(* begins at the end of a line or not behind a marker.                        *)
Cuts ==
    /\ ~TearsMarker(sent) /\ ~CutBehindLong(sent)
    /\ open /\ rest # <<>> => ~ForeignLine(Position, sent)
    /\ rest # <<>> /\ ~Within(stream, Position) =>
          ~TearsMarker(Position) \/ stream[Position + 1] = "nl"

Settled == Kept(pending) /\ Cuts /\ Accounted(pending, usage, stream, Position)

(* The inductive invariant of clean frames (usage.rs UsageScanner).           *)
Accountable == Framed(stream) /\ clean /\ stream \notin MarkerInText => Settled

(* A plain answer has no marker at all, when there is none in its text.       *)
LEMMA PlainUnmarked ==
    ASSUME NEW s \in Streams, WellFormed(s), PlainAnswer(s), s \notin MarkerInText,
           NEW i \in 1..Len(s)
    PROVE  s[i] # "ta:"
<1> SUFFICES ASSUME s[i] = "ta:" PROVE FALSE
    OBVIOUS
<1>1. s \in Seq(Symbols) /\ Len(s) \in Nat /\ DOMAIN s = 1..Len(s)
    BY StreamAssumption
<1>2. s # <<>> /\ s[1] = "lbrace" /\ Head(s) = s[1]
    BY <1>1 DEF PlainAnswer
<1>3. i \in 2..Len(s)
    BY <1>1, <1>2
<1>4. Within(s, i - 1)
    BY <1>3 DEF PlainAnswer, Spaces
<1>5. i - 1 \in 0..(Len(s) - 1) /\ (i - 1) + 1 = i /\ i \in 0..Len(s)
    BY <1>1, <1>3
<1>6. Depths[s][i] = ParseStep(Depths[s][i - 1], "ta:")
    <2>1. Depths[s][(i - 1) + 1] = ParseStep(Depths[s][i - 1], s[(i - 1) + 1])
        BY <1>4, <1>5, WithinSteps
    <2> QED
        BY <1>5, <2>1
<1>7. Depths[s][i] # "bad"
    BY <1>5 DEF WellFormed
<1>8. "ta:" \notin DOMAIN Report
    BY StreamAssumption DEF Syntax
<1>9. Depths[s][i] = "string"
    BY <1>4, <1>6, <1>7, <1>8 DEF Within, ParseStep, Spaces, NotInString
<1> QED
    BY <1>1, <1>2, <1>9 DEF MarkerInText

(* What has been offered leaves the cuts as they are (usage.rs                *)
(* UsageScanner::push).                                                       *)
LEMMA OfferSettles ==
    ASSUME TypeOK, Faithful, Settled, NEW c \in Position..sent, NEW line \in Seq(Symbols),
           NEW candidate \in {line, Trim(line)}, pending # <<>> \/ candidate = Trim(line),
           Offer(candidate, SubSeq(stream, c + 1, sent)),
           c # sent /\ ~Within(stream, c) => ~TearsMarker(c) \/ stream[c + 1] = "nl",
           Accounted(pending', usage', stream, c)
    PROVE  Settled'
<1>1. /\ Position' = c /\ (rest' # <<>> => c # sent) /\ open' = FALSE
      /\ UNCHANGED <<stream, sent, clean>> /\ Consume(pending \o candidate)
    BY OfferPlaces
<1>2. Kept(pending')
    BY <1>1, RestIs, ConsumeKept DEF Settled
<1>3. Accounted(pending, usage, stream, Position)'
    BY <1>1
<1>4. (~TearsMarker(sent) /\ ~CutBehindLong(sent))'
    <2>1. ~TearsMarker(sent) /\ ~CutBehindLong(sent)
        BY DEF Settled, Cuts
    <2> QED
        BY <1>1, <2>1 DEF TearsMarker, CutBehindLong, Inside
<1>5. (rest # <<>> /\ ~Within(stream, Position) =>
          ~TearsMarker(Position) \/ stream[Position + 1] = "nl")'
    BY <1>1 DEF TearsMarker, Inside
<1> QED
    BY <1>1, <1>2, <1>3, <1>4, <1>5 DEF Settled, Cuts

(* A buffer that has lost the stream counts nothing until the next object     *)
(* begins (usage.rs UsageScanner::consume).                                   *)
LEMMA StrayGoesOn ==
    ASSUME stream \in Streams, WellFormed(stream), pending \in Seq(Symbols),
           NEW a \in 0..Len(stream), NEW c \in a..Len(stream),
           Astray(pending, stream, a), Tallied(usage, stream, a), Calm(stream, a, c),
           NEW candidate \in {SubSeq(stream, a + 1, c), Trim(SubSeq(stream, a + 1, c))},
           Consume(pending \o candidate)
    PROVE  Accounted(pending', usage', stream, c)
<1>1. Misaligned(pending, stream, a) /\ Behind(stream, a)
    BY DEF Astray
<1>2. Misaligned(pending \o candidate, stream, c)
    BY <1>1, MisalignedPiece
<1>3. Behind(stream, c) /\ \A n \in Ends[stream] : a < n /\ n <= c => n \in Endangered[stream]
    BY <1>1, BehindCarries
<1>4. Tallied(usage, stream, c)
    BY <1>3, TallyStays
<1>5. pending \o candidate \in Seq(Symbols)
    <2>1. stream \in Seq(Symbols)
        BY StreamAssumption
    <2>2. SubSeq(stream, a + 1, c) \in Seq(Symbols)
        BY <2>1, PieceIs
    <2>3. Trim(SubSeq(stream, a + 1, c)) \in Seq(Symbols)
        BY <2>2, TrimType
    <2> QED
        BY <2>2, <2>3, JoinedType
<1>6. Misaligned(pending', stream, c) /\ usage' = usage
    BY <1>2, <1>5, ConsumeStray
<1> QED
    BY <1>3, <1>4, <1>6 DEF Accounted, Astray

(* With an empty buffer outside of the objects, an object is begun, or there  *)
(* is no object (usage.rs UsageScanner::consume).                             *)
LEMMA FreshLine ==
    ASSUME stream \in Streams, WellFormed(stream), ~Within(stream, Len(stream)),
           NEW a \in 0..Len(stream), NEW c \in a..Len(stream),
           ~Within(stream, a), Tallied(usage, stream, a),
           \/ a # c /\ stream[a + 1] = "lbrace" /\ Trailing(stream, a + 1, c)
           \/ /\ Calm(stream, a, c)
              /\ \A k \in a..(c - 1) : ~Within(stream, k) =>
                    stream[k + 1] \in Spaces \cup {"da", "ta:", "word", "lbrace"},
           Consume(<<>> \o Trim(SubSeq(stream, a + 1, c)))
    PROVE  Accounted(pending', usage', stream, c)
<1> DEFINE s == stream
           line == SubSeq(s, a + 1, c)
           buffer == <<>> \o Trim(line)
<1>1. /\ s \in Seq(Symbols) /\ Len(s) \in Nat /\ c \in 0..Len(s) /\ a \in Nat /\ c \in Nat /\ a <= c
    BY StreamAssumption
<1>2. line \in Seq(Symbols)
    BY <1>1, PieceIs
<1>3. CASE a # c /\ s[a + 1] = "lbrace" /\ Trailing(s, a + 1, c)
    <2>1. a \in 0..(Len(s) - 1) /\ c \in (a + 1)..Len(s) /\ \A l \in (a + 1)..a : Within(s, l)
        BY <1>1, <1>3
    <2>2. Holds(buffer, s, a + 1, c)
        BY <1>1, <1>3, <2>1, HoldsLine
    <2>3. buffer \in Seq(Symbols) /\ Consume(buffer)
        BY <1>2, TrimType, JoinedType
    <2> HIDE DEF buffer
    <2> QED
        BY <1>1, <2>1, <2>2, <2>3, ConsumeHeld
<1>4. CASE /\ Calm(s, a, c)
           /\ \A k \in a..(c - 1) : ~Within(s, k) =>
                 s[k + 1] \in Spaces \cup {"da", "ta:", "word", "lbrace"}
    <2>1. \A n \in a..c : ~Within(s, n) /\ (n # a => n \notin Ends[s])
        BY <1>4, CalmGap
    <2>2. \A k \in a..(c - 1) : s[k + 1] \in Spaces \cup {"da", "ta:", "word"}
        <3>1. \A k \in a..(c - 1) : k \in a..c
            BY <1>1
        <3> QED
            BY <1>4, <2>1, <3>1 DEF Calm
    <2>3. pending' = <<>> /\ usage' = usage
        BY <2>2, ConsumeText
    <2>4. InStep(<<>>, s, c)
        BY <1>1, <2>1 DEF InStep
    <2>5. \A n \in Ends[s] : a < n /\ n <= c => n \in Endangered[s]
        <3>1. \A n \in Ends[s] : n \in Nat
            BY EndIs
        <3>2. \A n \in Nat : a < n /\ n <= c => n \in a..c /\ n # a
            BY <1>1
        <3> QED
            BY <2>1, <3>1, <3>2
    <2>6. Tallied(usage, s, c)
        BY <2>5, TallyStays
    <2> QED
        BY <2>3, <2>4, <2>6 DEF Accounted
<1> QED
    BY <1>3, <1>4

(* Where a frame that continues an object goes on (usage.rs                   *)
(* Candidates::next, the continuation).                                       *)
LEMMA ContinuationSettles ==
    ASSUME TypeOK, Faithful, Framed(stream), stream \notin MarkerInText, Settled, OfferContinuation
    PROVE  Settled'
<1> DEFINE s == stream
           a == Position
<1>1. PICK c \in Position..sent :
              /\ Offer(SubSeq(stream, Position + 1, c), SubSeq(stream, c + 1, sent))
              /\ Unmarked(stream, Position, c)
              /\ c # sent => c + 2 \in c..sent /\ stream[c + 1] = "da" /\ stream[c + 2] = "ta:"
    BY ContinuationPlace
<1>2. /\ s \in Streams /\ s \in Seq(Symbols) /\ Len(s) \in Nat /\ sent \in 0..Len(s) /\ sent \in Nat
      /\ pending \in Seq(Symbols) /\ a \in 0..sent /\ a \in 0..Len(s) /\ sent \in a..Len(s) /\ a \in Nat
    BY RestIs
<1>3. c \in a..Len(s) /\ c \in 0..Len(s) /\ c \in 0..sent /\ c \in Nat /\ c <= sent
    BY <1>1, <1>2
<1>4. open /\ rest # <<>> /\ pending # <<>> /\ a # sent
    BY RestIs DEF OfferContinuation, Continues, TypeOK
<1>5. WellFormed(s) /\ ~Within(s, Len(s)) /\ (EventStream(s) \/ PlainAnswer(s))
    BY DEF Framed
<1>6. Consume(pending \o SubSeq(s, a + 1, c))
    BY <1>1, OfferPlaces
<1>7. SubSeq(s, a + 1, c) \in Seq(Symbols)
    BY <1>2, <1>3, PieceIs
<1>8. Tallied(usage, s, a) /\ (InStep(pending, s, a) \/ Astray(pending, s, a))
    BY DEF Settled, Accounted
<1>9. /\ ~TearsMarker(sent) /\ ~ForeignLine(a, sent)
      /\ ~Within(s, a) => ~TearsMarker(a) \/ s[a + 1] = "nl"
    BY <1>4 DEF Settled, Cuts
<1>10. Offer(SubSeq(s, a + 1, c), SubSeq(s, c + 1, sent)) /\ Unmarked(s, a, c) /\ c \in a..sent
    BY <1>1
<1> HIDE DEF a
<1>11. PlainAnswer(s) => c = sent
    <2>1. c # sent => c + 2 \in 1..Len(s)
        BY <1>1, <1>2, <1>3
    <2> QED
        BY <1>1, <1>2, <1>5, <2>1, PlainUnmarked
<1>12. ~Within(s, c) /\ c # sent => ~TearsMarker(c)
    <2>1. SUFFICES ASSUME ~Within(s, c), c # sent PROVE ~TearsMarker(c)
        OBVIOUS
    <2>2. EventStream(s) /\ c \in 0..(Len(s) - 1) /\ s[c + 1] = "da"
        BY <1>1, <1>2, <1>3, <1>5, <1>11, <2>1
    <2>3. c = 0 \/ s[c] = "nl"
        BY <1>2, <1>5, <2>1, <2>2, OutsideIs
    <2>4. 0 \notin DOMAIN s
        BY <1>2
    <2> QED
        BY <2>3, <2>4 DEF TearsMarker
<1>13. PlainAnswer(s) /\ a # 0 => Trailing(s, a, c)
    <2>1. a # 0 => a \in 1..Len(s)
        BY <1>2
    <2> QED
        BY <1>2, <1>3, <2>1, PlainTrailing
<1>14. Accounted(pending', usage', s, c)
    <2>1. CASE Within(s, a)
        <3>1. a # 0
            BY <1>2, <1>5, <2>1, AtFirst
        <3>2. ~ForeignLine(a, c)
            <4>1. \A i \in (a + 1)..c : i \in (a + 1)..sent
                BY <1>2, <1>3
            <4> QED
                BY <1>9, <4>1 DEF ForeignLine
        <3>3. ~TearsMarker(c) \/ s[c + 1] = "da"
            BY <1>1, <1>9
        <3>4. Trailing(s, a, c)
            BY <1>2, <1>3, <1>5, <1>10, <1>13, <2>1, <3>1, <3>2, <3>3, TrailingBeforeMarker
        <3>5. CASE InStep(pending, s, a)
            <4>1. PICK m \in 1..a : Holds(pending, s, m, a)
                BY <2>1, <3>5 DEF InStep
            <4>2. \A l \in m..a : Within(s, l)
                BY <2>1, <4>1 DEF Holds, Open, Ended
            <4>3. ~(a < m)
                BY <1>2, <4>1
            <4>4. Holds(pending \o SubSeq(s, a + 1, c), s, m, c)
                BY <1>2, <1>3, <1>5, <3>4, <4>1, HoldsPiece
            <4>5. pending \o SubSeq(s, a + 1, c) \in Seq(Symbols)
                BY <1>2, <1>7, JoinedType
            <4> QED
                BY <1>2, <1>3, <1>5, <1>6, <1>8, <4>2, <4>3, <4>4, <4>5, ConsumeHeld
        <3>6. CASE Astray(pending, s, a)
            BY <1>2, <1>3, <1>5, <1>6, <1>8, <3>4, <3>6, TrailingCalm, StrayGoesOn
        <3> QED
            BY <1>8, <3>5, <3>6
    <2>2. CASE ~Within(s, a)
        <3>1. Astray(pending, s, a)
            BY <1>4, <1>8, <2>2 DEF InStep
        <3>2. a # 0
            BY <1>2, <1>5, <3>1, AtFirst DEF Astray
        <3>3. Calm(s, a, c)
            <4>1. CASE EventStream(s)
                BY <1>2, <1>3, <1>5, <1>9, <1>10, <2>2, <4>1, CalmBeforeMarker
            <4>2. CASE PlainAnswer(s)
                BY <1>13, <3>2, <4>2, TrailingCalm
            <4> QED
                BY <1>5, <4>1, <4>2
        <3> QED
            BY <1>2, <1>3, <1>5, <1>6, <1>8, <3>1, <3>3, StrayGoesOn
    <2> QED
        BY <2>1, <2>2
<1> QED
    BY <1>1, <1>4, <1>7, <1>12, <1>14, OfferSettles DEF a

(* How a frame without a marker is taken (usage.rs Candidates::next, the      *)
(* plain body).                                                               *)
LEMMA PlainSettles ==
    ASSUME TypeOK, Faithful, Framed(stream), stream \notin MarkerInText, Settled, OfferPlain
    PROVE  Settled'
<1> DEFINE s == stream
           a == Position
<1>1. /\ s \in Streams /\ s \in Seq(Symbols) /\ Len(s) \in Nat /\ sent \in 0..Len(s) /\ sent \in Nat
      /\ pending \in Seq(Symbols) /\ a \in 0..sent /\ a \in 0..Len(s) /\ sent \in a..Len(s) /\ a \in Nat
      /\ rest = SubSeq(s, a + 1, sent)
    BY RestIs
<1>2. ~open /\ rest # <<>> /\ a # sent /\ FirstMarker(rest) = 0
    BY RestIs DEF OfferPlain, Continues
<1>3. WellFormed(s) /\ ~Within(s, Len(s)) /\ (EventStream(s) \/ PlainAnswer(s))
    BY DEF Framed
<1>4. sent \in Position..sent /\ SubSeq(s, sent + 1, sent) = <<>>
    BY <1>1
<1>5. Offer(Trim(SubSeq(s, a + 1, sent)), SubSeq(s, sent + 1, sent))
    BY <1>1, <1>4 DEF OfferPlain
<1>6. Consume(pending \o Trim(SubSeq(s, a + 1, sent)))
    BY <1>4, <1>5, OfferPlaces
<1>7. SubSeq(s, a + 1, sent) \in Seq(Symbols)
    BY <1>1, PieceIs
<1>8. Tallied(usage, s, a) /\ (InStep(pending, s, a) \/ Astray(pending, s, a))
    BY DEF Settled, Accounted
<1>9. ~Within(s, a) => ~TearsMarker(a) \/ s[a + 1] = "nl"
    BY <1>2 DEF Settled, Cuts
<1>10. pending = <<>> \/ ~Within(s, a)
    BY <1>2 DEF Faithful, Within
<1>11. Unmarked(s, a, sent)
    BY <1>2, <1>4, UnmarkedBefore
<1> HIDE DEF a
<1>12. PlainAnswer(s) /\ a # 0 => Trailing(s, a, sent)
    <2>1. a # 0 => a \in 1..Len(s)
        BY <1>1
    <2> QED
        BY <1>1, <2>1, PlainTrailing
<1>13. Accounted(pending', usage', s, sent)
    <2>1. CASE PlainAnswer(s) /\ a = 0
        <3>1. ~Within(s, a) /\ ~Behind(s, a)
            BY <1>1, <1>3, <2>1, AtFirst
        <3>2. pending = <<>>
            BY <1>8, <3>1 DEF InStep, Astray
        <3>3. s[a + 1] = "lbrace" /\ sent \in (a + 1)..Len(s) /\ a + 1 \in 1..Len(s)
            BY <1>1, <1>2, <2>1 DEF PlainAnswer
        <3>4. Trailing(s, a + 1, sent)
            BY <1>1, <2>1, <3>3, PlainTrailing
        <3>5. Consume(<<>> \o Trim(SubSeq(s, a + 1, sent)))
            BY <1>6, <3>2
        <3> QED
            BY <1>1, <1>2, <1>3, <1>8, <3>1, <3>3, <3>4, <3>5, FreshLine
    <2>2. CASE ~(PlainAnswer(s) /\ a = 0)
        <3>1. Calm(s, a, sent)
            <4>1. CASE EventStream(s)
                BY <1>1, <1>3, <1>9, <1>11, <4>1, CalmBeforeMarker
            <4>2. CASE PlainAnswer(s)
                BY <1>12, <2>2, <4>2, TrailingCalm
            <4> QED
                BY <1>3, <4>1, <4>2
        <3>2. CASE Astray(pending, s, a)
            BY <1>1, <1>3, <1>6, <1>8, <3>1, <3>2, StrayGoesOn
        <3>3. CASE InStep(pending, s, a)
            <4>1. ~Within(s, a)
                BY <1>1, <1>3, <1>10, <3>3, HoldsSomething
            <4>2. pending = <<>>
                BY <3>3, <4>1 DEF InStep
            <4>3. ASSUME NEW k \in a..(sent - 1), ~Within(s, k)
                  PROVE  s[k + 1] \in Spaces \cup {"da", "ta:", "word", "lbrace"}
                <5>1. k \in 0..(Len(s) - 1)
                    BY <1>1
                <5>2. CASE EventStream(s)
                    BY <1>1, <1>3, <4>3, <5>1, <5>2, OutsideIs
                <5>3. CASE PlainAnswer(s)
                    BY <1>12, <2>2, <4>3, <5>3 DEF Trailing
                <5> QED
                    BY <1>3, <5>2, <5>3
            <4>4. Consume(<<>> \o Trim(SubSeq(s, a + 1, sent)))
                BY <1>6, <4>2
            <4> QED
                BY <1>1, <1>3, <1>8, <3>1, <4>1, <4>3, <4>4, FreshLine
        <3> QED
            BY <1>8, <3>2, <3>3
    <2> QED
        BY <2>1, <2>2
<1> QED
    BY <1>4, <1>5, <1>7, <1>13, OfferSettles DEF a

(* Behind an object that is too long, what is left of it in the buffer        *)
(* swallows the next object, but never one that is cut (usage.rs              *)
(* UsageScanner::consume).                                                    *)
LEMMA StraySwallows ==
    ASSUME stream \in Streams, WellFormed(stream), pending \in Seq(Symbols), Kept(pending), pending # <<>>,
           NEW r \in 0..(Len(stream) - 1), NEW c \in (r + 1)..Len(stream),
           ~Within(stream, r), stream[r + 1] = "lbrace", Trailing(stream, r + 1, c),
           Astray(pending, stream, r), Tallied(usage, stream, r),
           Within(stream, c) => c \notin Endangered[stream],
           Consume(pending \o Trim(SubSeq(stream, r + 1, c)))
    PROVE  Accounted(pending', usage', stream, c)
<1> DEFINE s == stream
           buffer == pending \o Trim(SubSeq(s, r + 1, c))
<1>1. /\ s \in Seq(Symbols) /\ Len(s) \in Nat /\ r \in Nat /\ c \in Nat /\ r \in 0..Len(s) /\ r + 1 \in 0..Len(s)
      /\ c \in r..Len(s) /\ c \in 1..Len(s) /\ r + 1 <= c /\ c \in 0..Len(s) /\ c <= Len(s)
    BY StreamAssumption
<1>2. Misaligned(pending, s, r) /\ Parse(pending) # "start"
    BY DEF Astray, Kept
<1>3. PICK t \in TooLong[s] : t <= r /\ \A n \in Ends[s] : t < n /\ n <= r => Reported[s][n] = None
    <2>1. PICK t \in TooLong[s] :
             \/ r < t /\ \A l \in r..(t - 1) : Within(s, l)
             \/ t <= r /\ ~Within(s, r) /\ \A n \in Ends[s] : t < n /\ n <= r => Reported[s][n] = None
        BY DEF Astray, Behind
    <2>2. ~(r < t /\ \A l \in r..(t - 1) : Within(s, l))
        <3>1. t \in Nat
            BY TooLongIs
        <3>2. r < t => r \in r..(t - 1)
            BY <1>1, <3>1
        <3> QED
            BY <3>2
    <2> QED
        BY <2>1, <2>2
<1>4. t \in Nat /\ \A n \in Ends[s] : n \in Nat
    BY TooLongIs, EndIs
<1>5. Within(s, r + 1) /\ r + 1 \notin Ends[s]
    BY WithinSteps
<1>6. Calm(s, r + 1, c)
    BY TrailingCalm
<1>7. /\ Misaligned(buffer, s, c)
      /\ (\E l \in (r + 1)..c : s[l] \in DOMAIN Report) => Parse(buffer) = "bad"
    BY <1>1, <1>2, MisalignedLine
<1>8. buffer \in Seq(Symbols) /\ Consume(buffer)
    <2>1. SubSeq(s, r + 1, c) \in Seq(Symbols)
        BY <1>1, PieceIs
    <2>2. Trim(SubSeq(s, r + 1, c)) \in Seq(Symbols)
        BY <2>1, TrimType
    <2> QED
        BY <2>2, JoinedType
<1> HIDE DEF buffer
<1>9. Misaligned(pending', s, c) /\ usage' = usage /\ (Parse(buffer) = "bad" => pending' = <<>>)
    BY <1>7, <1>8, ConsumeStray
<1>10. \A n \in Ends[s] : r < n /\ n <= c => r + 1 < n
    <2>1. \A n \in Ends[s] : r < n => n = r + 1 \/ r + 1 < n
        BY <1>1, <1>4
    <2> QED
        BY <1>5, <2>1
<1>11. ~Within(s, c)
    <2>1. SUFFICES ASSUME Within(s, c) PROVE c \in Endangered[s]
        OBVIOUS
    <2>2. ASSUME NEW n \in Ends[s], r < n, n <= c PROVE FALSE
        <3>1. n \in (r + 1)..Len(s) /\ n \in 0..Len(s) /\ c \in n..Len(s) /\ r + 1 < n /\ ~Within(s, n)
            BY <1>1, <1>4, <1>10, <2>2, EndIs
        <3>2. PICK e \in Ends[s] : r + 1 < e /\ e <= n /\ \A l \in (r + 1)..(e - 1) : Within(s, l)
            BY <1>1, <1>5, <3>1, NextEnd
        <3>3. e \in Nat /\ e <= c
            BY <1>1, <1>4, <2>2, <3>2
        <3>4. \A l \in e..c : ~Within(s, l)
            BY <1>1, <1>6, <3>2, <3>3, CalmEnds
        <3> QED
            BY <1>1, <2>1, <3>3, <3>4
    <2>3. \A n \in Ends[s] : t < n /\ n < c => Reported[s][n] = None
        <3>1. \A n \in Ends[s] : t < n /\ n < c => n <= r
            BY <1>1, <1>4, <2>2
        <3> QED
            BY <1>3, <3>1
    <2> QED
        BY <1>1, <1>3, <1>4, <2>3, EndangeredIs
<1>12. PICK e \in Ends[s] : r + 1 < e /\ e <= c /\ \A l \in (r + 1)..(e - 1) : Within(s, l)
    BY <1>1, <1>5, <1>11, NextEnd
<1>13. \A n \in Ends[s] : r < n /\ n <= c => n = e
    BY <1>1, <1>6, <1>10, <1>12, CalmEnds
<1>14. e \in Endangered[s]
    <2>1. \A n \in Ends[s] : t < n /\ n < e => n <= r
        BY <1>1, <1>4, <1>12, <1>13
    <2>2. e \in 1..Len(s) /\ t <= e
        BY <1>1, <1>3, <1>4, <1>12, EndIs
    <2> QED
        BY <1>3, <2>1, <2>2, EndangeredIs
<1>15. Tallied(usage, s, c)
    BY <1>1, <1>13, <1>14, TallyStays
<1>16. CASE Reported[s][e] = None
    <2>1. t <= c
        BY <1>1, <1>3, <1>4
    <2>2. \A n \in Ends[s] : t < n /\ n <= c => n <= r \/ n = e
        BY <1>1, <1>4, <1>13
    <2>3. Behind(s, c)
        BY <1>3, <1>11, <1>16, <2>1, <2>2 DEF Behind
    <2> QED
        BY <1>9, <1>15, <2>3 DEF Accounted, Astray
<1>17. CASE Reported[s][e] # None
    <2>1. r + 1 \in 1..e /\ (r + 1) - 1 = r /\ \A l \in (r + 1)..e : l \in (r + 1)..c
        BY <1>1, <1>4, <1>12
    <2>2. \E l \in (r + 1)..e : s[l] \in DOMAIN Report
        BY <1>12, <1>17, <2>1, ReportedIs
    <2>3. pending' = <<>>
        BY <1>7, <1>9, <2>1, <2>2
    <2>4. InStep(<<>>, s, c)
        BY <1>11 DEF InStep
    <2> QED
        BY <1>9, <1>15, <2>3, <2>4 DEF Accounted
<1> QED
    BY <1>16, <1>17

(* A marker and the blank behind it are within an object or outside of the    *)
(* objects as a whole.                                                        *)
LEMMA MarkerWithin ==
    ASSUME NEW s \in Streams, WellFormed(s), NEW q \in 0..Len(s), NEW r \in q..Len(s),
           r = q + 2 \/ r = q + 3, \A k \in q..(r - 1) : s[k + 1] \in {"da", "ta:", "space"}
    PROVE  \A k \in q..r : Within(s, k) <=> Within(s, q)
<1>1. Len(s) \in Nat
    BY StreamAssumption
<1>2. ASSUME NEW k \in q..(r - 1) PROVE Within(s, k + 1) <=> Within(s, k)
    <2>1. k \in 0..(Len(s) - 1)
        BY <1>1
    <2> QED
        BY <2>1, WithinSteps
<1>3. q \in q..(r - 1) /\ q + 1 \in q..(r - 1) /\ (r = q + 3 => q + 2 \in q..(r - 1))
    BY <1>1
<1>4. \A k \in q..r : k = q \/ k = q + 1 \/ k = q + 2 \/ (k = q + 3 /\ r = q + 3)
    BY <1>1
<1>5. q + 1 + 1 = q + 2 /\ q + 2 + 1 = q + 3
    BY <1>1
<1>6. /\ Within(s, q + 1) <=> Within(s, q)
      /\ Within(s, q + 2) <=> Within(s, q + 1)
      /\ r = q + 3 => (Within(s, q + 3) <=> Within(s, q + 2))
    BY <1>2, <1>3, <1>5
<1> QED
    BY <1>4, <1>6

(* Within an object the buffer goes on behind a marker in one of its strings; *)
(* outside an object begins, or none does (usage.rs Candidates::next, the     *)
(* payload).                                                                  *)
LEMMA PayloadSettles ==
    ASSUME TypeOK, Faithful, Framed(stream), stream \notin MarkerInText, Settled, OfferPayload
    PROVE  Settled'
<1> DEFINE s == stream
           a == Position
<1>1. PICK q \in Position..sent, r \in 0..sent, c \in 0..sent :
              /\ r = q + 2 \/ r = q + 3
              /\ r <= c /\ FirstMarker(rest) = q - Position + 1
              /\ Unmarked(stream, Position, q)
              /\ stream[q + 1] = "da" /\ stream[q + 2] = "ta:"
              /\ r = q + 3 => stream[r] = "space"
              /\ r = q + 2 /\ r # sent => stream[r + 1] # "space"
              /\ \A i \in (r + 1)..c : stream[i] # "nl"
              /\ c # sent => stream[c + 1] = "nl"
              /\ Offer(Trim(SubSeq(stream, r + 1, c)), SubSeq(stream, c + 1, sent))
    BY PayloadPlace
<1>2. /\ s \in Streams /\ s \in Seq(Symbols) /\ Len(s) \in Nat /\ sent \in 0..Len(s) /\ sent \in Nat
      /\ pending \in Seq(Symbols) /\ a \in 0..sent /\ a \in 0..Len(s) /\ sent \in a..Len(s) /\ a \in Nat
    BY RestIs
<1>3. WellFormed(s) /\ ~Within(s, Len(s)) /\ (EventStream(s) \/ PlainAnswer(s))
    BY DEF Framed
<1>4. rest # <<>> /\ ~Continues
    BY DEF OfferPayload
<1>5. Tallied(usage, s, a) /\ (InStep(pending, s, a) \/ Astray(pending, s, a))
    BY DEF Settled, Accounted
<1>6. (~Within(s, a) => ~TearsMarker(a) \/ s[a + 1] = "nl") /\ ~CutBehindLong(sent) /\ Kept(pending)
    BY <1>4 DEF Settled, Cuts
<1>7. pending # <<>> => FirstMarker(rest) = 1 \/ ~Within(s, a)
    BY <1>4 DEF Faithful, Within, Continues
<1>8. /\ q \in a..sent /\ FirstMarker(rest) = q - a + 1 /\ Unmarked(s, a, q)
    BY <1>1
<1>9. c \in Position..sent
    BY <1>1, <1>2
<1>10. Consume(pending \o Trim(SubSeq(s, r + 1, c)))
    BY <1>1, <1>9, OfferPlaces
<1> HIDE DEF a
<1>11. /\ q \in 0..Len(s) /\ q \in a..Len(s) /\ q \in Nat /\ r \in q..Len(s) /\ r \in 0..Len(s) /\ r \in Nat
       /\ r \in a..Len(s) /\ c \in r..Len(s) /\ c \in 0..Len(s) /\ c \in a..Len(s) /\ c \in Nat /\ r \in 2..Len(s)
       /\ q + 2 \in 1..Len(s)
    BY <1>1, <1>2, <1>8
<1>12. EventStream(s)
    BY <1>1, <1>2, <1>3, <1>11, PlainUnmarked
<1>13. \A k \in q..(r - 1) : s[k + 1] \in {"da", "ta:", "space"}
    <2>1. \A k \in q..(r - 1) : k = q \/ k = q + 1 \/ (k = q + 2 /\ r = q + 3)
        BY <1>1, <1>11
    <2>2. q + 1 + 1 = q + 2 /\ q + 2 + 1 = q + 3
        BY <1>11
    <2> QED
        BY <1>1, <2>1, <2>2
<1>14. \A k \in q..r : Within(s, k) <=> Within(s, q)
    BY <1>1, <1>2, <1>3, <1>11, <1>13, MarkerWithin
<1>15. Within(s, r) <=> Within(s, q)
    BY <1>11, <1>14
<1>16. Calm(s, a, q)
    BY <1>2, <1>3, <1>6, <1>8, <1>11, <1>12, CalmBeforeMarker
<1>17. Calm(s, a, r)
    <2>1. \A k \in a..(r - 1) : k \in a..(q - 1) \/ k \in q..(r - 1)
        BY <1>2, <1>11
    <2> QED
        BY <1>13, <1>16, <2>1 DEF Calm
<1>18. ~Within(s, a) => ~Within(s, q)
    <2>1. q \in a..q
        BY <1>2, <1>11
    <2> QED
        BY <1>2, <1>3, <1>11, <1>16, <2>1, CalmGap
<1>19. pending # <<>> => q = a \/ ~Within(s, a)
    BY <1>2, <1>7, <1>8, <1>11
<1>20. \A i \in (r + 1)..c : s[i] # "nl"
    BY <1>1
<1>21. Within(s, r) => Trailing(s, r, c)
    BY <1>2, <1>3, <1>11, <1>12, <1>20, LineTrailing
<1>22. SubSeq(s, r + 1, c) \in Seq(Symbols)
    BY <1>2, <1>11, PieceIs
<1>23. c # sent => ~Within(s, c)
    <2>1. c # sent => c \in 0..(Len(s) - 1) /\ q + 2 <= c
        BY <1>1, <1>2, <1>11
    <2> QED
        BY <1>1, <1>2, <1>3, <1>11, <2>1, LineEndsOutside
<1>24. Astray(pending, s, a) /\ Misaligned(pending, s, r) =>
          Astray(pending, s, r) /\ Tallied(usage, s, r)
    <2>1. SUFFICES ASSUME Behind(s, a), Misaligned(pending, s, r)
                   PROVE  Astray(pending, s, r) /\ Tallied(usage, s, r)
        BY DEF Astray
    <2>2. Behind(s, r) /\ \A n \in Ends[s] : a < n /\ n <= r => n \in Endangered[s]
        BY <1>2, <1>3, <1>11, <1>17, <2>1, BehindCarries
    <2> QED
        BY <1>2, <1>3, <1>5, <1>11, <2>1, <2>2, TallyStays DEF Astray
<1>25. CASE Within(s, q)
    <2>1. Within(s, a) /\ Trailing(s, r, c)
        BY <1>15, <1>18, <1>21, <1>25
    <2>2. CASE InStep(pending, s, a)
        <3>1. q = a
            BY <1>2, <1>3, <1>19, <2>1, <2>2, HoldsSomething
        <3>2. PICK m \in 1..a : Holds(pending, s, m, a)
            BY <2>1, <2>2 DEF InStep
        <3>3. \A l \in m..a : Within(s, l)
            BY <2>1, <3>2 DEF Holds, Open, Ended
        <3>4. ASSUME NEW k \in q..(r - 1), Holds(pending, s, m, k) PROVE Holds(pending, s, m, k + 1)
            <4>1. k \in 0..(Len(s) - 1) /\ k \in q..r
                BY <1>2, <1>11
            <4>2. Within(s, k) /\ s[k + 1] \in Spaces \cup {"da", "ta:"}
                BY <1>13, <1>14, <1>25, <4>1 DEF Spaces
            <4> QED
                BY <1>2, <1>3, <3>4, <4>1, <4>2, HoldsSkip
        <3>5. Holds(pending, s, m, r)
            <4>1. q \in q..(r - 1) /\ q + 1 \in q..(r - 1) /\ (r = q + 3 => q + 2 \in q..(r - 1))
                BY <1>1, <1>11
            <4>2. q + 1 + 1 = q + 2 /\ q + 2 + 1 = q + 3
                BY <1>11
            <4>3. Holds(pending, s, m, q + 1)
                BY <3>1, <3>2, <3>4, <4>1
            <4>4. Holds(pending, s, m, q + 2)
                BY <3>4, <4>1, <4>2, <4>3
            <4> QED
                BY <1>1, <3>4, <4>1, <4>2, <4>4
        <3> DEFINE buffer == pending \o Trim(SubSeq(s, r + 1, c))
        <3>6. Holds(buffer, s, m, c)
            BY <1>2, <1>3, <1>11, <2>1, <3>5, HoldsPiece
        <3>7. buffer \in Seq(Symbols)
            BY <1>2, <1>22, TrimType, JoinedType
        <3>8. ~(a < m) /\ Consume(buffer)
            BY <1>2, <1>10, <3>2
        <3> HIDE DEF buffer
        <3>9. Accounted(pending', usage', s, c)
            BY <1>2, <1>3, <1>5, <1>11, <3>3, <3>6, <3>7, <3>8, ConsumeHeld
        <3> QED
            BY <1>1, <1>9, <1>22, <1>23, <3>9, OfferSettles
    <2>3. CASE Astray(pending, s, a)
        <3>1. Misaligned(pending, s, r)
            <4>1. CASE pending = <<>>
                BY <4>1, MisalignedNothing
            <4>2. CASE pending # <<>>
                <5>1. q = a /\ Misaligned(pending, s, q)
                    BY <1>19, <2>1, <2>3, <4>2 DEF Astray
                <5>2. ASSUME NEW k \in q..(r - 1), Misaligned(pending, s, k)
                      PROVE  Misaligned(pending, s, k + 1)
                    <6>1. k \in 0..(Len(s) - 1) /\ s[k + 1] \in Spaces \cup {"da", "ta:"}
                        BY <1>2, <1>11, <1>13 DEF Spaces
                    <6> QED
                        BY <1>2, <1>3, <5>2, <6>1, MisalignedSkip
                <5>3. q \in q..(r - 1) /\ q + 1 \in q..(r - 1) /\ (r = q + 3 => q + 2 \in q..(r - 1))
                    BY <1>1, <1>11
                <5>4. q + 1 + 1 = q + 2 /\ q + 2 + 1 = q + 3
                    BY <1>11
                <5>5. Misaligned(pending, s, q + 1)
                    BY <5>1, <5>2, <5>3
                <5>6. Misaligned(pending, s, q + 2)
                    BY <5>2, <5>3, <5>4, <5>5
                <5> QED
                    BY <1>1, <5>2, <5>3, <5>4, <5>6
            <4> QED
                BY <4>1, <4>2
        <3>2. Accounted(pending', usage', s, c)
            BY <1>2, <1>3, <1>10, <1>11, <1>24, <2>1, <2>3, <3>1, TrailingCalm, StrayGoesOn
        <3> QED
            BY <1>1, <1>9, <1>22, <1>23, <3>2, OfferSettles
    <2> QED
        BY <1>5, <2>2, <2>3
<1>26. CASE ~Within(s, q)
    <2>1. ~Within(s, r)
        BY <1>15, <1>26
    <2>2. (r # c /\ s[r + 1] = "lbrace") \/ Calm(s, r, c)
        <3>1. s[r] = "ta:" \/ (s[r] = "space" /\ s[r - 1] = "ta:")
            <4>1. r = q + 3 => r - 1 = q + 2
                BY <1>11
            <4> QED
                BY <1>1, <4>1
        <3>2. s[r] = "ta:" /\ r # c => s[r + 1] # "space"
            <4>1. r # c => r # sent
                BY <1>1, <1>2, <1>11
            <4>2. s[r] = "ta:" => r = q + 2
                BY <1>1
            <4> QED
                BY <1>1, <4>1, <4>2
        <3> QED
            BY <1>2, <1>3, <1>11, <1>12, <1>20, <2>1, <3>1, <3>2, LineBegins
    <2>3. r # c /\ s[r + 1] = "lbrace" =>
             /\ r \in 0..(Len(s) - 1) /\ c \in (r + 1)..Len(s) /\ Trailing(s, r + 1, c)
        <3>1. SUFFICES ASSUME r # c, s[r + 1] = "lbrace"
                       PROVE  /\ r \in 0..(Len(s) - 1) /\ c \in (r + 1)..Len(s)
                              /\ Trailing(s, r + 1, c)
            OBVIOUS
        <3>2. r \in 0..(Len(s) - 1) /\ c \in (r + 1)..Len(s) /\ r + 1 \in 0..Len(s)
            BY <1>2, <1>11, <3>1
        <3>3. Within(s, r + 1)
            BY <1>2, <1>3, <2>1, <3>1, <3>2, WithinSteps
        <3>4. \A i \in ((r + 1) + 1)..c : s[i] # "nl"
            <4>1. \A i \in ((r + 1) + 1)..c : i \in (r + 1)..c
                BY <1>11
            <4> QED
                BY <1>20, <4>1
        <3> QED
            BY <1>2, <1>3, <1>12, <3>2, <3>3, <3>4, LineTrailing
    <2>4. CASE pending = <<>>
        <3>1. Tallied(usage, s, r)
            <4>1. CASE InStep(pending, s, a)
                <5>1. ~Within(s, a)
                    BY <1>2, <1>3, <2>4, <4>1, HoldsSomething
                <5>2. \A n \in a..r : ~Within(s, n) /\ (n # a => n \notin Ends[s])
                    BY <1>2, <1>3, <1>11, <1>17, <5>1, CalmGap
                <5>3. \A n \in Ends[s] : a < n /\ n <= r => n \in Endangered[s]
                    <6>1. \A n \in Ends[s] : n \in Nat
                        BY <1>2, <1>3, EndIs
                    <6>2. \A n \in Nat : a < n /\ n <= r => n \in a..r /\ n # a
                        BY <1>2
                    <6> QED
                        BY <5>2, <6>1, <6>2
                <5> QED
                    BY <1>2, <1>3, <1>5, <1>11, <5>3, TallyStays
            <4>2. CASE Astray(pending, s, a)
                BY <1>24, <2>4, <4>2, MisalignedNothing
            <4> QED
                BY <1>5, <4>1, <4>2
        <3>2. \A k \in r..(c - 1) : ~Within(s, k) =>
                 s[k + 1] \in Spaces \cup {"da", "ta:", "word", "lbrace"}
            <4>1. \A k \in r..(c - 1) : k \in 0..(Len(s) - 1)
                BY <1>2, <1>11
            <4> QED
                BY <1>2, <1>3, <1>12, <4>1, OutsideIs
        <3>3. Consume(<<>> \o Trim(SubSeq(s, r + 1, c)))
            BY <1>10, <2>4
        <3>4. Accounted(pending', usage', s, c)
            BY <1>2, <1>3, <1>11, <2>1, <2>2, <2>3, <3>1, <3>2, <3>3, FreshLine
        <3> QED
            BY <1>1, <1>9, <1>22, <1>23, <3>4, OfferSettles
    <2>5. CASE pending # <<>>
        <3>1. ~Within(s, a)
            BY <1>19, <1>26, <2>5
        <3>2. Astray(pending, s, a)
            BY <1>5, <2>5, <3>1 DEF InStep
        <3>3. Misaligned(pending, s, r)
            BY <2>1, <3>1, <3>2, MisalignedAcross DEF Astray
        <3>4. Astray(pending, s, r) /\ Tallied(usage, s, r)
            BY <1>24, <3>2, <3>3
        <3>5. Accounted(pending', usage', s, c)
            <4>1. CASE Calm(s, r, c)
                BY <1>2, <1>3, <1>10, <1>11, <3>4, <4>1, StrayGoesOn
            <4>2. CASE r # c /\ s[r + 1] = "lbrace"
                <5>1. Within(s, c) => c \notin Endangered[s]
                    BY <1>6, <1>23 DEF CutBehindLong, Inside
                <5> QED
                    BY <1>2, <1>3, <1>6, <1>10, <2>1, <2>3, <2>5, <3>4, <4>2, <5>1, StraySwallows
            <4> QED
                BY <2>2, <4>1, <4>2
        <3> QED
            BY <1>1, <1>9, <1>22, <1>23, <3>5, OfferSettles
    <2> QED
        BY <2>4, <2>5
<1> QED
    BY <1>25, <1>26

(* The next frame begins where the last one ended (usage.rs                   *)
(* UsageScanner::push).                                                       *)
LEMMA PushSettles ==
    ASSUME TypeOK, Settled, Push, clean'
    PROVE  Settled'
<1>1. sent \in Nat /\ rest = <<>> /\ Position = sent
    <2>1. stream \in Seq(Symbols) /\ sent \in 0..Len(stream) /\ rest = <<>>
        BY StreamAssumption DEF TypeOK, Push
    <2> QED
        BY <2>1 DEF Position
<1>2. PICK size \in 1..(Len(stream) - sent) :
         /\ sent' = sent + size /\ rest' = SubSeq(stream, sent + 1, sent + size)
         /\ clean' = (clean /\ CleanFrame(sent, sent + size))
    BY DEF Push
<1>3. UNCHANGED <<stream, pending, usage>>
    BY DEF Push
<1>4. Position' = sent
    <2>1. stream \in Seq(Symbols) /\ sent \in 0..Len(stream)
        BY StreamAssumption DEF TypeOK
    <2>2. /\ sent + size \in sent..Len(stream) /\ (sent + size) - sent = size
          /\ (sent + size) - size = sent
        BY <1>1, <1>2, <2>1
    <2>3. Len(rest') = size
        BY <1>2, <2>1, <2>2, PieceIs
    <2> QED
        BY <1>2, <2>2, <2>3 DEF Position
<1>5. CleanFrame(sent, sent')
    BY <1>2
<1>6. (~TearsMarker(sent) /\ ~CutBehindLong(sent))'
    BY <1>3, <1>5 DEF CleanFrame, TearsMarker, CutBehindLong, Inside
<1>7. (~ForeignLine(Position, sent))'
    <2>1. ~ForeignLine(sent, sent')
        BY <1>5 DEF CleanFrame
    <2> QED
        BY <1>3, <1>4, <2>1 DEF ForeignLine, Inside
<1>8. (~TearsMarker(Position))'
    <2>1. ~TearsMarker(sent)
        BY DEF Settled, Cuts
    <2> QED
        BY <1>3, <1>4, <2>1 DEF TearsMarker, Inside
<1>9. Kept(pending)' /\ Accounted(pending, usage, stream, Position)'
    BY <1>1, <1>3, <1>4 DEF Settled
<1> QED
    BY <1>6, <1>7, <1>8, <1>9 DEF Settled, Cuts

(* Before the first frame there is nothing to account for.                    *)
LEMMA InitSettles ==
    ASSUME Init, WellFormed(stream)
    PROVE  Settled
<1>1. /\ stream \in Streams /\ sent = 0 /\ rest = <<>> /\ pending = <<>> /\ usage = None
      /\ stream \in Seq(Symbols) /\ Len(stream) \in Nat
    BY StreamAssumption DEF Init
<1>2. Position = 0
    <2>1. Len(rest) = 0 /\ sent = 0
        BY <1>1
    <2>2. Position = 0 - 0
        BY <2>1, Zenon DEF Position
    <2> QED
        BY <2>2
<1>3. ~Within(stream, 0)
    BY <1>1, AtFirst
<1>4. Cuts
    BY <1>1, <1>3 DEF Cuts, TearsMarker, CutBehindLong, Inside
<1>5. InStep(<<>>, stream, 0)
    BY <1>3 DEF InStep
<1>6. Tallied(None, stream, 0)
    BY DEF Tallied
<1> QED
    BY <1>1, <1>2, <1>4, <1>5, <1>6 DEF Settled, Kept, Accounted

(* As long as the frames are clean, buffer and usage are accounted for        *)
(* (usage.rs UsageScanner::push).                                             *)
LEMMA AlwaysAccountable == Spec => []Accountable
<1>1. Init => Accountable
    BY InitSettles DEF Accountable, Framed
<1>2. TypeOK /\ Genuine /\ Accountable /\ [Next]_vars => Accountable'
    <2> SUFFICES ASSUME TypeOK, Genuine, Accountable, [Next]_vars,
                        (Framed(stream) /\ clean /\ stream \notin MarkerInText)'
                 PROVE  Settled'
        BY DEF Accountable
    <2>1. stream' = stream
        BY DEF Next, Push, Scan, OfferContinuation, OfferPayload, OfferPlain, Offer, vars
    <2>2. clean' => clean
        BY DEF Next, Push, Scan, OfferContinuation, OfferPayload, OfferPlain, Offer, vars
    <2>3. Framed(stream) /\ stream \notin MarkerInText /\ clean
        BY <2>1, <2>2
    <2>4. Settled /\ Faithful
        BY <2>3 DEF Accountable, Genuine, Framed
    <2>5. CASE Push
        BY <2>4, <2>5, PushSettles
    <2>6. CASE OfferContinuation
        BY <2>3, <2>4, <2>6, ContinuationSettles
    <2>7. CASE OfferPayload
        BY <2>3, <2>4, <2>7, PayloadSettles
    <2>8. CASE OfferPlain
        BY <2>3, <2>4, <2>8, PlainSettles
    <2>9. CASE UNCHANGED vars
        BY <2>4, <2>9 DEF vars, Settled, Cuts, Position, TearsMarker, CutBehindLong, ForeignLine, Inside
    <2> QED
        BY <2>5, <2>6, <2>7, <2>8, <2>9 DEF Next, Scan
<1> QED
    BY <1>1, <1>2, TypeCorrect, AlwaysGenuine, PTL DEF Spec

(* What that says between two frames.                                         *)
LEMMA BetweenFrames ==
    ASSUME TypeOK, Accountable, Framed(stream), clean, stream \notin MarkerInText, Between
    PROVE  /\ stream \in Streams /\ WellFormed(stream) /\ sent \in 0..Len(stream) /\ sent \in Nat
           /\ Accounted(pending, usage, stream, sent)
           /\ DOMAIN Pushed = Ends[stream] \cap 1..sent
           /\ \A n \in Ends[stream] : n <= sent => n \in DOMAIN Pushed
           /\ \A n \in DOMAIN Pushed : Pushed[n] = Reported[stream][n] /\ n \in Ends[stream] /\ n \in 1..sent
<1>1. /\ stream \in Streams /\ WellFormed(stream) /\ sent \in 0..Len(stream) /\ rest = <<>>
      /\ Len(stream) \in Nat
    BY StreamAssumption DEF TypeOK, Between, Framed
<1>2. Position = sent
    <2>1. Len(rest) = 0 /\ sent \in Nat
        BY <1>1
    <2> QED
        BY <2>1 DEF Position
<1>3. Accounted(pending, usage, stream, sent)
    BY <1>2 DEF Accountable, Settled
<1>4. /\ DOMAIN Pushed = Ends[stream] \cap 1..sent
      /\ \A n \in Ends[stream] \cap 1..sent : Pushed[n] = Reported[stream][n]
    BY DEF Pushed, Restrict
<1>5. \A n \in Ends[stream] : n <= sent => n \in 1..sent
    <2>1. \A n \in Ends[stream] : n \in 1..Len(stream)
        BY <1>1, EndIs
    <2> QED
        BY <1>1, <2>1
<1>6. sent \in Nat
    BY <1>1
<1> QED
    BY <1>1, <1>3, <1>4, <1>5, <1>6

(* When no object is too long, the buffer has never lost the stream.          *)
LEMMA NeverAstray ==
    ASSUME NEW s \in Streams, WellFormed(s), TooLong[s] = {}, NEW buffer, NEW u, NEW k \in 0..Len(s),
           Accounted(buffer, u, s, k)
    PROVE  InStep(buffer, s, k) /\ Endangered[s] = {}
BY DEF Accounted, Astray, Behind, Endangered

(* Between two frames of an event stream or of a plain answer the buffer is   *)
(* empty exactly when the stream is outside of the objects, wherever the      *)
(* frames are cut, but for the cuts that the model names (usage.rs            *)
(* UsageScanner::push, consume).                                              *)
THEOREM LeftOver == Spec => [](Framed(stream) => NothingLeftOver)
<1>1. TypeOK /\ Accountable => (Framed(stream) => NothingLeftOver)
    <2> SUFFICES ASSUME TypeOK, Accountable, Framed(stream), Between, clean,
                        TooLong[stream] = {}, stream \notin MarkerInText
                 PROVE  pending # <<>> <=> Inside(sent)
        BY DEF NothingLeftOver
    <2>1. /\ stream \in Streams /\ WellFormed(stream) /\ sent \in 0..Len(stream)
          /\ Accounted(pending, usage, stream, sent)
        BY BetweenFrames
    <2>2. InStep(pending, stream, sent)
        BY <2>1, NeverAstray
    <2>3. CASE Within(stream, sent)
        BY <2>1, <2>2, <2>3, HoldsSomething DEF Inside
    <2>4. CASE ~Within(stream, sent)
        BY <2>2, <2>4 DEF Inside, InStep
    <2> QED
        BY <2>3, <2>4
<1> QED
    BY <1>1, TypeCorrect, AlwaysAccountable, PTL

(* Between two frames the usage is that of the most complete object which has *)
(* arrived in full, wherever the objects are cut (usage.rs                    *)
(* UsageScanner::push, merge_usage).                                          *)
THEOREM CutsCount == Spec => [](Framed(stream) => CutObjectsCount)
<1>1. TypeOK /\ Accountable => (Framed(stream) => CutObjectsCount)
    <2> SUFFICES ASSUME TypeOK, Accountable, Framed(stream), Between, clean,
                        TooLong[stream] = {}, stream \notin MarkerInText
                 PROVE  MostComplete(usage, Pushed)
        BY DEF CutObjectsCount
    <2> DEFINE s == stream
               some == {i \in DOMAIN Pushed : Pushed[i] # None}
               full(i) == Completeness(TokenUsage(Pushed[i]))
    <2>1. /\ s \in Streams /\ WellFormed(s) /\ sent \in 0..Len(s) /\ sent \in Nat
          /\ Accounted(pending, usage, s, sent)
          /\ \A n \in Ends[s] : n <= sent => n \in DOMAIN Pushed
          /\ \A n \in DOMAIN Pushed : Pushed[n] = Reported[s][n] /\ n \in Ends[s] /\ n \in 1..sent
        BY BetweenFrames
    <2>2. Endangered[s] = {}
        BY <2>1, NeverAstray
    <2>3. \A i \in some : /\ i \in 1..sent /\ Due(s, i) /\ i \in Ends[s] /\ Reported[s][i] # None
                          /\ full(i) = Full(s, i) /\ TokenUsage(Pushed[i]) = TokenUsage(Reported[s][i])
        BY <2>1, <2>2 DEF Due, Full
    <2>4. \A i \in Ends[s] : i <= sent /\ Reported[s][i] # None => i \in some
        BY <2>1
    <2>5. Tallied(usage, s, sent)
        BY <2>1 DEF Accounted
    <2>6. IF some = {} THEN usage = None
          ELSE \E i \in some :
                  /\ usage = TokenUsage(Pushed[i])
                  /\ \A j \in some : full(j) <= full(i) /\ (j > i => full(j) < full(i))
        <3> HIDE DEF some, full
        <3>1. CASE usage = None /\ \A n \in 1..sent : ~Due(s, n)
            <4>1. some = {}
                BY <2>3, <3>1
            <4> QED
                BY <3>1, <4>1
        <3>2. CASE ~(usage = None /\ \A n \in 1..sent : ~Due(s, n))
            <4>1. PICK i \in Ends[s] :
                     /\ i <= sent /\ Reported[s][i] # None /\ usage = TokenUsage(Reported[s][i])
                     /\ \A j \in 1..sent :
                           Due(s, j) => Full(s, j) <= Full(s, i) /\ (j > i => Full(s, j) < Full(s, i))
                BY <2>5, <3>2 DEF Tallied
            <4>2. i \in some
                BY <2>4, <4>1
            <4>3. usage = TokenUsage(Pushed[i])
                BY <2>3, <4>1, <4>2
            <4>4. \A j \in some : full(j) <= full(i) /\ (j > i => full(j) < full(i))
                BY <2>3, <4>1, <4>2
            <4> QED
                BY <4>2, <4>3, <4>4
        <3> QED
            BY <3>1, <3>2
    <2> QED
        BY <2>6 DEF MostComplete
<1> QED
    BY <1>1, TypeCorrect, AlwaysAccountable, PTL

(* An object that is too long costs no report but its own and that of the     *)
(* next object that has one (usage.rs UsageScanner::consume).                 *)
THEOREM LongCostsNext == Spec => [](Framed(stream) => LongObjectCostsNext)
<1>1. TypeOK /\ Accountable => (Framed(stream) => LongObjectCostsNext)
    <2> SUFFICES ASSUME TypeOK, Accountable, Framed(stream), Between, clean, stream \notin MarkerInText,
                        NEW n \in DOMAIN Pushed \ Endangered[stream], Pushed[n] # None
                 PROVE  /\ usage # None
                        /\ Completeness(usage) >= Completeness(TokenUsage(Pushed[n]))
        BY DEF LongObjectCostsNext
    <2> DEFINE s == stream
    <2>1. /\ s \in Streams /\ WellFormed(s)
          /\ Accounted(pending, usage, s, sent)
          /\ Pushed[n] = Reported[s][n] /\ n \in Ends[s] /\ n \in 1..sent
        BY BetweenFrames
    <2>2. Due(s, n) /\ Full(s, n) = Completeness(TokenUsage(Pushed[n]))
        BY <2>1 DEF Due, Full
    <2>3. Tallied(usage, s, sent)
        BY <2>1 DEF Accounted
    <2>4. PICK i \in Ends[s] : /\ Reported[s][i] # None /\ usage = TokenUsage(Reported[s][i])
                               /\ Full(s, n) <= Full(s, i)
        BY <2>1, <2>2, <2>3 DEF Tallied
    <2>5. usage # None /\ Full(s, i) \in Nat /\ Full(s, n) \in Nat /\ Completeness(usage) = Full(s, i)
        BY <2>1, <2>2, <2>4, FullType DEF Full
    <2> QED
        BY <2>2, <2>4, <2>5
<1> QED
    BY <1>1, TypeCorrect, AlwaysAccountable, PTL
=============================================================================
