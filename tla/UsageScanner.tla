----------------------------- MODULE UsageScanner -----------------------------
(* UsageScanner (usage.rs): finds the usage objects in the frames of a        *)
(* response, which may be cut anywhere, keeping only the object that is still *)
(* incomplete.                                                                *)
(*                                                                            *)
(* The response is a sequence of symbols.  The marker "data:" is two of them, *)
(* so that a frame may end inside it; the text of a JSON object stands        *)
(* between quotes; a report is the `usage` member of an object, with quotes   *)
(* of its own.  A word is any other text: in quotes it is a string, outside   *)
(* of them a line of an event stream such as "event: x" or the payload        *)
(* "[DONE]", none of which begins like a JSON value.                          *)
EXTENDS TokenCounters, SequencesExt

CONSTANTS
    Streams,     \* the responses considered, sequences of symbols
    Report,      \* what each report symbol reports
    MaxPending   \* longest object that is buffered, in symbols

Spaces == {"space", "nl"}
Syntax == Spaces \cup {"da", "ta:", "lbrace", "rbrace", "quote", "word"}
Symbols == Syntax \cup DOMAIN Report

Marker == <<"da", "ta:">>

ASSUME StreamAssumption ==
    /\ \A s \in Streams : s \in Seq(Symbols)
    /\ DOMAIN Report \cap Syntax = {}
    /\ \A r \in DOMAIN Report :
          /\ Report[r] # None /\ TokenUsage(Report[r]) # None
          /\ DOMAIN Report[r] \subseteq Counters

ASSUME PendingAssumption == MaxPending \in Nat

VARIABLES
    stream,   \* the response, never changed
    sent,     \* how much of it has been pushed, in frames
    rest,     \* Candidates::rest, what of the last frame is not yet offered
    open,     \* Candidates::open
    pending,  \* the incomplete object
    usage,    \* the merged usage
    clean     \* history: no frame so far was cut where it must not be

vars == <<stream, sent, rest, open, pending, usage, clean>>

-----------------------------------------------------------------------------
(* Reading the buffer as JSON.                                                *)

(* One step of the parser: "start" before the object, "in" it, in one of its  *)
(* strings, in a string instead of an object, after it, or failed.            *)
NotInString == {"nl"} \cup DOMAIN Report

ParseStates == {"start", "in", "string", "top", "done", "bad"}

ParseStep(state, symbol) ==
    CASE state = "start" -> IF symbol \in Spaces THEN "start"
                            ELSE IF symbol = "lbrace" THEN "in"
                            ELSE IF symbol = "quote" THEN "top" ELSE "bad"
      [] state = "in"    -> IF symbol \in Spaces \cup DOMAIN Report THEN "in"
                            ELSE IF symbol = "quote" THEN "string"
                            ELSE IF symbol = "rbrace" THEN "done" ELSE "bad"
      [] state = "string" -> IF symbol = "quote" THEN "in"
                             ELSE IF symbol \in NotInString THEN "bad" ELSE "string"
      [] state = "top"   -> IF symbol \in {"quote"} \cup NotInString THEN "bad" ELSE "top"
      [] state = "done"  -> IF symbol \in Spaces THEN "done" ELSE "bad"
      [] state = "bad"   -> "bad"

Parse(buffer) ==
    LET state[n \in 0..Len(buffer)] ==
            IF n = 0 THEN "start" ELSE ParseStep(state[n - 1], buffer[n])
    IN state[Len(buffer)]

(* The last `usage` member of an object, None if it has none.                 *)
ReportIn(buffer) ==
    LET last == SelectLastInSeq(buffer, LAMBDA symbol : symbol \in DOMAIN Report)
    IN IF last = 0 THEN None ELSE TokenUsage(Report[buffer[last]])

(* UsageScanner::consume: a complete object is merged and freed, one that is  *)
(* cut off is kept, and everything else is dropped.                           *)
Settle(buffer, dropped) ==
    /\ pending' = IF Parse(buffer) \in dropped THEN <<>> ELSE buffer
    /\ usage' = IF Parse(buffer) = "done" THEN MergeUsage(usage, ReportIn(buffer))
                ELSE usage

(* Slip: the buffer has no bound.                                             *)
ConsumeUnbounded(buffer) == Settle(buffer, {"done", "bad"})

(* Slip: an object that is cut off is dropped like a broken one.              *)
ConsumeWhole(buffer) ==
    IF Len(buffer) > MaxPending
    THEN pending' = <<>> /\ UNCHANGED usage
    ELSE Settle(buffer, ParseStates)

(* Slip: what can never become an object is kept.                             *)
ConsumeHopeful(buffer) ==
    IF Len(buffer) > MaxPending
    THEN pending' = <<>> /\ UNCHANGED usage
    ELSE Settle(buffer, {"done"})

(* Slip: the usage counts before its object is complete.                      *)
ConsumeEager(buffer) ==
    IF Len(buffer) > MaxPending
    THEN pending' = <<>> /\ UNCHANGED usage
    ELSE /\ pending' = IF Parse(buffer) \in {"done", "bad"} THEN <<>> ELSE buffer
         /\ usage' = MergeUsage(usage, ReportIn(buffer))

Consume(buffer) ==
    IF Len(buffer) > MaxPending
    THEN pending' = <<>> /\ UNCHANGED usage
    ELSE Settle(buffer, {"done", "bad"})

-----------------------------------------------------------------------------
(* Finding the candidates in a frame.                                         *)

(* Where the first marker begins, 0 if there is none.                         *)
FirstMarker(s) ==
    LET starts == {i \in 1..(Len(s) - 1) : SubSeq(s, i, i + 1) = Marker}
    IN IF starts = {} THEN 0 ELSE Min(starts)

FirstLine(s) ==
    LET newline == SelectInSeq(s, LAMBDA symbol : symbol = "nl")
    IN IF newline = 0 THEN s ELSE SubSeq(s, 1, newline - 1)

After(s, n) == SubSeq(s, n + 1, Len(s))

Trim(s) ==
    LET black == {i \in DOMAIN s : s[i] \notin Spaces}
    IN IF black = {} THEN <<>> ELSE SubSeq(s, Min(black), Max(black))

(* Slip: the rest of the frame is still taken for the continuation.           *)
OfferStillOpen(candidate, left) ==
    /\ \E buffer \in {pending \o candidate} : Consume(buffer)
    /\ rest' = left
    /\ UNCHANGED <<stream, sent, open, clean>>

(* Offering a candidate: it is appended to the buffer, the buffer is parsed,  *)
(* and the iteration goes on with what is left of the frame.                  *)
Offer(candidate, left) ==
    /\ \E buffer \in {pending \o candidate} : Consume(buffer)
    /\ rest' = left
    /\ open' = FALSE
    /\ UNCHANGED <<stream, sent, clean>>

(* What comes before the first marker continues an object that is still open. *)
Continues == rest # <<>> /\ open /\ FirstMarker(rest) # 1

OfferContinuation ==
    /\ Continues
    /\ LET length == IF FirstMarker(rest) = 0 THEN Len(rest) ELSE FirstMarker(rest) - 1
       IN Offer(SubSeq(rest, 1, length), After(rest, length))

(* The line behind a marker is a payload; what precedes the marker is lost.   *)
OfferPayload ==
    /\ rest # <<>> /\ ~Continues
    /\ FirstMarker(rest) # 0
    /\ \E behind \in {After(rest, FirstMarker(rest) + 1)} :
       \E payload \in {IF behind # <<>> /\ Head(behind) = "space" THEN Tail(behind) ELSE behind} :
       \E line \in {FirstLine(payload)} :
          Offer(Trim(line), After(payload, Len(line)))

(* Without a marker the frame is taken for a plain body.                      *)
OfferPlain ==
    /\ rest # <<>> /\ ~Continues
    /\ FirstMarker(rest) = 0
    /\ Offer(Trim(rest), <<>>)

Scan == OfferContinuation \/ OfferPayload \/ OfferPlain

-----------------------------------------------------------------------------
(* The frames.                                                                *)

(* How far into an object a stream is after n symbols: the parser is fed the  *)
(* objects of the stream, and starts anew at the end of each.                 *)
ScanObject(state, symbol) ==
    IF state \in {"in", "string"} THEN ParseStep(state, symbol)
    ELSE IF symbol = "lbrace" THEN "in" ELSE "start"

Depths ==
    [s \in Streams |->
        LET depth[n \in 0..Len(s)] ==
                IF n = 0 THEN "start" ELSE ScanObject(depth[n - 1], s[n])
        IN [n \in 0..Len(s) |-> depth[n]]]

Within(s, n) == Depths[s][n] \in {"in", "string"}

Inside(n) == Within(stream, n)

(* The objects of a stream, by the places where they end.                     *)
Ends == [s \in Streams |-> {n \in DOMAIN s : s[n] = "rbrace" /\ Depths[s][n] = "done"}]

(* Where the object that ends at n begins, and how far the blanks behind it   *)
(* reach.                                                                     *)
Begin(s, n) == Max({m \in 1..n : s[m] = "lbrace" /\ Depths[s][m - 1] \notin {"in", "string"}})
Reach(s, n) == Max({m \in n..Len(s) : \A i \in (n + 1)..m : s[i] \in Spaces})

(* What each object reports.                                                  *)
Reported ==
    [s \in Streams |-> [n \in Ends[s] |->
        LET last == SelectLastInSubSeq(s, Begin(s, n), n, LAMBDA x : x \in DOMAIN Report)
        IN IF last = 0 THEN None ELSE Report[s[last]]]]

(* The objects that do not fit into the buffer, and what is behind one up to  *)
(* the end of the next object that reports something.                         *)
TooLong ==
    [s \in Streams |-> {n \in Ends[s] : Reach(s, n) - Begin(s, n) >= MaxPending}]

Endangered ==
    [s \in Streams |-> {n \in DOMAIN s :
        \E m \in TooLong[s] :
           m <= n /\ ~\E k \in Ends[s] : m < k /\ k < n /\ Reported[s][k] # None}]

(* A cut between the beginning of a marker and its payload.                   *)
TearsMarker(n) ==
    /\ n \in DOMAIN stream
    /\ ~Inside(n)
    /\ \/ stream[n] \in {"da", "ta:"}
       \/ n > 1 /\ stream[n] = "space" /\ stream[n - 1] = "ta:"

(* A frame that ends an object begun before it, with another line between the *)
(* end and the next marker.                                                   *)
ForeignLine(first, last) ==
    /\ Inside(first)
    /\ \E i \in (first + 1)..last :
          /\ stream[i] = "word" /\ ~Inside(i)
          /\ \A j \in (first + 1)..i : ~(stream[j] = "ta:" /\ ~Inside(j))

(* A cut within an object that is endangered by one that is too long.         *)
CutBehindLong(n) == Inside(n) /\ n \in Endangered[stream]

CleanFrame(first, last) ==
    /\ ~TearsMarker(last)
    /\ ~ForeignLine(first, last)
    /\ ~CutBehindLong(last)

Init ==
    /\ stream \in Streams
    /\ sent = 0
    /\ rest = <<>>
    /\ open = FALSE
    /\ pending = <<>>
    /\ usage = None
    /\ clean = TRUE

(* UsageScanner::push: the next frame, cut anywhere.                          *)
Push ==
    /\ rest = <<>>
    /\ \E size \in 1..(Len(stream) - sent) :
          /\ sent' = sent + size
          /\ rest' = SubSeq(stream, sent + 1, sent + size)
          /\ clean' = (clean /\ CleanFrame(sent, sent + size))
    /\ open' = (pending # <<>>)
    /\ UNCHANGED <<stream, pending, usage>>

Next == Push \/ Scan

Spec == Init /\ [][Next]_vars

-----------------------------------------------------------------------------
(* The type invariant; a frame continues an object only if there is one       *)
(* (usage.rs UsageScanner and Candidates).                                    *)
TypeOK ==
    /\ stream \in Streams
    /\ sent \in 0..Len(stream)
    /\ rest \in Seq(Symbols)
    /\ open \in BOOLEAN
    /\ open => pending # <<>>
    /\ pending \in Seq(Symbols)
    /\ usage = None \/ DOMAIN usage \subseteq Counters
    /\ clean \in BOOLEAN

(* Answers that are not event streams and have a marker in their text.        *)
MarkerInText ==
    {s \in Streams :
        /\ Head(s) = "lbrace"
        /\ \E i \in DOMAIN s : s[i] = "ta:" /\ Depths[s][i] = "string"}

(* Whatever is in quotes is in an object, and no line ends within an object   *)
(* once there has been a marker.                                              *)
WellFormed(s) ==
    /\ \A n \in 0..Len(s) : Depths[s][n] # "bad"
    /\ \A n \in 1..Len(s) : ~Within(s, n - 1) => s[n] # "quote"
    /\ \A n \in 1..Len(s) : \A i \in 1..(n - 2) :
          s[n] = "nl" /\ SubSeq(s, i, i + 1) = Marker => ~Within(s, n - 1)

(* An event stream: a marker is at the beginning of a line, an object begins  *)
(* right behind one, and nothing follows it in its line.                      *)
EventStream(s) ==
    /\ \A n \in DOMAIN s : ~Within(s, n - 1) =>
          /\ s[n] \in Spaces \cup {"da", "ta:", "word", "lbrace"}
          /\ s[n] = "da" => n < Len(s) /\ s[n + 1] = "ta:" /\ (n = 1 \/ s[n - 1] = "nl")
          /\ s[n] = "ta:" => n > 1 /\ s[n - 1] = "da"
          /\ s[n] = "lbrace" => \/ n > 1 /\ s[n - 1] = "ta:"
                                \/ n > 2 /\ s[n - 1] = "space" /\ s[n - 2] = "ta:"
    /\ \A e \in Ends[s], n \in DOMAIN s :
          e < n /\ s[n] \notin Spaces => \E i \in (e + 1)..(n - 1) : s[i] = "nl"

(* A plain answer: one object, and blanks behind it.                          *)
PlainAnswer(s) ==
    /\ s # <<>> /\ s[1] = "lbrace"
    /\ \A n \in 2..Len(s) : ~Within(s, n - 1) => s[n] \in Spaces

(* Event streams and plain answers that are complete.                         *)
Framed(s) == WellFormed(s) /\ ~Within(s, Len(s)) /\ (EventStream(s) \/ PlainAnswer(s))

(* What the objects report that have been pushed to their end.                *)
Pushed == Restrict(Reported[stream], Ends[stream] \cap 1..sent)

Between == rest = <<>>

(* Wherever else the frames are cut, the usage is that of the most complete   *)
(* object that has arrived in full, as soon as it has (UsageScanner::push).   *)
CutObjectsCount ==
    Between /\ clean /\ TooLong[stream] = {} /\ stream \notin MarkerInText =>
       MostComplete(usage, Pushed)

(* An object that is too long costs at most the usage in it and in the next   *)
(* one that has any: what is left of it in the buffer swallows no more than   *)
(* that (UsageScanner::consume).                                              *)
LongObjectCostsNext ==
    Between /\ clean /\ stream \notin MarkerInText =>
       \A n \in DOMAIN Pushed \ Endangered[stream] :
          Pushed[n] # None =>
             usage # None /\ Completeness(usage) >= Completeness(TokenUsage(Pushed[n]))

(* The buffer holds something between two frames exactly when the stream is   *)
(* inside an object: nothing of one event is left over for the next.          *)
NothingLeftOver ==
    Between /\ clean /\ TooLong[stream] = {} /\ stream \notin MarkerInText =>
       (pending # <<>> <=> Inside(sent))

(* However the frames are cut, no usage is invented: it is one that an object *)
(* which has arrived in full reports.                                         *)
NothingInvented ==
    usage # None => \E i \in DOMAIN Pushed : Pushed[i] # None /\ usage = TokenUsage(Pushed[i])

(* The buffer never exceeds its bound (MAX_PENDING).                          *)
PendingBounded == Len(pending) <= MaxPending

(* usage.rs:241: every frame is walked, and a frame that starts in the middle *)
(* of an event is treated as its continuation.                                *)
EveryCutContinued ==
    Between /\ TooLong[stream] = {} => MostComplete(usage, Pushed)
=============================================================================
