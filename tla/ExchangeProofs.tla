--------------------------- MODULE ExchangeProofs ---------------------------
(* Proofs about Exchange.tla, for every configuration, request, answer and    *)
(* frame that satisfy its assumptions, and for every value of its bound on    *)
(* the length of a response.                                                  *)
EXTENDS Exchange, FiniteSetTheorems, TLAPS

-----------------------------------------------------------------------------
(* What the helpers return.                                                   *)

(* Every error of Gateway::dispatch has an HTTP status (error.rs).            *)
LEMMA StatusOfType ==
    ASSUME NEW error \in Errors
    PROVE  StatusOf(error) \in 100..599
BY DEF Errors, StatusOf

(* A usage that was merged is one of the two it was merged from (usage.rs).   *)
LEMMA MergeUsageType ==
    ASSUME NEW m, m.usage \in Usages, NEW frame \in Frames
    PROVE  Observe(m, frame) \in Usages
<1>1. CASE frame.report = None
    BY <1>1 DEF Observe
<1>2. CASE frame.report # None
    <2>1. TokenUsage(frame.report) \in Usages
        BY <1>2 DEF Usages, Reports
    <2> QED
        BY <2>1 DEF Observe, MergeUsage
<1> QED
    BY <1>1, <1>2

(* A fresh meter and a fresh source are well typed for any length.            *)
LEMMA FreshBody ==
    ASSUME NEW length \in Optional(Nat), NEW status
    PROVE  /\ NewSource(length) \in Sources
           /\ NewMeter(length, Observed(status)) \in Meters
BY DEF NewSource, NewMeter, Sources, Meters, Usages, Observed, Optional

(* Answering leaves the entry, the source and the meter well typed, whatever  *)
(* entry and answer it is given (the end of Gateway::handle).                 *)
LEMMA RespondType ==
    ASSUME TypeOK, UNCHANGED request,
           NEW STATE e, e \in Entries, NEW STATE answer,
           answer.status \in 100..599, answer.length \in Optional(Nat),
           Respond(e, answer)
    PROVE  /\ phase' = "streaming"
           /\ entry' \in Entries'
           /\ reply'.status = entry'.status
           /\ source' \in Sources'
           /\ meter' \in Meters'
<1>1. Entries' = Entries /\ Sources' = Sources /\ Meters' = Meters
    BY DEF Entries, Sources, Meters, TypeOK
<1>2. entry' \in Entries
    <2> DEFINE streaming == IsStreaming(answer.headers)
               unmarked == [e EXCEPT !.status = answer.status]
    <2>1. streaming \in BOOLEAN
        BY DEF IsStreaming
    <2>2. unmarked \in Entries
        BY DEF Entries
    <2>3. entry' = [unmarked EXCEPT !.streaming = streaming]
        BY DEF Respond, Answered
    <2> HIDE DEF streaming, unmarked
    <2> QED
        BY <2>1, <2>2, <2>3 DEF Entries
<1>3. entry'.status = answer.status /\ reply'.status = answer.status
    BY DEF Respond, Answered, Entries
<1>4. source' \in Sources /\ meter' \in Meters
    BY FreshBody DEF Respond
<1> QED
    BY <1>1, <1>2, <1>3, <1>4 DEF Respond

(* The same of an error, which is answered with a body of known length.       *)
LEMMA FailType ==
    ASSUME TypeOK, UNCHANGED request,
           NEW STATE e, e \in Entries, NEW error \in Errors, Fail(e, error)
    PROVE  /\ phase' = "streaming"
           /\ entry' \in Entries'
           /\ reply'.status = entry'.status
           /\ source' \in Sources'
           /\ meter' \in Meters'
<1> DEFINE failed == [e EXCEPT !.error = error]
           answer == LocalAnswer(StatusOf(error))
<1>1. failed \in Entries
    BY DEF Entries, Optional
<1>2. answer.status \in 100..599 /\ answer.length \in Optional(Nat)
    BY StatusOfType DEF LocalAnswer, LocalLength, Optional
<1>3. Respond(failed, answer)
    BY DEF Fail
<1> HIDE DEF failed, answer
<1> QED
    BY <1>1, <1>2, <1>3, RespondType

-----------------------------------------------------------------------------
(* Type correctness.                                                          *)

(* The gateway starts with a request that has been looked at by nobody.       *)
LEMMA InitType == Init => TypeOK
<1> SUFFICES ASSUME Init PROVE TypeOK
    OBVIOUS
<1>1. request \in Requests /\ request.body.size \in Nat
    BY RequestAssumption DEF Init
<1>2. entry \in Entries
    BY DEF Init, NewEntry, Entries, Optional, Usages
<1>3. source \in Sources /\ meter \in Meters
    BY DEF Init, NewSource, NewMeter, Sources, Meters, Optional, Usages
<1>4. lines \in Seq(Lines) /\ phase \in Phases /\ buffered \in 0..request.body.size
    BY <1>1 DEF Init, Phases
<1> QED
    BY <1>1, <1>2, <1>3, <1>4 DEF Init, TypeOK

(* The entries that dispatch makes on its way are well typed.                 *)
LEMMA AdmittedType ==
    ASSUME TypeOK, Authentic(config.auth, request.headers)
    PROVE  Admitted \in Entries
<1>1. Caller(config.auth, request.headers) \in Optional(STRING)
    BY ConfigAssumption DEF TypeOK, Authentic, Caller, Optional
<1> QED
    BY <1>1 DEF TypeOK, Admitted, Entries

(* The entry stays one when the body has been looked at (Gateway::dispatch).  *)
LEMMA ProbedType ==
    ASSUME TypeOK PROVE Probed \in Entries
<1>1. buffered \in Nat
    BY RequestAssumption DEF TypeOK
<1> QED
    BY <1>1 DEF TypeOK, Probed, Entries

(* A route that was found is one of the configured names (Gateway::dispatch). *)
LEMMA RoutedType ==
    ASSUME TypeOK, Model \in DOMAIN config.upstreams
    PROVE  RoutedEntry \in Entries /\ RoutedEntry.status = entry.status
<1>1. Model \in Optional(Text)
    BY ConfigAssumption DEF TypeOK, Optional
<1>2. Probed \in Entries /\ Probed.status = entry.status
    BY ProbedType DEF Probed, TypeOK, Entries
<1> QED
    BY <1>1, <1>2 DEF RoutedEntry, Entries

(* What the configuration and the request determine stays what it is.         *)
LEMMA Static ==
    ASSUME TypeOK, UNCHANGED <<config, request>>
    PROVE  /\ config' \in Configs /\ request' \in Requests
           /\ Entries' = Entries /\ Lines' = Lines /\ Model' = Model
           /\ (buffered' = buffered) => buffered' \in 0..request'.body.size
BY DEF TypeOK, Entries, Lines, Model

(* A step that answers preserves the type invariant.                          *)
LEMMA AnsweringType ==
    ASSUME TypeOK, Unmoved, UNCHANGED <<buffered, forwarded>>,
           phase' = "streaming", entry' \in Entries', reply'.status = entry'.status,
           source' \in Sources', meter' \in Meters'
    PROVE  TypeOK'
BY Static DEF TypeOK, Unmoved, Phases

(* The steps before the body is read.                                         *)
LEMMA StartType ==
    ASSUME TypeOK,
           ServeHealth \/ Unauthorized \/ ServeModels \/ DeclaredTooLarge \/ BeginRead
    PROVE  TypeOK'
<1>1. CASE ServeHealth
    BY <1>1, Static DEF ServeHealth, TypeOK, Unmoved, Phases
<1>2. CASE Unauthorized
    <2>1. Fail(entry, "unauthorized") /\ entry \in Entries /\ "unauthorized" \in Errors
        BY <1>2 DEF Unauthorized, TypeOK, Errors
    <2> QED
        BY <1>2, <2>1, FailType, AnsweringType DEF Unauthorized, Unmoved
<1>3. CASE ServeModels
    <2> DEFINE answer == LocalAnswer(200)
    <2>1. Respond(Admitted, answer) /\ Admitted \in Entries
        BY <1>3, AdmittedType DEF ServeModels, Dispatched
    <2>2. answer.status \in 100..599 /\ answer.length \in Optional(Nat)
        BY DEF LocalAnswer, LocalLength, Optional
    <2> HIDE DEF answer
    <2> QED
        BY <1>3, <2>1, <2>2, RespondType, AnsweringType DEF ServeModels, Unmoved
<1>4. CASE DeclaredTooLarge
    <2>1. Fail(Admitted, "too_large") /\ Admitted \in Entries /\ "too_large" \in Errors
        BY <1>4, AdmittedType DEF DeclaredTooLarge, Dispatched, Errors
    <2> QED
        BY <1>4, <2>1, FailType, AnsweringType DEF DeclaredTooLarge, Unmoved
<1>5. CASE BeginRead
    <2>1. Admitted \in Entries /\ Admitted.status = entry.status
        BY <1>5, AdmittedType DEF BeginRead, Dispatched, Admitted, TypeOK, Entries
    <2> QED
        BY <1>5, <2>1, Static DEF BeginRead, TypeOK, Unmoved, Phases
<1> QED
    BY <1>1, <1>2, <1>3, <1>4, <1>5

(* The steps that read the body and route the request.                        *)
LEMMA ReadType ==
    ASSUME TypeOK,
           \/ ReadFrame \/ OverLimit \/ ReadFails
           \/ NoModel \/ UnknownModel \/ UnprintableKey \/ ForwardRequest
    PROVE  TypeOK'
<1>1. CASE ReadFrame
    <2>1. buffered' \in 0..request.body.size
        BY <1>1, RequestAssumption DEF ReadFrame, TypeOK
    <2> QED
        BY <1>1, <2>1, Static DEF ReadFrame, TypeOK, Unmoved
<1>2. CASE OverLimit
    <2>1. Fail(entry, "too_large") /\ entry \in Entries /\ "too_large" \in Errors
        BY <1>2 DEF OverLimit, TypeOK, Errors
    <2> QED
        BY <1>2, <2>1, FailType, AnsweringType DEF OverLimit, Unmoved
<1>3. CASE ReadFails
    <2>1. Fail(entry, "bad_body") /\ entry \in Entries /\ "bad_body" \in Errors
        BY <1>3 DEF ReadFails, TypeOK, Errors
    <2> QED
        BY <1>3, <2>1, FailType, AnsweringType DEF ReadFails, Unmoved
<1>4. CASE NoModel
    <2>1. Fail(Probed, "no_model") /\ Probed \in Entries /\ "no_model" \in Errors
        BY <1>4, ProbedType DEF NoModel, Errors
    <2> QED
        BY <1>4, <2>1, FailType, AnsweringType DEF NoModel, Unmoved
<1>5. CASE UnknownModel
    <2>1. Fail(Probed, "unknown_model") /\ Probed \in Entries /\ "unknown_model" \in Errors
        BY <1>5, ProbedType DEF UnknownModel, Errors
    <2> QED
        BY <1>5, <2>1, FailType, AnsweringType DEF UnknownModel, Unmoved
<1>6. CASE UnprintableKey
    <2>1. Fail(RoutedEntry, "internal") /\ RoutedEntry \in Entries /\ "internal" \in Errors
        BY <1>6, RoutedType DEF UnprintableKey, Routed, Errors
    <2> QED
        BY <1>6, <2>1, FailType, AnsweringType DEF UnprintableKey, Unmoved
<1>7. CASE ForwardRequest
    <2>1. RoutedEntry \in Entries /\ RoutedEntry.status = entry.status
        BY <1>7, RoutedType DEF ForwardRequest, Routed
    <2>2. Model' \in DOMAIN config'.upstreams
        BY <1>7, Static DEF ForwardRequest, Routed, Unmoved
    <2> QED
        BY <1>7, <2>1, <2>2, Static DEF ForwardRequest, TypeOK, Unmoved, Phases
<1> QED
    BY <1>1, <1>2, <1>3, <1>4, <1>5, <1>6, <1>7

(* The steps that answer for the upstream and poll the response.              *)
LEMMA StreamType ==
    ASSUME TypeOK,
           \/ UpstreamAnswers \/ UpstreamFails
           \/ PollData \/ PollEnd \/ PollError \/ DropBody
    PROVE  TypeOK'
<1>1. CASE UpstreamAnswers
    <2>1. PICK given \in Answers :
             Respond(entry, [status  |-> given.status,
                             headers |-> CopyHeaders(given.headers, ResponseStrip),
                             length  |-> AnswerLength(given)])
        BY <1>1 DEF UpstreamAnswers
    <2> DEFINE answer == [status  |-> given.status,
                          headers |-> CopyHeaders(given.headers, ResponseStrip),
                          length  |-> AnswerLength(given)]
    <2>2. answer.status \in 100..599 /\ answer.length \in Optional(Nat)
        BY AnswerAssumption DEF AnswerLength, Optional
    <2>3. Respond(entry, answer) /\ entry \in Entries
        BY <2>1 DEF TypeOK
    <2> HIDE DEF answer
    <2> QED
        BY <1>1, <2>2, <2>3, RespondType, AnsweringType DEF UpstreamAnswers, Unmoved
<1>2. CASE UpstreamFails
    <2>1. Fail(entry, "bad_gateway") /\ entry \in Entries /\ "bad_gateway" \in Errors
        BY <1>2 DEF UpstreamFails, TypeOK, Errors
    <2> QED
        BY <1>2, <2>1, FailType, AnsweringType DEF UpstreamFails, Unmoved
<1>3. CASE PollData
    <2>1. PICK frame \in Frames :
             /\ source' = [source EXCEPT !.given = @ + frame.size,
                                         !.reports = Append(@, frame.report)]
             /\ meter' = [meter EXCEPT !.bytes = @ + frame.size,
                                       !.usage = Observe(meter, frame)]
        BY <1>3 DEF PollData
    <2>2. frame.size \in Nat /\ frame.report \in Reports
        BY FrameAssumption DEF Reports
    <2>3. source' \in Sources'
        <3> DEFINE counted == [source EXCEPT !.given = @ + frame.size]
        <3>1. counted \in Sources /\ counted.reports \in Seq(Reports)
            BY <2>2 DEF TypeOK, Sources
        <3>2. Append(counted.reports, frame.report) \in Seq(Reports)
            BY <2>2, <3>1
        <3>3. source' = [counted EXCEPT !.reports = Append(counted.reports, frame.report)]
            BY <2>1 DEF TypeOK, Sources
        <3> HIDE DEF counted
        <3> QED
            BY <3>1, <3>2, <3>3 DEF Sources
    <2>4. meter' \in Meters'
        <3> DEFINE counted == [meter EXCEPT !.bytes = @ + frame.size]
        <3>1. counted \in Meters
            BY <2>2 DEF TypeOK, Meters
        <3>2. Observe(meter, frame) \in Usages
            BY MergeUsageType DEF TypeOK, Meters
        <3>3. meter' = [counted EXCEPT !.usage = Observe(meter, frame)]
            BY <2>1
        <3> HIDE DEF counted
        <3> QED
            BY <3>1, <3>2, <3>3 DEF Meters
    <2> QED
        BY <1>3, <2>3, <2>4, Static DEF PollData, Polled, TypeOK, Unmoved
<1>4. CASE PollEnd
    <2>1. source' \in Sources' /\ meter' \in Meters'
        BY <1>4 DEF PollEnd, TypeOK, Sources, Meters
    <2> QED
        BY <1>4, <2>1, Static DEF PollEnd, TypeOK, Unmoved
<1>5. CASE PollError
    <2>1. source' \in Sources'
        BY <1>5 DEF PollError, TypeOK, Sources
    <2> QED
        BY <1>5, <2>1, Static DEF PollError, TypeOK, Unmoved
<1>6. CASE DropBody
    <2>1. entry' \in Entries /\ entry'.status = entry.status
        <3>1. meter.usage \in Usages /\ entry \in Entries
            BY DEF TypeOK, Meters
        <3>2. entry' = [entry EXCEPT !.usage = meter.usage]
            BY <1>6 DEF DropBody
        <3> QED
            BY <3>1, <3>2 DEF Entries
    <2>2. LineOf(entry', meter.bytes, ~IsComplete(meter)) \in Lines
        BY <2>1 DEF TypeOK, LineOf, IsComplete, Lines, Meters
    <2>3. lines' \in Seq(Lines)
        BY <1>6, <2>2 DEF DropBody, TypeOK
    <2> QED
        BY <1>6, <2>1, <2>3, Static DEF DropBody, TypeOK, Phases
<1> QED
    BY <1>1, <1>2, <1>3, <1>4, <1>5, <1>6

(* Every step preserves the type invariant.                                   *)
LEMMA NextType == TypeOK /\ [Next]_vars => TypeOK'
<1> SUFFICES ASSUME TypeOK, [Next]_vars PROVE TypeOK'
    OBVIOUS
<1>1. CASE Disconnect
    BY <1>1, Static DEF Disconnect, TypeOK
<1>2. CASE Abandon
    BY <1>2, Static DEF Abandon, TypeOK, Unmoved, Phases
<1>3. CASE UNCHANGED vars
    BY <1>3, Static DEF vars, TypeOK
<1> QED
    BY <1>1, <1>2, <1>3, StartType, ReadType, StreamType DEF Next, Decide

(* Every variable keeps its type, the ID on the entry is the one taken from   *)
(* the request and its status is that of the reply (gateway.rs, observe.rs).  *)
THEOREM TypeCorrect == Spec => []TypeOK
BY InitType, NextType, PTL DEF Spec

-----------------------------------------------------------------------------
(* The metered body and the log line.                                         *)

(* An answer starts with an untouched body behind an untouched meter.         *)
LEMMA RespondBody ==
    ASSUME NEW STATE e, NEW STATE answer, Respond(e, answer)
    PROVE  /\ phase' = "streaming"
           /\ meter'.bytes = 0 /\ source'.given = 0
           /\ meter'.expected = answer.length /\ source'.length = answer.length
           /\ ~meter'.finished /\ source'.state = "open"
BY DEF Respond, NewSource, NewMeter

(* A step that answers preserves the invariant, if an answer to HEAD that     *)
(* comes from the upstream is announced as empty.                             *)
LEMMA AnsweringBody ==
    ASSUME BodyInv, phase \in Unanswered, Unmoved,
           NEW STATE e, NEW STATE answer, Respond(e, answer),
           request.method = "HEAD" /\ FromUpstream' => answer.length = 0
    PROVE  BodyInv'
BY RespondBody DEF BodyInv, Unanswered, Unmoved, FromUpstream

(* An error is never taken for an answer of the upstream.                     *)
LEMMA FailBody ==
    ASSUME BodyInv, phase \in Unanswered, Unmoved,
           NEW STATE e, e \in Entries, NEW error \in Errors, Fail(e, error)
    PROVE  BodyInv'
<1> DEFINE failed == [e EXCEPT !.error = error]
           answer == LocalAnswer(StatusOf(error))
<1>1. Respond(failed, answer)
    BY DEF Fail
<1>2. entry'.error = error
    BY <1>1 DEF Respond, Answered, Entries
<1>3. ~FromUpstream'
    BY <1>2, NoneAssumption DEF FromUpstream
<1> HIDE DEF failed, answer
<1> QED
    BY <1>1, <1>3, AnsweringBody

(* There is no body and no line to begin with.                                *)
LEMMA InitBody == Init => BodyInv
BY DEF Init, BodyInv, NewMeter, NewSource, NewEntry, FromUpstream, Unanswered

(* The steps up to the answer.                                                *)
LEMMA AnswerBody ==
    ASSUME TypeOK, BodyInv, Decide \/ ReadFrame \/ OverLimit \/ ReadFails
                            \/ UpstreamAnswers \/ UpstreamFails
    PROVE  BodyInv'
<1> USE DEF Unanswered
<1>1. CASE ServeHealth
    BY <1>1 DEF ServeHealth, BodyInv, Unmoved, FromUpstream
<1>2. CASE BeginRead
    <2>1. Admitted.error = entry.error
        BY DEF Admitted, TypeOK, Entries
    <2> QED
        BY <1>2, <2>1 DEF BeginRead, Dispatched, BodyInv, Unmoved, FromUpstream
<1>3. CASE ReadFrame
    BY <1>3 DEF ReadFrame, BodyInv, Unmoved, FromUpstream
<1>4. CASE ForwardRequest
    <2>1. RoutedEntry.error = entry.error
        BY DEF RoutedEntry, Probed, TypeOK, Entries
    <2> QED
        BY <1>4, <2>1 DEF ForwardRequest, Routed, BodyRead, BodyInv, Unmoved, FromUpstream
<1>5. CASE ServeModels
    <2>1. Respond(Admitted, LocalAnswer(200)) /\ request.method = "GET"
        BY <1>5 DEF ServeModels, IsModelsPath
    <2> QED
        BY <1>5, <2>1, AnsweringBody DEF ServeModels, Dispatched
<1>6. CASE Unauthorized
    BY <1>6, FailBody DEF Unauthorized, Errors, TypeOK
<1>7. CASE DeclaredTooLarge
    BY <1>7, AdmittedType, FailBody DEF DeclaredTooLarge, Dispatched, Errors
<1>8. CASE OverLimit
    BY <1>8, FailBody DEF OverLimit, Errors, TypeOK
<1>9. CASE ReadFails
    BY <1>9, FailBody DEF ReadFails, Errors, TypeOK
<1>10. CASE NoModel
    BY <1>10, ProbedType, FailBody DEF NoModel, BodyRead, Errors
<1>11. CASE UnknownModel
    BY <1>11, ProbedType, FailBody DEF UnknownModel, BodyRead, Errors
<1>12. CASE UnprintableKey
    BY <1>12, RoutedType, FailBody DEF UnprintableKey, Routed, BodyRead, Errors
<1>13. CASE UpstreamFails
    BY <1>13, FailBody DEF UpstreamFails, Errors, TypeOK
<1>14. CASE UpstreamAnswers
    <2>1. PICK given \in Answers :
             Respond(entry, [status  |-> given.status,
                             headers |-> CopyHeaders(given.headers, ResponseStrip),
                             length  |-> AnswerLength(given)])
        BY <1>14 DEF UpstreamAnswers
    <2>2. request.method = "HEAD" => AnswerLength(given) = 0
        BY DEF AnswerLength
    <2> QED
        BY <1>14, <2>1, <2>2, AnsweringBody DEF UpstreamAnswers
<1> QED
    BY <1>1, <1>2, <1>3, <1>4, <1>5, <1>6, <1>7, <1>8, <1>9, <1>10, <1>11,
       <1>12, <1>13, <1>14 DEF Decide

(* The steps of the response body.                                            *)
LEMMA PollBody ==
    ASSUME TypeOK, BodyInv, PollData \/ PollEnd \/ PollError \/ DropBody
    PROVE  BodyInv'
<1> USE DEF Unanswered
<1>1. CASE PollData
    <2>1. PICK frame \in Frames :
             /\ source' = [source EXCEPT !.given = @ + frame.size,
                                         !.reports = Append(@, frame.report)]
             /\ meter' = [meter EXCEPT !.bytes = @ + frame.size,
                                       !.usage = Observe(meter, frame)]
        BY <1>1 DEF PollData
    <2>2. /\ source'.given = source.given + frame.size
          /\ source'.length = source.length /\ source'.state = source.state
          /\ meter'.bytes = meter.bytes + frame.size
          /\ meter'.expected = meter.expected /\ meter'.finished = meter.finished
        BY <2>1 DEF TypeOK, Sources, Meters
    <2> QED
        BY <1>1, <2>2 DEF PollData, Polled, BodyInv, Unmoved, FromUpstream
<1>2. CASE PollEnd
    <2>1. /\ source'.given = source.given /\ source'.length = source.length
          /\ source'.state = "ended" /\ meter'.finished
          /\ meter'.bytes = meter.bytes /\ meter'.expected = meter.expected
        BY <1>2 DEF PollEnd, TypeOK, Sources, Meters
    <2> QED
        BY <1>2, <2>1 DEF PollEnd, Polled, BodyInv, Unmoved, FromUpstream
<1>3. CASE PollError
    <2>1. /\ source'.given = source.given /\ source'.length = source.length
          /\ source'.state = "broken" /\ source.state = "open"
        BY <1>3 DEF PollError, Polled, TypeOK, Sources
    <2> QED
        BY <1>3, <2>1 DEF PollError, Polled, BodyInv, Unmoved, FromUpstream
<1>4. CASE DropBody
    <2>1. entry'.error = entry.error /\ entry'.upstream = entry.upstream
        BY <1>4 DEF DropBody, TypeOK, Entries
    <2>2. lines' = <<LineOf(entry', meter.bytes, ~IsComplete(meter))>>
        BY <1>4 DEF DropBody, BodyInv
    <2>3. Unwanted' /\ IsComplete(meter') = IsComplete(meter)
        BY <1>4 DEF DropBody, Unwanted
    <2> QED
        BY <1>4, <2>1, <2>2, <2>3 DEF DropBody, BodyInv, FromUpstream
<1> QED
    BY <1>1, <1>2, <1>3, <1>4

(* Every step keeps the meter in accord with the body behind it.              *)
LEMMA NextBody == TypeOK /\ BodyInv /\ [Next]_vars => BodyInv'
<1> SUFFICES ASSUME TypeOK, BodyInv, [Next]_vars PROVE BodyInv'
    OBVIOUS
<1>1. CASE Disconnect
    BY <1>1 DEF Disconnect, BodyInv, Unanswered, FromUpstream
<1>2. CASE Abandon
    BY <1>2 DEF Abandon, BodyInv, Unanswered, Unmoved, FromUpstream
<1>3. CASE UNCHANGED vars
    BY <1>3 DEF vars, BodyInv, FromUpstream, Unwanted
<1> QED
    BY <1>1, <1>2, <1>3, AnswerBody, PollBody DEF Next

(* The meter agrees with the body behind it and the line is written last.     *)
THEOREM BodyAccounted == Spec => []BodyInv
<1>1. Init => BodyInv
    BY InitBody
<1>2. TypeOK /\ BodyInv /\ [Next]_vars => BodyInv'
    BY NextBody
<1> QED
    BY <1>1, <1>2, TypeCorrect, PTL DEF Spec

(* What a line says of the body.                                              *)
LEMMA LineTells ==
    ASSUME BodyInv, NEW i \in DOMAIN lines
    PROVE  phase = "done" /\ (lines[i].aborted <=> ~IsComplete(meter))
<1>1. phase = "done" /\ lines = <<LineOf(entry, meter.bytes, ~IsComplete(meter))>>
    BY DEF BodyInv
<1>2. lines[i] = LineOf(entry, meter.bytes, ~IsComplete(meter))
    BY <1>1
<1>3. lines[i].aborted = ~IsComplete(meter)
    BY <1>2 DEF LineOf
<1> QED
    BY <1>1, <1>3

(* A line without `aborted` is about a body that was delivered whole          *)
(* (observe.rs MeteredBody::is_complete).                                     *)
THEOREM CompleteIsDelivered == Spec => []CompleteMeansDelivered
<1>1. ASSUME BodyInv, NEW i \in DOMAIN lines, ~lines[i].aborted
      PROVE  Delivered
    <2>1. IsComplete(meter)
        BY <1>1, LineTells
    <2> QED
        BY <1>1, <2>1 DEF BodyInv, Delivered, IsComplete
<1>2. BodyInv => CompleteMeansDelivered
    BY <1>1 DEF CompleteMeansDelivered
<1> QED
    BY <1>2, BodyAccounted, PTL

(* A line with `aborted` has one of the three causes                          *)
(* (observe.rs Drop for MeteredBody).                                         *)
THEOREM AbortedIsCaused == Spec => []AbortedHasCause
<1>1. ASSUME TypeOK, BodyInv, NEW i \in DOMAIN lines, lines[i].aborted
      PROVE  \/ client = "gone"
             \/ source.state = "broken"
             \/ request.method = "HEAD" /\ ~FromUpstream
    <2>1. ~IsComplete(meter) /\ phase = "done"
        BY <1>1, LineTells
    <2> QED
        BY <1>1, <2>1 DEF BodyInv, IsComplete, Unwanted, TypeOK, Sources
<1>2. TypeOK /\ BodyInv => AbortedHasCause
    BY <1>1 DEF AbortedHasCause
<1> QED
    BY <1>2, TypeCorrect, BodyAccounted, PTL

-----------------------------------------------------------------------------
(* The counters of the line.                                                  *)

(* How complete a usage is, is a natural number (usage.rs completeness).      *)
LEMMA CompletenessType ==
    ASSUME NEW report \in Reports \ {None}
    PROVE  Completeness(TokenUsage(report)) \in Nat /\ TokenUsage(report) # None
<1>1. TokenUsage(report) # None /\ DOMAIN report \subseteq Counters
    BY FrameAssumption DEF Reports
<1>2. DOMAIN TokenUsage(report) \subseteq Counters
    BY <1>1 DEF TokenUsage, Counters
<1>3. IsFiniteSet(Counters)
    <2>1. IsFiniteSet({"prompt"} \cup {"completion"} \cup {"total"})
        BY FS_Singleton, FS_AddElement
    <2>2. IsFiniteSet({"prompt"} \cup {"completion"} \cup {"total"}
                      \cup {"reasoning"} \cup {"cached"})
        BY <2>1, FS_AddElement
    <2>3. Counters = {"prompt"} \cup {"completion"} \cup {"total"}
                     \cup {"reasoning"} \cup {"cached"}
        BY DEF Counters
    <2> QED
        BY <2>2, <2>3
<1>4. IsFiniteSet(DOMAIN TokenUsage(report))
    BY <1>2, <1>3, FS_Subset
<1> QED
    BY <1>1, <1>4, FS_CardinalityType DEF Completeness

(* One more payload: what was the most complete usage of the reports so far   *)
(* is merged into the most complete one of all (usage.rs merge_usage).        *)
LEMMA MergeKeepsMostComplete ==
    ASSUME NEW reports \in Seq(Reports), NEW usage, MostComplete(usage, reports),
           NEW report \in Reports
    PROVE  MostComplete(IF report # None THEN MergeUsage(usage, TokenUsage(report))
                        ELSE usage, Append(reports, report))
<1> DEFINE all == Append(reports, report)
           full(i) == Completeness(TokenUsage(all[i]))
           some == {i \in DOMAIN reports : reports[i] # None}
           more == {i \in DOMAIN all : all[i] # None}
           last == Len(reports) + 1
<1>1. /\ Len(reports) \in Nat /\ DOMAIN reports = 1..Len(reports)
      /\ DOMAIN all = 1..last
      /\ all[last] = report /\ \A i \in DOMAIN reports : all[i] = reports[i]
    OBVIOUS
<1>2. more = IF report # None THEN some \cup {last} ELSE some
    BY <1>1
<1>3. \A i \in more : full(i) \in Nat /\ TokenUsage(all[i]) # None
    <2>1. \A i \in more : all[i] \in Reports \ {None}
        BY <1>1
    <2> QED
        BY <2>1, CompletenessType
<1>4. \A i \in some : i \in 1..Len(reports) /\ all[i] = reports[i]
    BY <1>1
<1>5. IF some = {} THEN usage = None
      ELSE \E i \in some :
              /\ usage = TokenUsage(all[i])
              /\ \A j \in some : full(j) <= full(i) /\ (j > i => full(j) < full(i))
    BY <1>4 DEF MostComplete
<1> DEFINE merged == IF report # None THEN MergeUsage(usage, TokenUsage(report)) ELSE usage
<1>6. IF more = {} THEN merged = None
      ELSE \E i \in more :
              /\ merged = TokenUsage(all[i])
              /\ \A j \in more : full(j) <= full(i) /\ (j > i => full(j) < full(i))
    <2>1. CASE report = None
        BY <1>2, <1>5, <2>1
    <2>2. CASE report # None /\ some = {}
        <3>1. more = {last} /\ last \in Nat /\ full(last) \in Nat
            BY <1>1, <1>2, <1>3, <2>2
        <3>2. merged = TokenUsage(all[last])
            BY <1>1, <1>5, <2>2 DEF MergeUsage
        <3> HIDE DEF more, full, merged, all
        <3>3. full(last) <= full(last) /\ ~(last > last)
            BY <3>1
        <3> QED
            BY <3>1, <3>2, <3>3
    <2>3. CASE report # None /\ some # {}
        <3>1. PICK i \in some :
                 /\ usage = TokenUsage(all[i])
                 /\ \A j \in some : full(j) <= full(i) /\ (j > i => full(j) < full(i))
            BY <1>5, <2>3
        <3>2. /\ more = some \cup {last} /\ full(i) \in Nat /\ full(last) \in Nat
              /\ \A j \in some : full(j) \in Nat /\ j \in Nat /\ j < last
            BY <1>1, <1>2, <1>3, <1>4, <2>3
        <3>3. merged = IF full(i) <= full(last) THEN TokenUsage(all[last])
                       ELSE TokenUsage(all[i])
            BY <1>1, <1>3, <1>4, <2>3, <3>1, <3>2 DEF MergeUsage
        <3>4. i < last /\ i \in Nat /\ last \in Nat
            BY <1>1, <1>4
        <3> HIDE DEF more, full, merged, all, some, last
        <3>5. CASE full(i) <= full(last)
            <4>1. \A j \in more : full(j) <= full(last) /\ (j > last => full(j) < full(last))
                BY <3>1, <3>2, <3>4, <3>5
            <4> QED
                BY <3>2, <3>3, <3>5, <4>1
        <3>6. CASE ~(full(i) <= full(last))
            <4>1. \A j \in more : full(j) <= full(i) /\ (j > i => full(j) < full(i))
                BY <3>1, <3>2, <3>4, <3>6
            <4> QED
                BY <3>2, <3>3, <3>6, <4>1
        <3> QED
            BY <3>5, <3>6
    <2> QED
        BY <2>1, <2>2, <2>3
<1>7. MostComplete(merged, all)
    <2> HIDE DEF merged, all
    <2> QED
        BY <1>6 DEF MostComplete
<1> QED
    BY <1>7

(* A step that answers starts with no usage and nothing reported.             *)
LEMMA RespondCounters ==
    ASSUME NEW STATE e, NEW STATE answer, Respond(e, answer)
    PROVE  CountersInv'
<1>1. /\ phase' = "streaming" /\ reply'.status = answer.status
      /\ source'.reports = <<>>
      /\ meter'.observing = Observed(answer.status) /\ meter'.usage = None
    BY DEF Respond, NewSource, NewMeter
<1>2. MostComplete(None, <<>>)
    BY DEF MostComplete
<1> QED
    BY <1>1, <1>2 DEF CountersInv

(* Every step keeps the usage that the frames so far amount to                *)
(* (observe.rs MeteredBody::poll_frame, usage.rs).                            *)
LEMMA NextCounters == TypeOK /\ CountersInv /\ [Next]_vars => CountersInv'
<1> SUFFICES ASSUME TypeOK, CountersInv, [Next]_vars PROVE CountersInv'
    OBVIOUS
<1>1. CASE \/ Unauthorized \/ ServeModels \/ DeclaredTooLarge \/ OverLimit \/ ReadFails
           \/ NoModel \/ UnknownModel \/ UnprintableKey \/ UpstreamAnswers \/ UpstreamFails
    BY <1>1, RespondCounters
       DEF Fail, Unauthorized, ServeModels, DeclaredTooLarge, OverLimit, ReadFails,
           NoModel, UnknownModel, UnprintableKey, UpstreamAnswers, UpstreamFails
<1>2. CASE ServeHealth \/ BeginRead \/ ReadFrame \/ ForwardRequest \/ Abandon
    BY <1>2 DEF ServeHealth, BeginRead, ReadFrame, ForwardRequest, Abandon, CountersInv
<1>3. CASE Disconnect \/ UNCHANGED vars
    BY <1>3 DEF Disconnect, vars, CountersInv
<1>4. CASE PollData
    <2>1. PICK frame \in Frames :
             /\ source' = [source EXCEPT !.given = @ + frame.size,
                                         !.reports = Append(@, frame.report)]
             /\ meter' = [meter EXCEPT !.bytes = @ + frame.size,
                                       !.usage = Observe(meter, frame)]
        BY <1>4 DEF PollData
    <2>2. /\ source'.reports = Append(source.reports, frame.report)
          /\ meter'.observing = meter.observing
          /\ meter'.usage = Observe(meter, frame)
        BY <2>1 DEF TypeOK, Sources, Meters
    <2>3. source.reports \in Seq(Reports) /\ frame.report \in Reports
        BY DEF TypeOK, Sources, Reports
    <2>4. CASE meter.observing
        <3>1. MostComplete(meter.usage, source.reports)
            BY <2>4 DEF CountersInv
        <3>2. MostComplete(meter'.usage, source'.reports)
            BY <2>2, <2>3, <2>4, <3>1, MergeKeepsMostComplete DEF Observe
        <3> QED
            BY <1>4, <2>2, <2>4, <3>2 DEF PollData, Polled, CountersInv
    <2>5. CASE ~meter.observing
        BY <1>4, <2>2, <2>5 DEF PollData, Polled, CountersInv, Observe
    <2> QED
        BY <2>4, <2>5
<1>5. CASE PollEnd \/ PollError
    <2>1. source'.reports = source.reports
        BY <1>5 DEF PollEnd, PollError, TypeOK, Sources
    <2>2. meter'.observing = meter.observing /\ meter'.usage = meter.usage
        BY <1>5 DEF PollEnd, PollError, TypeOK, Meters
    <2>3. phase = "streaming" /\ UNCHANGED <<phase, reply>>
        BY <1>5 DEF PollEnd, PollError, Polled
    <2> QED
        BY <2>1, <2>2, <2>3 DEF CountersInv
<1>6. CASE DropBody
    <2>1. entry'.usage = meter.usage
        BY <1>6 DEF DropBody, TypeOK, Entries
    <2> QED
        BY <1>6, <2>1 DEF DropBody, CountersInv
<1> QED
    BY <1>1, <1>2, <1>3, <1>4, <1>5, <1>6 DEF Next, Decide

(* The meter holds at every moment what the frames so far amount to           *)
(* (observe.rs MeteredBody, usage.rs merge_usage).                            *)
THEOREM CountersAccounted == Spec => []CountersInv
<1>1. Init => CountersInv
    BY DEF Init, CountersInv, NewMeter
<1>2. TypeOK /\ CountersInv /\ [Next]_vars => CountersInv'
    BY NextCounters
<1> QED
    BY <1>1, <1>2, TypeCorrect, PTL DEF Spec

(* The counters of a line are the most complete that the upstream reported in *)
(* a body that is observed, and absent for any other (Gateway::handle).       *)
THEOREM UsageIsComplete == Spec => []UsageIsMostComplete
<1>1. ASSUME BodyInv, CountersInv, NEW i \in DOMAIN lines
      PROVE  IF Observed(reply.status)
             THEN MostComplete(lines[i].entry.usage, source.reports)
             ELSE lines[i].entry.usage = None
    <2>1. phase = "done" /\ lines = <<LineOf(entry, meter.bytes, ~IsComplete(meter))>>
        BY <1>1 DEF BodyInv
    <2>2. lines[i].entry.usage = meter.usage
        BY <1>1, <2>1 DEF LineOf, CountersInv
    <2> QED
        BY <1>1, <2>1, <2>2 DEF CountersInv
<1>2. BodyInv /\ CountersInv => UsageIsMostComplete
    BY <1>1 DEF UsageIsMostComplete
<1> QED
    BY <1>2, BodyAccounted, CountersAccounted, PTL

-----------------------------------------------------------------------------
(* The promise of the log.                                                    *)

(* Nothing is promised yet when the request arrives.                          *)
LEMMA PromiseInit == Init => Promise!Init
BY DEF Init, Promise!Init, Over, NewSource

(* Every step hands over bytes, ends the exchange with its line or without    *)
(* one, or changes nothing that the promise speaks of.                        *)
LEMMA PromiseStep ==
    TypeOK /\ BodyInv /\ BodyInv' /\ [Next]_vars => [Promise!Next]_(Promise!vars)
<1> SUFFICES ASSUME TypeOK, BodyInv, BodyInv', [Next]_vars
             PROVE  Promise!Next \/ UNCHANGED Promise!vars
    BY DEF Promise!vars
<1> USE DEF Over, Unanswered
<1>1. CASE DropBody
    <2>1. lines' = <<LineOf(entry', meter.bytes, ~IsComplete(meter))>>
        BY <1>1 DEF DropBody, BodyInv
    <2>2. [i \in DOMAIN lines' |-> lines'[i].bytes] = <<source.given>>
        BY <2>1 DEF BodyInv, LineOf
    <2>3. ~Over /\ Over' /\ source' = source
        BY <1>1 DEF DropBody
    <2> QED
        BY <2>2, <2>3 DEF Promise!Next, Promise!Log
<1>2. CASE ServeHealth \/ Abandon
    BY <1>2 DEF ServeHealth, Abandon, Unmoved, BodyInv, Promise!Next, Promise!Vanish
<1>3. CASE PollData
    <2>1. PICK frame \in Frames :
             source' = [source EXCEPT !.given = @ + frame.size,
                                      !.reports = Append(@, frame.report)]
        BY <1>3 DEF PollData
    <2>2. source'.given > source.given
        BY <2>1, FrameAssumption DEF TypeOK, Sources
    <2>3. ~Over /\ ~Over' /\ lines' = lines
        BY <1>3 DEF PollData, Polled, Unmoved
    <2> QED
        BY <2>2, <2>3 DEF Promise!Next, Promise!Give
<1>4. CASE PollEnd \/ PollError
    <2>1. source'.given = source.given
        BY <1>4 DEF PollEnd, PollError, TypeOK, Sources
    <2> QED
        BY <1>4, <2>1 DEF PollEnd, PollError, Polled, Unmoved, Promise!vars
<1>5. CASE BeginRead \/ ReadFrame \/ ForwardRequest \/ Disconnect \/ UNCHANGED vars
    BY <1>5 DEF BeginRead, Dispatched, ReadFrame, ForwardRequest, Routed, BodyRead,
                Disconnect, vars, Unmoved, Promise!vars
<1>6. CASE \/ Unauthorized \/ ServeModels \/ DeclaredTooLarge \/ OverLimit \/ ReadFails
           \/ NoModel \/ UnknownModel \/ UnprintableKey \/ UpstreamAnswers \/ UpstreamFails
    <2>1. phase \in {"idle", "reading", "forwarding"} /\ Unmoved
        BY <1>6 DEF Unauthorized, ServeModels, DeclaredTooLarge, Dispatched, OverLimit,
                    ReadFails, NoModel, UnknownModel, UnprintableKey, Routed, BodyRead,
                    UpstreamAnswers, UpstreamFails
    <2>2. phase' = "streaming" /\ source'.given = 0
        <3>1. CASE UpstreamAnswers
            BY <3>1 DEF UpstreamAnswers, Respond, NewSource
        <3>2. CASE ServeModels
            BY <3>2 DEF ServeModels, Respond, NewSource
        <3>3. CASE Unauthorized \/ DeclaredTooLarge \/ OverLimit \/ ReadFails \/ NoModel
                   \/ UnknownModel \/ UnprintableKey \/ UpstreamFails
            <4>1. ASSUME NEW STATE e, NEW error, Fail(e, error)
                  PROVE  phase' = "streaming" /\ source'.given = 0
                BY <4>1 DEF Fail, Respond, NewSource
            <4> QED
                BY <3>3, <4>1 DEF Unauthorized, DeclaredTooLarge, OverLimit, ReadFails,
                                  NoModel, UnknownModel, UnprintableKey, UpstreamFails
        <3> QED
            BY <1>6, <3>1, <3>2, <3>3
    <2> QED
        BY <2>1, <2>2 DEF BodyInv, Unmoved, Promise!vars
<1> QED
    BY <1>1, <1>2, <1>3, <1>4, <1>5, <1>6 DEF Next, Decide

(* The module keeps the promise of the log, at every step and for every body  *)
(* (observe.rs MeteredBody and RequestLog::finish).                           *)
THEOREM ExchangeKeepsPromise == Spec => PromiseKept
<1>1. Init => Promise!Init
    BY PromiseInit
<1>2. TypeOK /\ BodyInv /\ BodyInv' /\ [Next]_vars => [Promise!Next]_(Promise!vars)
    BY PromiseStep
<1> QED
    BY <1>1, <1>2, TypeCorrect, BodyAccounted, PTL DEF Spec, PromiseKept, Promise!Spec
=============================================================================
