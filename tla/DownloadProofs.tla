--------------------------- MODULE DownloadProofs ---------------------------
(***************************************************************************)
(* The verdict on a download fits what happened, for every size.           *)
(***************************************************************************)
EXTENDS DownloadProperties, TLAPS

USE SizesAssumption DEF ErrorPage

\* Nothing is judged before Run returns.
Unjudged ==
  loop # "returned" =>
    error = "none" /\ ~partial /\ ~stalled /\ ~interrupted /\ reason = "none"

\* What the server answered: a request that failed has no response and an error.
Answered ==
  /\ loop = "do" => status = 0
  /\ loop \in {"read", "check"} => status # 0
  /\ loop = "returned" /\ status = 0 =>
       error # "none" /\ ~partial /\ ~stalled /\ ~interrupted /\ reason = "none"
  /\ status = 200 => length = expected
  /\ status # 200 => length = ErrorPage
  /\ status = 0 => total = 0

\* What finish made of a response.
Finished ==
  loop = "returned" /\ status # 0 =>
    /\ partial <=> total < expected
    /\ interrupted <=> expected > 0 /\ (total < (expected * 95) \div 100 \/ stalled)
    /\ stalled => error = "no_bytes" /\ reason = "client_timeout"
    /\ ~stalled /\ partial => reason = classifyInterruption(error)
    /\ ~stalled /\ ~partial => reason = "none"

\* A value in the channel of the timer is of the silence that still lasts.
Silence ==
  /\ timer = "fired" => idle
  /\ stalled => timer = "fired"
  /\ error = "timeout" => ctxDone

Inv == TypeOK /\ Unjudged /\ Answered /\ Finished /\ Silence

LEMMA InitInv == Init => Inv
<1> SUFFICES ASSUME Init PROVE Inv
  OBVIOUS
<1>1. FlagsOK
  BY Zenon DEF Init, FlagsOK
<1>2. TypeOK
  BY <1>1 DEF Init, TypeOK, Errors, Reasons
<1>3. Unjudged /\ Finished
  BY Zenon DEF Init, Unjudged, Finished
<1>4. Answered
  BY DEF Init, Answered
<1>5. ~stalled
  BY Zenon DEF Init
<1>6. Silence
  BY <1>5 DEF Init, Silence
<1> QED BY <1>2, <1>3, <1>4, <1>6 DEF Inv

\* The reasons that an error can be given.
LEMMA ReasonOf ==
  ASSUME NEW err \in Errors
  PROVE  /\ classifyInterruption(err) \in Reasons \ {"none"}
         /\ classifyInterruption(err) = "client_timeout" => err = "timeout"
BY DEF classifyInterruption, Errors, Reasons

\* What finish makes of a response that is read no further.
LEMMA FinishKeeps ==
  ASSUME Inv, status # 0,
         NEW err \in Errors, NEW stall \in BOOLEAN,
         stall => err = "no_bytes" /\ timer = "fired",
         err = "timeout" => ctxDone,
         finish(total, err, stall),
         UNCHANGED <<response, total, clock, ctxDone>>
  PROVE  Inv'
<1>1. /\ loop' = "returned" /\ error' = err
      /\ UNCHANGED <<expected, status, length, total, timer>>
  BY DEF finish, response, clock
<1>2. FlagsOK /\ expected \in Nat /\ total \in Nat
  BY DEF Inv, TypeOK
<1>3. FlagsOK'
  <2>1. (total < expected) \in BOOLEAN
    OBVIOUS
  <2> QED BY <1>2, <2>1, Zenon DEF finish, FlagsOK, clock
<1>4. /\ stalled' <=> stall
      /\ partial' <=> total < expected
      /\ interrupted' <=> expected > 0 /\ (total < (expected * 95) \div 100 \/ stall)
  BY Zenon DEF finish
<1>5. /\ idle' <=> idle
      /\ ctxDone' <=> ctxDone
  BY Zenon DEF clock
<1>6. /\ stall => reason' = "client_timeout"
      /\ ~stall /\ total < expected => reason' = classifyInterruption(err)
      /\ ~stall /\ ~(total < expected) => reason' = "none"
  BY <1>2 DEF finish
<1>7. reason' \in Reasons
  BY <1>6, ReasonOf DEF Reasons
<1>8. TypeOK'
  BY <1>1, <1>3, <1>7 DEF Inv, TypeOK
<1>9. Unjudged' /\ Answered'
  BY <1>1 DEF Inv, Unjudged, Answered
<1>10. Finished'
  BY <1>1, <1>4, <1>6 DEF Finished
<1>11. Silence'
  BY <1>1, <1>4, <1>5 DEF Inv, Silence
<1> QED BY <1>8, <1>9, <1>10, <1>11 DEF Inv

LEMMA NextInv == Inv /\ [Next]_vars => Inv'
<1> SUFFICES ASSUME Inv, [Next]_vars PROVE Inv'
  OBVIOUS
<1>0. TypeOK /\ FlagsOK /\ Unjudged /\ Answered /\ Finished /\ Silence
  BY DEF Inv, TypeOK
<1>1. CASE Respond
  <2>1. UNCHANGED <<expected, total, idle, gaps, ctxDone, error,
                    partial, stalled, interrupted, reason>>
    BY <1>1, Zenon DEF Respond, verdicts
  <2>2. /\ loop = "do" /\ loop' = "read" /\ timer' = "running"
        /\ \/ status' = 200 /\ length' = expected
           \/ status' \in {400, 502} /\ length' = ErrorPage
    BY <1>1 DEF Respond
  <2>3. FlagsOK'
    BY <1>0, <2>1, Zenon DEF FlagsOK
  <2>4. total = 0 /\ expected \in Nat
    BY <1>0, <2>2 DEF Answered, TypeOK
  <2>5. TypeOK'
    BY <1>0, <2>1, <2>2, <2>3, <2>4 DEF TypeOK
  <2>6. Unjudged' /\ Answered' /\ Finished'
    BY <1>0, <2>1, <2>2 DEF Unjudged, Answered, Finished
  <2>7. Silence'
    BY <1>0, <2>1, <2>2 DEF Silence, Unjudged
  <2> QED BY <2>5, <2>6, <2>7 DEF Inv
<1>2. CASE DoFails
  <2>1. UNCHANGED <<expected, status, length, total, timer, idle, gaps, ctxDone,
                    partial, stalled, interrupted, reason>>
    BY <1>2, Zenon DEF DoFails, response, clock, verdicts
  <2>2. /\ loop = "do" /\ loop' = "returned"
        /\ error' \in {"reset", "other", "timeout"}
        /\ error' = "timeout" => ctxDone
    BY <1>2 DEF DoFails
  <2>3. FlagsOK'
    BY <1>0, <2>1, Zenon DEF FlagsOK
  <2>4. TypeOK'
    BY <1>0, <2>1, <2>2, <2>3 DEF TypeOK, Errors
  <2>5. Unjudged' /\ Answered' /\ Finished'
    BY <1>0, <2>1, <2>2 DEF Unjudged, Answered, Finished
  <2>6. Silence'
    BY <1>0, <2>1, <2>2 DEF Silence
  <2> QED BY <2>4, <2>5, <2>6 DEF Inv
<1>3. ASSUME NEW n \in 1 .. length, ReadBytes(n) PROVE Inv'
  <2>1. UNCHANGED <<expected, status, length, gaps, ctxDone, error,
                    partial, stalled, interrupted, reason>>
    BY <1>3, Zenon DEF ReadBytes, response, verdicts
  <2>2. /\ loop = "read" /\ loop' = "check"
        /\ timer' = "running" /\ total' = total + n /\ total + n <= length
    BY <1>3 DEF ReadBytes
  <2>3. FlagsOK'
    BY <1>0, <1>3, <2>1, Zenon DEF FlagsOK, ReadBytes
  <2>4. TypeOK'
    BY <1>0, <2>1, <2>2, <2>3 DEF TypeOK
  <2>5. Unjudged' /\ Answered' /\ Finished'
    BY <1>0, <2>1, <2>2 DEF Unjudged, Answered, Finished
  <2>6. Silence'
    BY <1>0, <2>1, <2>2 DEF Silence, Unjudged
  <2> QED BY <2>4, <2>5, <2>6 DEF Inv
<1>4. CASE ReadEOF
  BY <1>4, <1>0, FinishKeeps DEF ReadEOF, Answered, Errors
<1>5. CASE CutOff
  BY <1>5, <1>0, FinishKeeps DEF CutOff, Answered, Errors
<1>6. CASE Deadline
  BY <1>6, <1>0, FinishKeeps DEF Deadline, Answered, Errors
<1>7. CASE Check
  <2>1. CASE timer = "fired"
    BY <1>0, <1>7, <2>1, FinishKeeps DEF Check, Answered, Errors
  <2>2. CASE timer # "fired"
    <3>1. UNCHANGED <<expected, status, length, total, timer, idle, gaps, ctxDone,
                      error, partial, stalled, interrupted, reason>>
      BY <1>7, <2>2, Zenon DEF Check, response, clock, verdicts
    <3>2. loop = "check" /\ loop' = "read"
      BY <1>7, <2>2 DEF Check
    <3>3. FlagsOK'
      BY <1>0, <3>1, Zenon DEF FlagsOK
    <3>4. TypeOK'
      BY <1>0, <3>1, <3>2, <3>3 DEF TypeOK
    <3> QED BY <1>0, <3>1, <3>2, <3>4 DEF Inv, Unjudged, Answered, Finished, Silence
  <2> QED BY <2>1, <2>2
<1>8. CASE TimerFires
  <2>1. UNCHANGED <<loop, expected, status, length, total, ctxDone, error,
                    partial, stalled, interrupted, reason>>
    BY <1>8, Zenon DEF TimerFires, response, verdicts
  <2>2. timer' = "fired" /\ loop # "returned"
    BY <1>8 DEF TimerFires
  <2>3. FlagsOK' /\ idle'
    BY <1>0, <1>8, <2>1, Zenon DEF FlagsOK, TimerFires
  <2>4. TypeOK'
    BY <1>0, <2>1, <2>2, <2>3 DEF TypeOK
  <2>5. Unjudged' /\ Answered' /\ Finished'
    BY <1>0, <2>1, <2>2 DEF Unjudged, Answered, Finished
  <2>6. Silence'
    BY <1>0, <2>1, <2>2, <2>3 DEF Silence
  <2> QED BY <2>4, <2>5, <2>6 DEF Inv
<1>9. CASE Expire
  <2>1. UNCHANGED <<loop, expected, status, length, total, timer, idle, gaps, error,
                    partial, stalled, interrupted, reason>>
    BY <1>9, Zenon DEF Expire, response, clock, verdicts
  <2>2. FlagsOK' /\ ctxDone'
    BY <1>0, <1>9, <2>1, Zenon DEF FlagsOK, Expire
  <2>3. TypeOK'
    BY <1>0, <2>1, <2>2 DEF TypeOK
  <2>4. Unjudged' /\ Answered' /\ Finished'
    BY <1>0, <2>1 DEF Unjudged, Answered, Finished
  <2>5. Silence'
    BY <1>0, <2>1, <2>2 DEF Silence
  <2> QED BY <2>3, <2>4, <2>5 DEF Inv
<1>10. CASE UNCHANGED vars
  <2>1. UNCHANGED <<loop, expected, status, length, total, timer, idle, gaps, ctxDone,
                    error, partial, stalled, interrupted, reason>>
    BY <1>10, Zenon DEF vars, response, clock, verdicts
  <2>2. FlagsOK'
    BY <1>0, <2>1, Zenon DEF FlagsOK
  <2>3. TypeOK'
    BY <1>0, <2>1, <2>2 DEF TypeOK
  <2> QED BY <1>0, <2>1, <2>3 DEF Inv, Unjudged, Answered, Finished, Silence
<1> QED BY <1>1, <1>2, <1>3, <1>4, <1>5, <1>6, <1>7, <1>8, <1>9, <1>10
        DEF Next, Run, Read, Returned

LEMMA Invariance == Spec => []Inv
BY InitInv, NextInv, PTL DEF Spec

-----------------------------------------------------------------------------
\* Every variable of a download keeps its type (download.go:81-195), for every
\* size.
THEOREM TypeCorrect == Spec => []TypeOK
<1>1. Inv => TypeOK
  BY DEF Inv
<1> QED BY <1>1, Invariance, PTL

\* The printed state of a download says how much was received
\* (report.go:141-147).
THEOREM LabelIsRight == Spec => []LabelMeansBytes
<1>1. Inv => LabelMeansBytes
  <2> SUFFICES ASSUME Inv, loop = "returned", expected > 0
               PROVE  /\ Label = "completed" => total = expected /\ status = 200
                      /\ Label = "partial" => /\ total < expected
                                              /\ total * 100 >= expected * 95 - 99
    BY DEF LabelMeansBytes
  <2>1. /\ expected \in Nat /\ expected > ErrorPage
        /\ total \in Nat /\ total <= length
    BY DEF Inv, TypeOK
  <2>2. /\ Label = "completed" => ~interrupted /\ ~stalled /\ ~partial /\ error = "none"
        /\ Label = "partial" => ~interrupted /\ ~stalled /\ partial
    BY DEF Label
  <2>3. status = 0 => error # "none" /\ ~partial
    BY DEF Inv, Answered
  <2>4. status # 0 =>
          /\ partial <=> total < expected
          /\ interrupted <=> total < (expected * 95) \div 100 \/ stalled
    BY DEF Inv, Finished
  <2>5. ASSUME Label = "completed" PROVE total = expected /\ status = 200
    BY <2>1, <2>2, <2>3, <2>4, <2>5 DEF Inv, Answered
  <2>6. ASSUME Label = "partial"
        PROVE  total < expected /\ total * 100 >= expected * 95 - 99
    <3>1. total < expected /\ total >= (expected * 95) \div 100
      BY <2>1, <2>2, <2>3, <2>4, <2>6
    <3> QED BY <2>1, <3>1
  <2> QED BY <2>5, <2>6
<1> QED BY <1>1, Invariance, PTL

\* A download is called stalled while it is silent only (download.go:113-119).
THEOREM StallIsSilence == Spec => []StalledMeansIdle
<1>1. Inv => StalledMeansIdle
  BY DEF Inv, Silence, StalledMeansIdle
<1> QED BY <1>1, Invariance, PTL

\* The reason of an interruption blames the side that ended it
\* (download.go:171-195).
THEOREM ReasonIsRight == Spec => []ReasonFits
<1>1. Inv => ReasonFits
  <2> SUFFICES ASSUME Inv PROVE ReasonFits
    OBVIOUS
  <2>1. error \in Errors
    BY DEF Inv, TypeOK
  <2>2. classifyInterruption(error) = "client_timeout" => ctxDone
    BY <2>1, ReasonOf DEF Inv, Silence
  <2>3. reason # "none" =>
          /\ loop = "returned" /\ status # 0
          /\ stalled \/ partial
          /\ stalled => reason = "client_timeout"
          /\ ~stalled => reason = classifyInterruption(error)
    BY DEF Inv, Unjudged, Answered, Finished
  <2>4. partial /\ loop = "returned" /\ status # 0 => total < expected
    BY DEF Inv, Finished
  <2>5. loop = "returned" /\ stalled => reason = "client_timeout"
    BY DEF Inv, Answered, Finished
  <2> QED BY <2>2, <2>3, <2>4, <2>5 DEF ReasonFits
<1> QED BY <1>1, Invariance, PTL
=============================================================================
