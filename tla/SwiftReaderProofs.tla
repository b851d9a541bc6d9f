------------------------- MODULE SwiftReaderProofs --------------------------
(***************************************************************************)
(* Proofs, for every size of the file and of the buffer and every service  *)
(* catalog, of what MCHttpReader checks on small instances of HttpReader   *)
(* and SwiftReader.                                                        *)
(***************************************************************************)
EXTENDS SwiftReader, ByteStreamProofs, WellFoundedInduction

(* The buffer holds the bytes of the file behind off0, and what libcurl    *)
(* delivers next follows them, except after a failed seek has emptied it.  *)
BufferInv ==
  /\ buf \in Seq(Nat) /\ got \in Seq(Nat)
  /\ buf = Bytes(off0, Len(buf)) /\ off0 + Len(buf) <= FileSize
  /\ ~failed \/ buf # <<>> \/ pc \in {"swift", "keystone", "open", "fill", "read"}
       => sent = off0 + Len(buf)
  /\ done_reading /\ total_length = FileSize => sent = FileSize

(* What the control state says about the call under way: an empty buffer   *)
(* outside a call means that everything was read.                          *)
CallInv ==
  /\ pc \in {"swift", "keystone", "open", "fill"} => buf = <<>> /\ got = <<>> /\ asked = 0
  /\ pc = "fill" => off0 = new_off
  /\ pc = "read" => asked = rest + Len(got) /\ (rest = 0 => buf # <<>>)
  /\ pc = "check" /\ ret >= 0 /\ from + ret = new_off => http_tell = new_off
  /\ pc = "idle" \/ (pc = "check" /\ ret >= 0) => buf # <<>> \/ done_reading \/ failed

(* The inductive invariant.                                                *)
IInv == ResumesWhereItStopped /\ EndOnlyAtEnd /\ BufferInv /\ CallInv
-----------------------------------------------------------------------------
(* A transfer delivers no more than fits and no more than is left.         *)
LEMMA TransferFacts ==
  ASSUME NEW n \in 0 .. 2 * MAX_WRITE, NEW how, Transfer(n, how), sent \in 0..FileSize
  PROVE  n \in Nat /\ sent + n \in 0..FileSize
BY HttpAssumption DEF Transfer, Smaller

(* total_length stays the length of the file or of a resumed transfer.     *)
LEMMA LengthFacts ==
  ASSUME NEW n, NEW how, NEW len \in LengthsAfter(n, how),
         total_length \in -1..FileSize, begun \in 0..FileSize
  PROVE  len \in -1..FileSize
<1>1. FileSize - begun \in -1..FileSize
  BY HttpAssumption
<1>2. len = total_length \/ len = FileSize - begun
  BY Zenon DEF LengthsAfter
<1> QED BY <1>1, <1>2

(* A failure is counted only where it is allowed.                          *)
LEMMA FailureFacts ==
  ASSUME NEW n, NEW how, Transfer(n, how), failures \in 0..MaxFailures
  PROVE  FailuresAfter(how) \in 0..MaxFailures
<1>1. CASE how \in {"interrupted", "failing"} \/ (how = "broken" /\ access # "refused")
  <2>1. failures < MaxFailures
    BY <1>1 DEF Transfer, MayFail
  <2>2. FailuresAfter(how) = failures + 1
    BY <1>1 DEF FailuresAfter
  <2> QED BY <2>1, <2>2, HttpAssumption
<1>2. CASE ~(how \in {"interrupted", "failing"} \/ (how = "broken" /\ access # "refused"))
  BY <1>2 DEF FailuresAfter
<1> QED BY <1>1, <1>2

(* The types of what the steps compute with.                               *)
LEMMA Types ==
  ASSUME IInv
  PROVE  /\ FileSize \in Nat \ {0} /\ MAX_WRITE \in Nat \ {0} /\ MaxFailures \in Nat
         /\ off0 \in 0..FileSize /\ buf \in Seq(Nat) /\ Len(buf) \in 0 .. 2 * MAX_WRITE
         /\ p_buf \in 0..Len(buf) /\ total_length \in -1..FileSize
         /\ begun \in 0..FileSize /\ sent \in 0..FileSize /\ failures \in 0..MaxFailures
         /\ access \in {"free", "headers", "refused"}
         /\ rest \in Nat /\ asked \in Nat /\ ret \in Int /\ new_off \in -1..FileSize
         /\ from \in 0..FileSize /\ got \in Seq(Nat) /\ Len(got) \in Nat /\ Len(buf) \in Nat
         /\ off0 + Len(buf) <= FileSize
BY HttpAssumption DEF IInv, ResumesWhereItStopped, TypeOK, BufferInv

(* The Boolean ones.                                                       *)
LEMMA BooleanTypes ==
  ASSUME IInv
  PROVE  done_reading \in BOOLEAN /\ running \in BOOLEAN /\ failed \in BOOLEAN
BY Zenon DEF IInv, ResumesWhereItStopped, TypeOK

(* n bytes of the transfer become the buffer.                              *)
LEMMA Received ==
  ASSUME NEW n \in 0 .. 2 * MAX_WRITE, NEW o \in Nat
  PROVE  /\ Bytes(o, n) \in Seq(Nat) /\ Len(Bytes(o, n)) = n
         /\ (Bytes(o, n) = <<>> <=> n = 0)
<1>1. n \in Nat
  BY HttpAssumption
<1>2. Bytes(o, n) \in Seq(Nat) /\ Len(Bytes(o, n)) = n
  BY <1>1, BytesFacts, Zenon
<1> DEFINE b == Bytes(o, n)
<1>3. b \in Seq(Nat) /\ Len(b) = n
  BY <1>2
<1> HIDE DEF b
<1>4. b = <<>> <=> n = 0
  BY <1>3
<1> QED BY <1>2, <1>4 DEF b

(* What fill_buffer may leave, of a used-up buffer that was in step with   *)
(* the transfer.                                                           *)
Filled(result) ==
  /\ off0' = off0 + Len(buf) /\ p_buf' = 0 /\ off0' \in 0..FileSize
  /\ buf' \in Seq(Nat) /\ Len(buf') \in 0 .. 2 * MAX_WRITE /\ buf' = Bytes(off0', Len(buf'))
  /\ sent' = off0' + Len(buf') /\ sent' \in 0..FileSize
  /\ total_length' \in -1..FileSize /\ begun' \in 0..FileSize
  /\ failures' \in 0..MaxFailures /\ access' \in {"free", "headers", "refused"}
  /\ done_reading' \in BOOLEAN /\ running' \in BOOLEAN
  /\ done_reading' /\ total_length' = FileSize => sent' = FileSize
  /\ result = "DATA" => buf' # <<>>
  /\ result = "FINISHED" => buf' = <<>> /\ done_reading'

(* It ends at the end only; it goes on where the transfer stopped.         *)
LEMMA FillInv ==
  ASSUME IInv, pc \in {"open", "fill", "read"}, NEW result, fill_buffer(result)
  PROVE  Filled(result)
<1>1. sent = off0 + Len(buf)
  <2>1. pc \in {"swift", "keystone", "open", "fill", "read"}
    OBVIOUS
  <2> QED BY <2>1, Zenon DEF IInv, BufferInv
<1>2. done_reading /\ total_length = FileSize => sent = FileSize
  BY Zenon DEF IInv, BufferInv
<1>3. /\ sent \in 0..FileSize /\ sent \in Nat /\ FileSize \in Nat /\ begun \in 0..FileSize
      /\ total_length \in -1..FileSize /\ failures \in 0..MaxFailures
      /\ access \in {"free", "headers", "refused"} /\ MAX_WRITE \in Nat \ {0}
      /\ MaxFailures \in Nat
  BY Types
<1>4. Advanced = sent
  BY <1>1 DEF Advanced
<1>5. /\ <<>> \in Seq(Nat) /\ Len(<<>>) = 0 /\ 0 \in 0 .. 2 * MAX_WRITE
      /\ Bytes(sent, 0) = <<>> /\ sent + 0 = sent
      /\ AccessAfterInit \in {"free", "headers", "refused"}
  BY <1>3 DEF Bytes, AccessAfterInit
<1>6. CASE FillFinished(result)
  <2>1. /\ off0' = sent /\ buf' = <<>> /\ p_buf' = 0 /\ result = "FINISHED"
        /\ sent' = sent /\ begun' = begun /\ total_length' = total_length
        /\ failures' = failures /\ access' = access
    BY <1>4, <1>6 DEF FillFinished, curl
  <2>2. done_reading /\ done_reading' = done_reading /\ running' = running
    BY <1>6, Zenon DEF FillFinished, curl
  <2>3. "FINISHED" # "DATA"
    OBVIOUS
  <2> QED BY <1>1, <1>2, <1>3, <1>5, <2>1, <2>2, <2>3, BooleanTypes, Zenon DEF Filled
<1>7. CASE FillBroken(result)
  <2>1. PICK n \in 0 .. 2 * MAX_WRITE, how \in {"broken", "failing"} :
          /\ Transfer(n, how) /\ buf' = Bytes(sent, n) /\ sent' = sent + n
          /\ total_length' \in LengthsAfter(n, how)
          /\ running' = (running /\ how = "failing")
          /\ failures' = FailuresAfter(how)
    BY <1>7, Zenon DEF FillBroken
  <2>2. /\ off0' = sent /\ p_buf' = 0 /\ result = "RETRY" /\ begun' = begun /\ access' = access
    BY <1>4, <1>7 DEF FillBroken
  <2>3. ~done_reading /\ done_reading' = done_reading /\ running' \in BOOLEAN
    BY <1>7, <2>1, Zenon DEF FillBroken
  <2>4. n \in Nat /\ sent + n \in 0..FileSize
    BY <1>3, <2>1, TransferFacts, Zenon
  <2>5. Bytes(sent, n) \in Seq(Nat) /\ Len(Bytes(sent, n)) = n
    BY <1>3, <2>1, Received, Zenon
  <2>6. total_length' \in -1..FileSize
    BY <1>3, <2>1, LengthFacts, Zenon
  <2>7. failures' \in 0..MaxFailures
    BY <1>3, <2>1, <2>2, FailureFacts, Zenon
  <2>8. "RETRY" # "DATA" /\ "RETRY" # "FINISHED"
    OBVIOUS
  <2> QED BY <1>1, <1>3, <2>1, <2>2, <2>3, <2>4, <2>5, <2>6, <2>7, <2>8, BooleanTypes, Zenon
             DEF Filled
<1>8. CASE FillData(result)
  <2>1. PICK n \in 0 .. 2 * MAX_WRITE, how \in {"enough", "ended", "interrupted", "idle"} :
          /\ Transfer(n, how) /\ total_length' \in LengthsAfter(n, how)
          /\ done_reading' = Complete(n, total_length')
          /\ n > 0 \/ done_reading'
          /\ result = IF n > 0 THEN "DATA" ELSE "FINISHED"
          /\ buf' = Bytes(sent, n) /\ sent' = sent + n
          /\ running' = (running /\ how # "ended")
          /\ failures' = FailuresAfter(how)
    BY <1>8, Zenon DEF FillData
  <2>2. off0' = sent /\ p_buf' = 0 /\ begun' = begun /\ access' = access
    BY <1>4, <1>8 DEF FillData
  <2>3. done_reading' \in BOOLEAN /\ running' \in BOOLEAN
    BY <2>1, Zenon DEF Complete
  <2>4. n \in Nat /\ sent + n \in 0..FileSize
    BY <1>3, <2>1, TransferFacts, Zenon
  <2>5. /\ Bytes(sent, n) \in Seq(Nat) /\ Len(Bytes(sent, n)) = n
        /\ (Bytes(sent, n) = <<>> <=> n = 0)
    BY <1>3, <2>1, Received, Zenon
  <2>6. total_length' \in -1..FileSize
    BY <1>3, <2>1, LengthFacts, Zenon
  <2>7. failures' \in 0..MaxFailures
    BY <1>3, <2>1, FailureFacts, Zenon
  <2>8. ASSUME done_reading', total_length' = FileSize PROVE sent' = FileSize
    <3>1. sent >= FileSize
      BY <1>4, <2>1, <2>8, Zenon DEF Complete
    <3> QED BY <1>3, <2>1, <2>4, <3>1
  <2>9. /\ result = "DATA" => buf' # <<>>
        /\ result = "FINISHED" => buf' = <<>> /\ done_reading'
    <3>1. CASE n > 0
      <4>1. n # 0 /\ "DATA" # "FINISHED"
        BY <2>4, <3>1
      <4> QED BY <2>1, <2>5, <3>1, <4>1, Zenon
    <3>2. CASE ~(n > 0)
      <4>1. n = 0 /\ "DATA" # "FINISHED"
        BY <2>4, <3>2
      <4> QED BY <2>1, <2>5, <3>2, <4>1, Zenon
    <3> QED BY <3>1, <3>2
  <2> QED BY <1>1, <1>3, <2>1, <2>2, <2>3, <2>4, <2>5, <2>6, <2>7, <2>8, <2>9, Zenon DEF Filled
<1>9. CASE FillRestart(result)
  <2>1. PICK how \in {"ended", "interrupted", "idle"} :
          /\ Transfer(0, how) /\ total_length' \in LengthsAfter(0, how)
          /\ failures' = FailuresAfter(how)
    BY <1>9, Zenon DEF FillRestart
  <2>2. /\ off0' = sent /\ p_buf' = 0 /\ result = "RETRY" /\ buf' = <<>>
        /\ sent' = sent /\ begun' = sent /\ access' = AccessAfterInit
    BY <1>4, <1>9 DEF FillRestart, ResumeFrom
  <2>3. ~done_reading /\ done_reading' = done_reading /\ running' = TRUE
    BY <1>9, Zenon DEF FillRestart
  <2>4. total_length' \in -1..FileSize
    BY <1>3, <2>1, LengthFacts, Zenon
  <2>5. failures' \in 0..MaxFailures
    BY <1>3, <2>1, FailureFacts, Zenon
  <2>6. "RETRY" # "DATA" /\ "RETRY" # "FINISHED"
    OBVIOUS
  <2> QED BY <1>1, <1>3, <1>5, <2>2, <2>3, <2>4, <2>5, <2>6, BooleanTypes, Zenon DEF Filled
<1>10. CASE FillRestartFails(result)
  <2>1. PICK how \in {"ended", "idle"} : total_length' \in LengthsAfter(0, how)
    BY <1>10, Zenon DEF FillRestartFails
  <2>2. /\ off0' = sent /\ p_buf' = 0 /\ result = "RETRY_ERROR" /\ buf' = <<>>
        /\ sent' = sent /\ begun' = begun /\ access' = AccessAfterInit
        /\ failures' = failures + 1 /\ failures < MaxFailures
    BY <1>4, <1>10 DEF FillRestartFails, MayFail
  <2>3. ~done_reading /\ done_reading' = done_reading /\ running' = FALSE
    BY <1>10, Zenon DEF FillRestartFails
  <2>4. total_length' \in -1..FileSize
    BY <1>3, <2>1, LengthFacts, Zenon
  <2>5. failures' \in 0..MaxFailures
    BY <1>3, <2>2
  <2>6. "RETRY_ERROR" # "DATA" /\ "RETRY_ERROR" # "FINISHED"
    OBVIOUS
  <2> QED BY <1>1, <1>3, <1>5, <2>2, <2>3, <2>4, <2>5, <2>6, BooleanTypes, Zenon DEF Filled
<1> QED BY <1>6, <1>7, <1>8, <1>9, <1>10, Zenon DEF fill_buffer
-----------------------------------------------------------------------------
(* A part of the buffer.                                                   *)
LEMMA PartOfBytes ==
  ASSUME NEW k \in Nat, NEW m \in Nat, NEW p \in Nat, NEW n \in Nat, p + n <= m
  PROVE  SubSeq(Bytes(k, m), p + 1, p + n) = Bytes(k + p, n)
<1> DEFINE s == Bytes(k, m)
           t == SubSeq(s, p + 1, p + n)
<1>1. s \in Seq(Nat) /\ Len(s) = m /\ \A i \in 1..m : s[i] = k + i
  BY BytesFacts
<1> HIDE DEF s
<1>2. t \in Seq(Nat) /\ Len(t) = n
  BY <1>1
<1>3. \A i \in 1..n : t[i] = (k + p) + i
  BY <1>1
<1> HIDE DEF t
<1>4. k + p \in Nat
  OBVIOUS
<1>5. t = Bytes(k + p, n)
  BY <1>2, <1>3, <1>4, IsBytes, Zenon
<1> QED BY <1>5 DEF s, t

(* Taking n bytes from the buffer continues what was delivered.            *)
LEMMA TakeFacts ==
  ASSUME IInv, pc = "read", NEW n \in 0..Left, Take(n), n <= rest
  PROVE  /\ got' \in Seq(Nat) /\ Len(got') = Len(got) + n /\ got' = Bytes(from, Len(got'))
         /\ rest' = rest - n /\ rest' \in Nat
         /\ (off0 + p_buf) + n = from + Len(got')
         /\ asked = rest' + Len(got')
<1>1. /\ buf \in Seq(Nat) /\ Len(buf) \in Nat /\ p_buf \in 0..Len(buf) /\ p_buf \in Nat
      /\ off0 \in Nat /\ got \in Seq(Nat) /\ Len(got) \in Nat /\ rest \in Nat /\ from \in Nat
      /\ asked \in Nat
  BY Types
<1>2. n \in Nat /\ p_buf + n <= Len(buf)
  BY <1>1 DEF Left
<1>3. buf = Bytes(off0, Len(buf)) /\ got = Bytes(from, Len(got))
  BY DEF IInv, BufferInv, ResumesWhereItStopped
<1>4. off0 + p_buf = from + Len(got) /\ asked = rest + Len(got)
  BY DEF IInv, ResumesWhereItStopped, CallInv, http_tell
<1>5. SubSeq(buf, p_buf + 1, p_buf + n) = Bytes(off0 + p_buf, n)
  <2>1. PICK m : m = Len(buf)
    OBVIOUS
  <2>2. off0 \in Nat /\ m \in Nat /\ p_buf \in Nat /\ n \in Nat /\ p_buf + n <= m
    BY <1>1, <1>2, <2>1
  <2>3. SubSeq(Bytes(off0, m), p_buf + 1, p_buf + n) = Bytes(off0 + p_buf, n)
    BY <2>2, PartOfBytes
  <2> QED BY <1>3, <2>1, <2>3, Zenon
<1>6. Bytes(from, Len(got)) \o Bytes(from + Len(got), n) = Bytes(from, Len(got) + n)
  BY <1>1, <1>2, BytesAppend, Zenon
<1>7. got' = Bytes(from, Len(got) + n) /\ rest' = rest - n
  <2>1. got' = got \o Bytes(from + Len(got), n) /\ rest' = rest - n
    BY <1>4, <1>5, Zenon DEF Take
  <2> QED BY <1>3, <1>6, <2>1, Zenon
<1>8. Len(got) + n \in Nat
  BY <1>1, <1>2
<1>9. got' \in Seq(Nat) /\ Len(got') = Len(got) + n
  BY <1>1, <1>7, <1>8, BytesFacts, Zenon
<1>10. got' = Bytes(from, Len(got'))
  BY <1>7, <1>9, Zenon
<1>11. /\ rest' \in Nat /\ (off0 + p_buf) + n = from + Len(got')
       /\ asked = rest' + Len(got')
  <2>1. Len(got') = Len(got) + n /\ rest' = rest - n
    BY <1>7, <1>9
  <2> QED BY <1>1, <1>2, <1>4, <2>1
<1> QED BY <1>7, <1>9, <1>10, <1>11

Controls == {"swift", "keystone", "open", "idle", "read", "fill", "check", "close", "closed"}
InStep == {"swift", "keystone", "open", "fill", "read"}

(* A step that fills the buffer.                                           *)
LEMMA FillFrame ==
  ASSUME IInv, NEW result, Filled(result),
         pc' \in Controls, rest' \in Nat, asked' \in Nat, ret' \in Int,
         new_off' \in -1..FileSize, from' \in 0..FileSize, failed' \in BOOLEAN,
         got' \in Seq(Nat), got' = Bytes(from', Len(got')),
         pc' \notin {"check", "closed"} => off0 + Len(buf) = from' + Len(got'),
         CallInv', EndOnlyAtEnd'
  PROVE  IInv'
<1>1. /\ off0' = off0 + Len(buf) /\ p_buf' = 0 /\ off0' \in 0..FileSize
      /\ buf' \in Seq(Nat) /\ Len(buf') \in 0 .. 2 * MAX_WRITE /\ buf' = Bytes(off0', Len(buf'))
      /\ sent' = off0' + Len(buf') /\ sent' \in 0..FileSize
      /\ total_length' \in -1..FileSize /\ begun' \in 0..FileSize
      /\ failures' \in 0..MaxFailures /\ access' \in {"free", "headers", "refused"}
  BY DEF Filled
<1>2. /\ done_reading' \in BOOLEAN /\ running' \in BOOLEAN
      /\ (done_reading' /\ total_length' = FileSize => sent' = FileSize)
  BY Zenon DEF Filled
<1>3. p_buf' \in 0..Len(buf') /\ off0' + Len(buf') <= FileSize /\ off0' + p_buf' = off0'
  BY <1>1, HttpAssumption
<1>4. TypeOK'
  BY <1>1, <1>2, <1>3, Zenon DEF TypeOK, Controls
<1>5. ResumesWhereItStopped'
  <2>1. pc' \notin {"check", "closed"} => off0' + p_buf' = from' + Len(got')
    BY <1>1, <1>3, Zenon
  <2> QED BY <1>4, <2>1, Zenon DEF ResumesWhereItStopped, http_tell
<1>6. BufferInv'
  BY <1>1, <1>2, <1>3, Zenon DEF BufferInv
<1> QED BY <1>5, <1>6, Zenon DEF IInv

(* A step that leaves the buffer and the transfer alone.                   *)
LEMMA FileFrame ==
  ASSUME IInv,
         UNCHANGED <<off0, buf, total_length, done_reading, begun, sent, running, failures>>,
         access' \in {"free", "headers", "refused"}, p_buf' \in 0..Len(buf),
         pc' \in Controls, rest' \in Nat, asked' \in Nat, ret' \in Int,
         new_off' \in -1..FileSize, from' \in 0..FileSize, failed' \in BOOLEAN,
         got' \in Seq(Nat), got' = Bytes(from', Len(got')),
         ~failed' \/ buf # <<>> \/ pc' \in InStep => ~failed \/ buf # <<>> \/ pc \in InStep,
         pc' \notin {"check", "closed"} => off0 + p_buf' = from' + Len(got'),
         CallInv', EndOnlyAtEnd'
  PROVE  IInv'
<1>1. /\ off0' = off0 /\ buf' = buf /\ total_length' = total_length
      /\ done_reading' = done_reading /\ begun' = begun /\ sent' = sent
      /\ running' = running /\ failures' = failures
  BY Zenon
<1>2. TypeOK'
  BY <1>1, Zenon DEF IInv, ResumesWhereItStopped, TypeOK, Controls
<1>3. ResumesWhereItStopped'
  BY <1>1, <1>2, Zenon DEF ResumesWhereItStopped, http_tell
<1>4. BufferInv'
  <2>1. /\ buf \in Seq(Nat) /\ buf = Bytes(off0, Len(buf)) /\ off0 + Len(buf) <= FileSize
        /\ done_reading /\ total_length = FileSize => sent = FileSize
        /\ ~failed \/ buf # <<>> \/ pc \in InStep => sent = off0 + Len(buf)
    BY Zenon DEF IInv, BufferInv, InStep
  <2>2. ~failed' \/ buf # <<>> \/ pc' \in InStep => sent = off0 + Len(buf)
    BY <2>1, Zenon
  <2>3. ~failed' \/ buf' # <<>> \/ pc' \in {"swift", "keystone", "open", "fill", "read"}
          => sent' = off0' + Len(buf')
    BY <1>1, <2>2, Zenon DEF InStep
  <2>4. ASSUME done_reading', total_length' = FileSize PROVE sent' = FileSize
    <3>1. total_length = FileSize
      BY <1>1, <2>4, Zenon
    <3>2. done_reading
      BY <1>1, <2>4, Zenon
    <3>3. sent = FileSize
      BY <2>1, <3>1, <3>2, Zenon
    <3> QED BY <1>1, <3>3, Zenon
  <2>5. buf' \in Seq(Nat) /\ buf' = Bytes(off0', Len(buf')) /\ off0' + Len(buf') <= FileSize
    BY <1>1, <2>1, Zenon
  <2> QED BY <2>3, <2>4, <2>5 DEF BufferInv
<1> QED BY <1>3, <1>4, Zenon DEF IInv

(* What is to be shown of a step that ends a call.                         *)
LEMMA CallIdle ==
  ASSUME pc' = "idle", buf' # <<>> \/ done_reading' \/ failed'
  PROVE  CallInv'
BY DEF CallInv

(* ... that leads into the loop of http_read.                              *)
LEMMA CallRead ==
  ASSUME pc' = "read", asked' = rest' + Len(got'), rest' = 0 => buf' # <<>>
  PROVE  CallInv' /\ EndOnlyAtEnd'
BY DEF CallInv, EndOnlyAtEnd

(* ... that leads to the end of http_seek.                                 *)
LEMMA CallCheck ==
  ASSUME pc' = "check",
         ret' >= 0 /\ from' + ret' = new_off' => off0' + p_buf' = new_off',
         ret' >= 0 => buf' # <<>> \/ done_reading' \/ failed'
  PROVE  CallInv' /\ EndOnlyAtEnd'
BY DEF CallInv, EndOnlyAtEnd, http_tell

(* ... that leads to the first fill of a transfer.                         *)
LEMMA CallFresh ==
  ASSUME pc' \in {"swift", "keystone", "open", "fill"}, pc' = "fill" => off0' = new_off',
         buf' = <<>>, got' = <<>>, asked' = 0
  PROVE  CallInv' /\ EndOnlyAtEnd'
BY DEF CallInv, EndOnlyAtEnd

(* ... that leads out of the handle's life.                                *)
LEMMA CallOver ==
  ASSUME pc' \in {"close", "closed"}
  PROVE  CallInv' /\ EndOnlyAtEnd'
BY DEF CallInv, EndOnlyAtEnd

(* Nothing is delivered where nothing was asked for.                       *)
LEMMA EndAsked ==
  ASSUME ret' \in Int, asked' = 0 \/ ret' < 0 \/ ret' = asked', asked' \in Nat
  PROVE  EndOnlyAtEnd'
BY DEF EndOnlyAtEnd

(* Nothing has been delivered yet.                                         *)
LEMMA GotNothing == <<>> \in Seq(Nat) /\ Len(<<>>) = 0 /\ \A k : <<>> = Bytes(k, 0)
BY DEF Bytes
-----------------------------------------------------------------------------
(* http_open: the first fill.                                              *)
LEMMA OpenInv ==
  ASSUME IInv, http_open \/ http_open_fails
  PROVE  IInv'
<1>1. pc = "open" /\ pc \in {"open", "fill", "read"}
  BY DEF http_open, http_open_fails
<1>2. /\ rest' = rest /\ asked' = asked /\ got' = got /\ ret' = ret /\ new_off' = new_off
      /\ from' = from /\ failed' = failed
  BY Zenon DEF http_open, http_open_fails, call
<1>3. buf = <<>> /\ got = <<>> /\ asked = 0
  BY <1>1 DEF IInv, CallInv
<1>4. /\ rest \in Nat /\ asked \in Nat /\ ret \in Int /\ new_off \in -1..FileSize
      /\ from \in 0..FileSize /\ got \in Seq(Nat) /\ off0 \in Nat /\ p_buf \in 0..Len(buf)
  BY Types
<1>5. failed' \in BOOLEAN
  BY <1>2, BooleanTypes, Zenon
<1>6. got = Bytes(from, Len(got)) /\ off0 + p_buf = from + Len(got)
  BY <1>1 DEF IInv, ResumesWhereItStopped, http_tell
<1>7. off0 + Len(buf) = from + Len(got)
  BY <1>3, <1>4, <1>6
<1>8. CASE http_open
  <2>1. PICK result \in {"DATA", "FINISHED"} : fill_buffer(result)
    BY <1>8, Zenon DEF http_open
  <2>2. Filled(result)
    BY <1>1, <2>1, FillInv, Zenon
  <2>3. pc' = "idle" /\ pc' \in Controls
    BY <1>8 DEF http_open, Controls
  <2>4. buf' # <<>> \/ done_reading'
    <3>1. result = "DATA" \/ result = "FINISHED"
      OBVIOUS
    <3> QED BY <2>2, <3>1, Zenon DEF Filled
  <2>5. CallInv'
    BY <2>3, <2>4, CallIdle, Zenon
  <2>6. EndOnlyAtEnd'
    <3>1. ret' \in Int /\ asked' = 0 /\ asked' \in Nat
      BY <1>2, <1>3, <1>4
    <3> QED BY <3>1, EndAsked
  <2> QED BY <1>2, <1>4, <1>5, <1>6, <1>7, <2>2, <2>3, <2>5, <2>6, FillFrame, Zenon
<1>9. CASE http_open_fails
  <2>1. PICK result \in {"RETRY", "RETRY_ERROR"} : fill_buffer(result)
    BY <1>9, Zenon DEF http_open_fails
  <2>2. Filled(result)
    BY <1>1, <2>1, FillInv, Zenon
  <2>3. pc' = "close" /\ pc' \in Controls /\ pc' \in {"close", "closed"}
    BY <1>9 DEF http_open_fails, Controls
  <2>4. CallInv' /\ EndOnlyAtEnd'
    BY <2>3, CallOver, Zenon
  <2> QED BY <1>2, <1>4, <1>5, <1>6, <1>7, <2>2, <2>3, <2>4, FillFrame, Zenon
<1> QED BY <1>8, <1>9

(* At an empty buffer, unless a call has failed, everything was read.      *)
LEMMA EmptyMeansEnd ==
  ASSUME IInv, pc = "idle", buf = <<>>, ~failed, total_length = FileSize
  PROVE  off0 + p_buf = FileSize
<1>1. done_reading
  BY Zenon DEF IInv, CallInv
<1>2. sent = FileSize
  BY <1>1, Zenon DEF IInv, BufferInv
<1>3. sent = off0 + Len(buf)
  BY Zenon DEF IInv, BufferInv
<1> QED BY <1>2, <1>3, Types

(* http_read begins, or finds the buffer empty.                            *)
LEMMA http_readInv ==
  ASSUME IInv, NEW n \in Nat, http_read(n)
  PROVE  IInv'
<1>1. /\ pc = "idle" /\ asked' = n /\ rest' = n /\ got' = <<>> /\ from' = off0 + p_buf
      /\ new_off' = new_off /\ p_buf' = p_buf /\ access' = access
      /\ IF buf = <<>> THEN pc' = "idle" /\ ret' = 0 ELSE pc' = "read" /\ ret' = ret
      /\ UNCHANGED <<off0, buf, total_length, begun, sent, failures>>
  BY DEF http_read, http_tell, file, curl
<1>2. failed' = failed /\ done_reading' = done_reading /\ running' = running
  BY Zenon DEF http_read, file, curl
<1>3. /\ access \in {"free", "headers", "refused"} /\ p_buf \in 0..Len(buf) /\ ret \in Int
      /\ new_off \in -1..FileSize /\ off0 \in Nat /\ Len(buf) \in Nat
      /\ off0 + Len(buf) <= FileSize /\ FileSize \in Nat
  BY Types
<1>4. from' \in 0..FileSize /\ off0 + p_buf = from' + 0 /\ 0 \in Int
  BY <1>1, <1>3
<1>5. /\ access' \in {"free", "headers", "refused"} /\ p_buf' \in 0..Len(buf)
      /\ rest' \in Nat /\ asked' \in Nat /\ new_off' \in -1..FileSize
      /\ got' \in Seq(Nat) /\ got' = Bytes(from', Len(got')) /\ Len(got') = 0
  BY <1>1, <1>3, GotNothing, Zenon
<1>6. failed' \in BOOLEAN
  BY <1>2, BooleanTypes, Zenon
<1>7. CASE buf = <<>>
  <2>1. pc' = "idle" /\ ret' = 0 /\ pc' \in Controls /\ pc' \notin InStep /\ ret' \in Int
    BY <1>1, <1>7 DEF Controls, InStep
  <2>2. buf # <<>> \/ done_reading \/ failed
    BY <1>1, Zenon DEF IInv, CallInv
  <2>3. CallInv'
    <3>1. buf' # <<>> \/ done_reading' \/ failed'
      BY <1>1, <1>2, <2>2, Zenon
    <3> QED BY <2>1, <3>1, CallIdle, Zenon
  <2>4. EndOnlyAtEnd'
    <3>1. ASSUME ~failed, total_length = FileSize PROVE off0 + p_buf = FileSize
      BY <1>1, <1>7, <3>1, EmptyMeansEnd, Zenon
    <3> QED BY <1>1, <1>2, <3>1, Zenon DEF EndOnlyAtEnd, http_tell
  <2>5. off0 + p_buf' = from' + Len(got')
    BY <1>1, <1>4, <1>5, Zenon
  <2>6. ~failed' \/ buf # <<>> \/ pc' \in InStep => ~failed \/ buf # <<>> \/ pc \in InStep
    BY <1>2, <2>1, Zenon
  <2> QED BY <1>1, <1>2, <1>4, <1>5, <1>6, <2>1, <2>3, <2>4, <2>5, <2>6, FileFrame
<1>8. CASE buf # <<>>
  <2>1. pc' = "read" /\ ret' = ret /\ pc' \in Controls /\ ret' \in Int
    BY <1>1, <1>3, <1>8 DEF Controls
  <2>2. CallInv' /\ EndOnlyAtEnd'
    <3>1. asked' = rest' + Len(got')
      BY <1>1, <1>5
    <3>2. buf' # <<>>
      BY <1>1, <1>8
    <3> QED BY <2>1, <3>1, <3>2, CallRead, Zenon
  <2>3. off0 + p_buf' = from' + Len(got')
    BY <1>1, <1>4, <1>5, Zenon
  <2> QED BY <1>1, <1>2, <1>4, <1>5, <1>6, <1>8, <2>1, <2>2, <2>3, FileFrame
<1> QED BY <1>7, <1>8
-----------------------------------------------------------------------------
(* The loop of http_read finds enough in the buffer.                       *)
LEMMA ReadBufferedInv ==
  ASSUME IInv, ReadBuffered
  PROVE  IInv'
<1>1. /\ pc = "read" /\ rest > 0 /\ Left >= rest /\ Take(rest) /\ p_buf' = p_buf + rest
      /\ pc' = pc /\ asked' = asked /\ ret' = ret /\ new_off' = new_off /\ from' = from
      /\ access' = access
      /\ UNCHANGED <<off0, buf, total_length, begun, sent, failures>>
  BY DEF ReadBuffered, curl
<1>2. failed' = failed /\ done_reading' = done_reading /\ running' = running
  BY Zenon DEF ReadBuffered, curl
<1>3. /\ access \in {"free", "headers", "refused"} /\ p_buf \in 0..Len(buf) /\ ret \in Int
      /\ new_off \in -1..FileSize /\ off0 \in Nat /\ Len(buf) \in Nat /\ buf \in Seq(Nat)
      /\ rest \in Nat /\ asked \in Nat /\ from \in 0..FileSize
  BY Types
<1>4. rest \in 0..Left /\ rest <= rest /\ p_buf' \in 0..Len(buf) /\ buf # <<>>
  <2>1. Len(buf) > 0 /\ rest \in 0..Left /\ rest <= rest /\ p_buf' \in 0..Len(buf)
    BY <1>1, <1>3 DEF Left
  <2> QED BY <1>3, <2>1
<1>5. /\ got' \in Seq(Nat) /\ got' = Bytes(from, Len(got'))
      /\ rest' \in Nat /\ (off0 + p_buf) + rest = from + Len(got')
      /\ asked = rest' + Len(got')
  BY <1>1, <1>4, TakeFacts, Zenon
<1>6. off0 + p_buf' = from' + Len(got')
  <2>1. off0 + p_buf' = (off0 + p_buf) + rest
    BY <1>1, <1>3
  <2> QED BY <1>1, <1>5, <2>1, Zenon
<1>7. CallInv' /\ EndOnlyAtEnd'
  <2>1. pc' = "read" /\ asked' = rest' + Len(got') /\ buf' # <<>>
    BY <1>1, <1>4, <1>5
  <2> QED BY <2>1, CallRead, Zenon
<1>8. pc' \in Controls /\ failed' \in BOOLEAN
  <2>1. pc' \in Controls
    BY <1>1 DEF Controls
  <2> QED BY <1>2, <2>1, BooleanTypes, Zenon
<1> QED BY <1>1, <1>2, <1>3, <1>4, <1>5, <1>6, <1>7, <1>8, FileFrame

(* http_read returns what was asked for.                                   *)
LEMMA ReadReturnInv ==
  ASSUME IInv, ReadReturn
  PROVE  IInv'
<1>1. /\ pc = "read" /\ rest = 0 /\ ret' = asked
      /\ pc' = IF new_off < 0 THEN "idle" ELSE "check"
      /\ rest' = rest /\ asked' = asked /\ got' = got /\ new_off' = new_off /\ from' = from
      /\ access' = access /\ p_buf' = p_buf
      /\ UNCHANGED <<off0, buf, total_length, begun, sent, failures>>
  BY DEF ReadReturn, Returns, file, curl
<1>2. failed' = failed /\ done_reading' = done_reading /\ running' = running
  BY Zenon DEF ReadReturn, file, curl
<1>3. /\ access \in {"free", "headers", "refused"} /\ p_buf \in 0..Len(buf)
      /\ new_off \in -1..FileSize /\ rest \in Nat /\ asked \in Nat /\ from \in 0..FileSize
      /\ got \in Seq(Nat) /\ Len(got) \in Nat /\ ret' \in Int
  BY <1>1, Types
<1>4. /\ buf # <<>> /\ asked = rest + Len(got) /\ got = Bytes(from, Len(got))
      /\ off0 + p_buf = from + Len(got)
  BY <1>1 DEF IInv, CallInv, ResumesWhereItStopped, http_tell
<1>5. asked = Len(got)
  BY <1>1, <1>3, <1>4
<1>6. pc' \in {"idle", "check"} /\ pc' \in Controls /\ pc' \notin InStep
  BY <1>1 DEF Controls, InStep
<1>7. CallInv' /\ EndOnlyAtEnd'
  <2>1. CASE pc' = "idle"
    <3>1. buf' # <<>>
      BY <1>1, <1>4
    <3>2. CallInv'
      BY <2>1, <3>1, CallIdle, Zenon
    <3>3. ret' \in Int /\ ret' = asked' /\ asked' \in Nat
      BY <1>1, <1>3
    <3> QED BY <3>2, <3>3, EndAsked, Zenon
  <2>2. CASE pc' = "check"
    <3>1. buf' # <<>>
      BY <1>1, <1>4
    <3>2. from' + ret' = new_off' => off0' + p_buf' = new_off'
      BY <1>1, <1>4, <1>5, Zenon
    <3> QED BY <2>2, <3>1, <3>2, CallCheck, Zenon
  <2> QED BY <1>6, <2>1, <2>2
<1>8. failed' \in BOOLEAN
  BY <1>2, BooleanTypes, Zenon
<1> QED BY <1>1, <1>2, <1>3, <1>4, <1>6, <1>7, <1>8, FileFrame

(* The loop uses up the buffer and fills it again; it goes on, is at the   *)
(* end, or fails.                                                          *)
LEMMA ReadFillInv ==
  ASSUME IInv, ReadFill \/ ReadFinished \/ ReadFails
  PROVE  IInv'
<1>1. /\ pc = "read" /\ rest > 0 /\ Left < rest /\ Take(Left)
      /\ asked' = asked /\ new_off' = new_off /\ from' = from
  BY DEF ReadFill, ReadFinished, ReadFails
<1>2. /\ p_buf \in 0..Len(buf) /\ off0 \in Nat /\ Len(buf) \in Nat
      /\ new_off \in -1..FileSize /\ rest \in Nat /\ asked \in Nat /\ from \in 0..FileSize
      /\ ret \in Int /\ FileSize \in Nat
  BY Types
<1>3. Left \in 0..Left /\ Left <= rest /\ Left \in Nat /\ (off0 + p_buf) + Left = off0 + Len(buf)
  BY <1>1, <1>2 DEF Left
<1>4. /\ got' \in Seq(Nat) /\ got' = Bytes(from, Len(got'))
      /\ rest' \in Nat /\ (off0 + p_buf) + Left = from + Len(got')
      /\ asked = rest' + Len(got') /\ rest' = rest - Left
  BY <1>1, <1>3, TakeFacts, Zenon
<1>5. off0 + Len(buf) = from' + Len(got') /\ rest' # 0 /\ Len(got') \in Nat
      /\ asked - rest' = Len(got')
  BY <1>1, <1>2, <1>3, <1>4
<1>6. got' = Bytes(from', Len(got'))
  BY <1>1, <1>4, Zenon
<1>7. pc \in {"open", "fill", "read"}
  BY <1>1
<1>8. CASE ReadFill
  <2>1. PICK result : fill_buffer(result)
    BY <1>8, Zenon DEF ReadFill
  <2>2. Filled(result)
    BY <1>7, <2>1, FillInv, Zenon
  <2>3. pc' = "read" /\ ret' = ret /\ pc' \in Controls
    BY <1>1, <1>8 DEF ReadFill, Controls
  <2>4. failed' \in BOOLEAN
    BY <1>8, BooleanTypes, Zenon DEF ReadFill
  <2>5. CallInv' /\ EndOnlyAtEnd'
    <3>1. asked' = rest' + Len(got')
      BY <1>1, <1>4
    <3> QED BY <1>5, <2>3, <3>1, CallRead, Zenon
  <2> QED BY <1>1, <1>2, <1>4, <1>5, <1>6, <2>2, <2>3, <2>4, <2>5, FillFrame, Zenon
<1>9. CASE ReadFinished
  <2>1. Filled("FINISHED")
    BY <1>7, <1>9, FillInv, Zenon DEF ReadFinished
  <2>2. ret' = Len(got') /\ pc' = IF new_off < 0 THEN "idle" ELSE "check"
    BY <1>5, <1>9 DEF ReadFinished, Returns
  <2>3. pc' \in {"idle", "check"} /\ pc' \in Controls /\ ret' \in Int
    BY <1>5, <2>2 DEF Controls
  <2>4. failed' \in BOOLEAN
    BY <1>9, BooleanTypes, Zenon DEF ReadFinished
  <2>5. /\ off0' = off0 + Len(buf) /\ p_buf' = 0 /\ buf' = <<>> /\ off0' \in 0..FileSize
        /\ sent' = off0' + Len(buf')
    BY <2>1 DEF Filled
  <2>6. done_reading' /\ (total_length' = FileSize => sent' = FileSize)
    BY <2>1, Zenon DEF Filled
  <2>7. off0' + p_buf' = off0' /\ sent' = off0' + p_buf'
    BY <1>2, <2>5
  <2>8. CallInv' /\ EndOnlyAtEnd'
    <3>1. CASE pc' = "idle"
      <4>1. CallInv'
        BY <2>6, <3>1, CallIdle, Zenon
      <4>2. EndOnlyAtEnd'
        BY <2>6, <2>7, Zenon DEF EndOnlyAtEnd, http_tell
      <4> QED BY <4>1, <4>2
    <3>2. CASE pc' = "check"
      <4>1. from' + ret' = new_off' => off0' + p_buf' = new_off'
        BY <1>5, <2>2, <2>5, <2>7, Zenon
      <4> QED BY <2>6, <3>2, <4>1, CallCheck, Zenon
    <3> QED BY <2>3, <3>1, <3>2
  <2> QED BY <1>1, <1>2, <1>4, <1>5, <1>6, <2>1, <2>3, <2>4, <2>8, FillFrame, Zenon
<1>10. CASE ReadFails
  <2>1. Filled("RETRY_ERROR")
    BY <1>7, <1>10, FillInv, Zenon DEF ReadFails
  <2>2. ret' = -1 /\ pc' = IF new_off < 0 THEN "idle" ELSE "check"
    BY <1>10 DEF ReadFails, Returns
  <2>3. pc' \in {"idle", "check"} /\ pc' \in Controls /\ ret' \in Int /\ ret' < 0 /\ ~(ret' >= 0)
    BY <2>2 DEF Controls
  <2>4. failed' = TRUE /\ failed' \in BOOLEAN
    BY <1>10, Zenon DEF ReadFails
  <2>5. CallInv' /\ EndOnlyAtEnd'
    <3>1. CASE pc' = "idle"
      <4>1. CallInv'
        BY <2>4, <3>1, CallIdle, Zenon
      <4>2. EndOnlyAtEnd'
        BY <1>1, <1>2, <2>3, EndAsked
      <4> QED BY <4>1, <4>2
    <3>2. CASE pc' = "check"
      BY <2>3, <3>2, CallCheck, Zenon
    <3> QED BY <2>3, <3>1, <3>2
  <2> QED BY <1>1, <1>2, <1>4, <1>5, <1>6, <2>1, <2>3, <2>4, <2>5, FillFrame, Zenon
<1> QED BY <1>8, <1>9, <1>10
-----------------------------------------------------------------------------
(* A seek that moves nothing, that moves within the buffer, or that begins *)
(* to read through to its target.                                          *)
LEMMA SeekInv ==
  ASSUME IInv, NEW new \in Int, new <= FileSize, pc = "idle",
         failed' = failed, done_reading' = done_reading, running' = running,
         access' = access, UNCHANGED <<off0, buf, total_length, begun, sent, failures>>,
         \/ /\ ret' = -1 /\ asked' = 0 /\ got' = <<>> /\ rest' = 0 /\ from' = http_tell
            /\ p_buf' = p_buf /\ pc' = pc /\ new_off' = new_off
         \/ /\ new >= 0 /\ InBuffer(new) /\ p_buf' = p_buf + (new - http_tell)
            /\ SeekEnds(new)
         \/ /\ new >= 0 /\ ~MustRestart(new)
            /\ asked' = new - http_tell /\ rest' = asked' /\ got' = <<>>
            /\ from' = http_tell /\ p_buf' = p_buf
            /\ IF buf = <<>> THEN pc' = "check" /\ ret' = 0 ELSE pc' = "read" /\ ret' = ret
            /\ new_off' = new
  PROVE  IInv'
<1>1. /\ access \in {"free", "headers", "refused"} /\ p_buf \in 0..Len(buf) /\ ret \in Int
      /\ new_off \in -1..FileSize /\ off0 \in Nat /\ Len(buf) \in Nat /\ buf \in Seq(Nat)
      /\ off0 + Len(buf) <= FileSize /\ FileSize \in Nat
  BY Types
<1>2. /\ http_tell = off0 + p_buf /\ http_tell \in 0..FileSize /\ http_tell \in Nat
      /\ -1 \in -1..FileSize
  BY <1>1 DEF http_tell
<1>3. failed' \in BOOLEAN
  BY BooleanTypes, Zenon
<1>4. buf # <<>> \/ done_reading \/ failed
  BY Zenon DEF IInv, CallInv
<1>5. buf' # <<>> \/ done_reading' \/ failed'
  BY <1>4, Zenon
<1>6. got' = <<>>
  BY DEF SeekEnds
<1>7. got' \in Seq(Nat) /\ Len(got') = 0 /\ \A k : got' = Bytes(k, 0)
  BY <1>6, GotNothing, Zenon
<1>8. got' = Bytes(from', Len(got'))
  BY <1>7, Zenon
<1>9. CASE /\ ret' = -1 /\ asked' = 0 /\ rest' = 0 /\ from' = http_tell
           /\ p_buf' = p_buf /\ pc' = pc /\ new_off' = new_off
  <2>1. /\ pc' = "idle" /\ pc' \in Controls /\ pc' \notin InStep
        /\ ret' \in Int /\ asked' \in Nat /\ rest' \in Nat /\ ret' < 0
        /\ from' + Len(got') = off0 + p_buf'
    BY <1>2, <1>7, <1>9 DEF Controls, InStep
  <2>2. CallInv' /\ EndOnlyAtEnd'
    BY <1>5, <2>1, CallIdle, EndAsked, Zenon
  <2>3. ~failed' \/ buf # <<>> \/ pc' \in InStep => ~failed \/ buf # <<>> \/ pc \in InStep
    BY <2>1, Zenon
  <2> QED BY <1>1, <1>2, <1>3, <1>7, <1>8, <1>9, <2>1, <2>2, <2>3, FileFrame
<1>10. CASE new >= 0 /\ InBuffer(new) /\ p_buf' = p_buf + (new - http_tell) /\ SeekEnds(new)
  <2>1. /\ pc' = "idle" /\ ret' = new /\ new_off' = -1 /\ from' = new /\ rest' = 0 /\ asked' = 0
        /\ new >= http_tell /\ (new - http_tell) + p_buf < Len(buf)
        /\ p_buf' = p_buf + (new - http_tell)
    BY <1>10 DEF SeekEnds, InBuffer
  <2>2. /\ pc' \in Controls /\ pc' \notin InStep /\ ret' \in Int /\ asked' \in Nat
        /\ rest' \in Nat
    BY <2>1 DEF Controls, InStep
  <2>3. /\ p_buf' \in 0..Len(buf) /\ from' \in 0..FileSize /\ new_off' \in -1..FileSize
        /\ from' + Len(got') = off0 + p_buf'
    BY <1>1, <1>2, <1>7, <2>1
  <2>4. CallInv' /\ EndOnlyAtEnd'
    BY <1>5, <2>1, <2>2, CallIdle, EndAsked, Zenon
  <2>5. ~failed' \/ buf # <<>> \/ pc' \in InStep => ~failed \/ buf # <<>> \/ pc \in InStep
    BY <2>2, Zenon
  <2> QED BY <1>1, <1>3, <1>7, <1>8, <2>2, <2>3, <2>4, <2>5, FileFrame
<1>11. CASE /\ new >= 0 /\ ~MustRestart(new)
            /\ asked' = new - http_tell /\ rest' = asked' /\ from' = http_tell
            /\ p_buf' = p_buf /\ new_off' = new
            /\ IF buf = <<>> THEN pc' = "check" /\ ret' = 0 ELSE pc' = "read" /\ ret' = ret
  <2>1. /\ asked' \in Nat /\ rest' \in Nat /\ new_off' \in -1..FileSize
        /\ from' \in 0..FileSize /\ p_buf' \in 0..Len(buf) /\ ret' \in Int
        /\ from' + Len(got') = off0 + p_buf' /\ asked' = rest' + Len(got')
    BY <1>1, <1>2, <1>7, <1>11 DEF MustRestart
  <2>2. CASE buf = <<>>
    <3>1. pc' = "check" /\ ret' = 0 /\ pc' \in Controls /\ pc' \notin InStep
      BY <1>11, <2>2 DEF Controls, InStep
    <3>2. from' + ret' = new_off' => off0' + p_buf' = new_off'
      BY <1>1, <1>2, <1>11, <3>1
    <3>3. CallInv' /\ EndOnlyAtEnd'
      BY <1>5, <3>1, <3>2, CallCheck, Zenon
    <3>4. ~failed' \/ buf # <<>> \/ pc' \in InStep => ~failed \/ buf # <<>> \/ pc \in InStep
      BY <3>1, Zenon
    <3> QED BY <1>1, <1>3, <1>7, <1>8, <2>1, <3>1, <3>3, <3>4, FileFrame
  <2>3. CASE buf # <<>>
    <3>1. pc' = "read" /\ pc' \in Controls /\ buf' # <<>>
      BY <1>11, <2>3 DEF Controls
    <3>2. CallInv' /\ EndOnlyAtEnd'
      BY <2>1, <3>1, CallRead, Zenon
    <3> QED BY <1>1, <1>3, <1>7, <1>8, <2>1, <2>3, <3>1, <3>2, FileFrame
  <2> QED BY <2>2, <2>3
<1> QED BY <1>9, <1>10, <1>11, Zenon

(* A step that empties the buffer: a seek that begins a new transfer at    *)
(* its target, or one that fails.                                          *)
LEMMA EmptiedInv ==
  ASSUME IInv, NEW o \in 0..FileSize,
         off0' = o, buf' = <<>>, p_buf' = 0, total_length' = total_length,
         failures' \in 0..MaxFailures, access' = access, running' \in BOOLEAN,
         got' = <<>>, rest' = 0, asked' = 0, from' = o, ret' \in Int,
         \/ /\ pc' = "fill" /\ done_reading' = FALSE /\ sent' = o /\ begun' = o
            /\ new_off' = o /\ failed' = failed
         \/ /\ pc' = "idle" /\ done_reading' = done_reading /\ sent' = sent
            /\ begun' = begun /\ new_off' = -1 /\ failed' = TRUE
  PROVE  IInv'
<1>1. /\ access \in {"free", "headers", "refused"} /\ total_length \in -1..FileSize
      /\ FileSize \in Nat /\ MAX_WRITE \in Nat
      /\ begun \in 0..FileSize /\ sent \in 0..FileSize
  BY Types
<1>2. /\ got' \in Seq(Nat) /\ Len(got') = 0 /\ got' = Bytes(from', 0)
      /\ buf' \in Seq(Nat) /\ Len(buf') = 0 /\ buf' = Bytes(off0', 0)
  BY GotNothing, Zenon
<1>3. /\ off0' + p_buf' = from' + Len(got') /\ off0' + Len(buf') <= FileSize
      /\ Len(buf') \in 0 .. 2 * MAX_WRITE /\ p_buf' \in 0..Len(buf')
      /\ rest' \in Nat /\ asked' \in Nat /\ off0' + Len(buf') = o
  BY <1>1, <1>2
<1>4. done_reading' \in BOOLEAN /\ failed' \in BOOLEAN
  BY BooleanTypes, Zenon
<1>5. sent' \in 0..FileSize /\ begun' \in 0..FileSize
  BY <1>1, Zenon
<1>6. new_off' \in -1..FileSize /\ pc' \in Controls
  BY <1>1 DEF Controls
<1>7. TypeOK'
  BY <1>1, <1>3, <1>4, <1>5, <1>6, Zenon DEF TypeOK, Controls
<1>8. ResumesWhereItStopped'
  BY <1>2, <1>3, <1>7, Zenon DEF ResumesWhereItStopped, http_tell
<1>9. BufferInv' /\ CallInv' /\ EndOnlyAtEnd'
  <2>1. CASE /\ pc' = "fill" /\ done_reading' = FALSE /\ sent' = o /\ new_off' = o
    <3>1. CallInv' /\ EndOnlyAtEnd'
      <4>1. pc' \in {"swift", "keystone", "open", "fill"} /\ off0' = new_off'
        BY <2>1
      <4> QED BY <4>1, CallFresh, Zenon
    <3>2. BufferInv'
      BY <1>2, <1>3, <2>1, Zenon DEF BufferInv
    <3> QED BY <3>1, <3>2
  <2>2. CASE pc' = "idle" /\ done_reading' = done_reading /\ sent' = sent /\ failed' = TRUE
    <3>1. CallInv'
      BY <2>2, CallIdle, Zenon
    <3>2. EndOnlyAtEnd'
      BY <1>3, EndAsked
    <3>3. ASSUME done_reading', total_length' = FileSize PROVE sent' = FileSize
      <4>1. done_reading /\ total_length = FileSize
        BY <2>2, <3>3, Zenon
      <4>2. sent = FileSize
        BY <4>1, Zenon DEF IInv, BufferInv
      <4> QED BY <2>2, <4>2, Zenon
    <3>4. pc' \notin {"swift", "keystone", "open", "fill", "read"}
      BY <2>2
    <3>5. BufferInv'
      BY <1>2, <1>3, <2>2, <3>3, <3>4, Zenon DEF BufferInv
    <3> QED BY <3>1, <3>2, <3>5
  <2> QED BY <2>1, <2>2, Zenon
<1> QED BY <1>8, <1>9, Zenon DEF IInv

(* http_seek.                                                              *)
LEMMA http_seekInv ==
  ASSUME IInv, NEW o \in -FileSize..FileSize, NEW whence, http_seek(o, whence)
  PROVE  IInv'
<1>1. PICK new : new = SeekTarget(o, whence)
  OBVIOUS
<1>2. FileSize \in Nat /\ off0 \in Nat /\ p_buf \in Nat /\ ret \in Int
  BY Types
<1>3. new \in Int /\ new <= FileSize /\ pc = "idle"
  BY <1>1, <1>2 DEF SeekTarget, http_tell, http_seek
<1>4. \/ /\ new < 0
         /\ ret' = -1 /\ asked' = 0 /\ got' = <<>> /\ rest' = 0 /\ from' = http_tell
         /\ UNCHANGED <<file, curl, pc, new_off, failed>>
      \/ /\ new >= 0 /\ InBuffer(new) /\ p_buf' = p_buf + (new - http_tell)
         /\ SeekEnds(new)
         /\ UNCHANGED <<off0, buf, total_length, done_reading, curl, failed>>
      \/ /\ new >= 0
         /\ off0' = new /\ buf' = <<>> /\ p_buf' = 0 /\ done_reading' = FALSE
         /\ prepare(new)
         /\ pc' = "fill" /\ new_off' = new
         /\ got' = <<>> /\ rest' = 0 /\ asked' = 0 /\ from' = new
         /\ UNCHANGED <<total_length, access, ret, failed>>
      \/ /\ new >= 0 /\ ~MustRestart(new)
         /\ asked' = new - http_tell /\ rest' = asked' /\ got' = <<>>
         /\ from' = http_tell
         /\ IF buf = <<>> THEN pc' = "check" /\ ret' = 0 ELSE pc' = "read" /\ ret' = ret
         /\ new_off' = new
         /\ UNCHANGED <<file, curl, failed>>
  BY <1>1, Zenon DEF http_seek
<1>5. CASE /\ ret' = -1 /\ asked' = 0 /\ got' = <<>> /\ rest' = 0 /\ from' = http_tell
           /\ UNCHANGED <<file, curl, pc, new_off, failed>>
  <2>1. /\ failed' = failed /\ done_reading' = done_reading /\ running' = running
        /\ access' = access /\ p_buf' = p_buf /\ pc' = pc /\ new_off' = new_off
        /\ UNCHANGED <<off0, buf, total_length, begun, sent, failures>>
    BY <1>5, Zenon DEF file, curl
  <2> QED BY <1>3, <1>5, <2>1, SeekInv, Zenon
<1>6. CASE /\ new >= 0 /\ InBuffer(new) /\ p_buf' = p_buf + (new - http_tell)
           /\ SeekEnds(new)
           /\ UNCHANGED <<off0, buf, total_length, done_reading, curl, failed>>
  <2>1. /\ failed' = failed /\ done_reading' = done_reading /\ running' = running
        /\ access' = access
        /\ UNCHANGED <<off0, buf, total_length, begun, sent, failures>>
    BY <1>6, Zenon DEF curl
  <2> QED BY <1>3, <1>6, <2>1, SeekInv, Zenon
<1>7. CASE /\ new >= 0
           /\ off0' = new /\ buf' = <<>> /\ p_buf' = 0 /\ done_reading' = FALSE
           /\ prepare(new)
           /\ pc' = "fill" /\ new_off' = new
           /\ got' = <<>> /\ rest' = 0 /\ asked' = 0 /\ from' = new
           /\ UNCHANGED <<total_length, access, ret, failed>>
  <2>1. /\ failed' = failed /\ running' \in BOOLEAN /\ access' = access /\ sent' = new
        /\ begun' = new /\ total_length' = total_length /\ ret' = ret
        /\ failures' = failures \/ (failures < MaxFailures /\ failures' = failures + 1)
    BY <1>7, Zenon DEF ResumeFrom, prepare, MayFail
  <2>2. new \in 0..FileSize /\ ret' \in Int
    BY <1>2, <1>3, <1>7, <2>1
  <2>3. failures' \in 0..MaxFailures
    <3>1. failures \in 0..MaxFailures /\ MaxFailures \in Nat
      BY Types, HttpAssumption
    <3> QED BY <2>1, <3>1
  <2> QED BY <1>7, <2>1, <2>2, <2>3, EmptiedInv, Zenon
<1>8. CASE /\ new >= 0 /\ ~MustRestart(new)
           /\ asked' = new - http_tell /\ rest' = asked' /\ got' = <<>>
           /\ from' = http_tell
           /\ IF buf = <<>> THEN pc' = "check" /\ ret' = 0 ELSE pc' = "read" /\ ret' = ret
           /\ new_off' = new
           /\ UNCHANGED <<file, curl, failed>>
  <2>1. /\ failed' = failed /\ done_reading' = done_reading /\ running' = running
        /\ access' = access /\ p_buf' = p_buf
        /\ UNCHANGED <<off0, buf, total_length, begun, sent, failures>>
    BY <1>8, Zenon DEF file, curl
  <2> QED BY <1>3, <1>8, <2>1, SeekInv, Zenon
<1> QED BY <1>4, <1>5, <1>6, <1>7, <1>8, Zenon

(* The first fill of the transfer that http_seek began.                    *)
LEMMA SeekFillInv ==
  ASSUME IInv, SeekFill
  PROVE  IInv'
<1>1. PICK result : fill_buffer(result) /\ ret' = IF result = "DATA" THEN 0 ELSE -1
  BY Zenon DEF SeekFill
<1>2. /\ pc = "fill" /\ pc \in {"open", "fill", "read"} /\ pc' = "check" /\ pc' \in Controls
      /\ rest' = rest /\ asked' = asked /\ got' = got /\ new_off' = new_off /\ from' = from
  BY DEF SeekFill, Controls
<1>3. failed' \in BOOLEAN
  BY BooleanTypes, Zenon DEF SeekFill
<1>4. Filled(result)
  BY <1>1, <1>2, FillInv, Zenon
<1>5. /\ rest \in Nat /\ asked \in Nat /\ ret' \in Int /\ new_off \in -1..FileSize
      /\ from \in 0..FileSize /\ got \in Seq(Nat) /\ off0 \in Nat
  BY <1>1, Types
<1>6. got = Bytes(from, Len(got)) /\ buf = <<>> /\ off0 = new_off
  BY <1>2 DEF IInv, ResumesWhereItStopped, CallInv
<1>7. CallInv' /\ EndOnlyAtEnd'
  <2>1. off0' + p_buf' = new_off'
    BY <1>2, <1>4, <1>5, <1>6 DEF Filled
  <2>2. ret' >= 0 => buf' # <<>>
    <3>1. ret' >= 0 => result = "DATA"
      BY <1>1
    <3> QED BY <1>4, <3>1, Zenon DEF Filled
  <2> QED BY <1>2, <2>1, <2>2, CallCheck, Zenon
<1> QED BY <1>2, <1>3, <1>4, <1>5, <1>6, <1>7, FillFrame, Zenon

(* The end of http_seek.                                                   *)
LEMMA SeekCheckInv ==
  ASSUME IInv, SeekCheck
  PROVE  IInv'
<1>1. /\ pc = "check" /\ access' = access
      /\ UNCHANGED <<total_length, begun, sent, failures>>
  BY DEF SeekCheck, curl
<1>2. done_reading' = done_reading /\ running' = running
  BY Zenon DEF SeekCheck, curl
<1>3. /\ access \in {"free", "headers", "refused"} /\ p_buf \in 0..Len(buf) /\ ret \in Int
      /\ new_off \in -1..FileSize /\ off0 \in 0..FileSize /\ off0 \in Nat /\ Len(buf) \in Nat
      /\ from \in 0..FileSize /\ FileSize \in Nat
  BY Types
<1>4. CASE ret >= 0 /\ from + ret = new_off
  <2>1. /\ pc' = "idle" /\ ret' = new_off /\ new_off' = -1 /\ from' = new_off /\ got' = <<>>
        /\ rest' = 0 /\ asked' = 0 /\ off0' = off0 /\ buf' = buf /\ p_buf' = p_buf
    BY <1>4 DEF SeekCheck, SeekEnds
  <2>2. failed' = failed
    BY <1>4, Zenon DEF SeekCheck
  <2>3. off0 + p_buf = new_off
    BY <1>1, <1>4, Zenon DEF IInv, CallInv, http_tell
  <2>4. buf # <<>> \/ done_reading \/ failed
    BY <1>1, <1>4, Zenon DEF IInv, CallInv
  <2>5. got' \in Seq(Nat) /\ Len(got') = 0 /\ got' = Bytes(from', Len(got'))
    BY <2>1, GotNothing, Zenon
  <2>6. /\ from' \in 0..FileSize /\ new_off' \in -1..FileSize /\ ret' \in Int
        /\ rest' \in Nat /\ asked' \in Nat /\ off0 + p_buf' = from' + Len(got')
        /\ pc' \in Controls /\ pc' \notin InStep
    BY <1>3, <1>4, <2>1, <2>3, <2>5 DEF Controls, InStep
  <2>7. CallInv'
    <3>1. buf' # <<>> \/ done_reading' \/ failed'
      BY <1>2, <2>1, <2>2, <2>4, Zenon
    <3> QED BY <2>1, <3>1, CallIdle, Zenon
  <2>8. EndOnlyAtEnd'
    BY <2>1, <2>6, EndAsked
  <2>9. failed' \in BOOLEAN
    BY <2>2, BooleanTypes, Zenon
  <2>10. ~failed' \/ buf # <<>> \/ pc' \in InStep => ~failed \/ buf # <<>> \/ pc \in InStep
    BY <2>2, <2>6, Zenon
  <2> QED BY <1>1, <1>2, <1>3, <2>1, <2>5, <2>6, <2>7, <2>8, <2>9, <2>10, FileFrame
<1>5. CASE ~(ret >= 0 /\ from + ret = new_off)
  <2>1. /\ pc' = "idle" /\ ret' = -1 /\ new_off' = -1 /\ from' = off0 /\ got' = <<>>
        /\ rest' = 0 /\ asked' = 0 /\ off0' = off0 /\ buf' = <<>> /\ p_buf' = 0
    BY <1>5 DEF SeekCheck
  <2>2. failed' = TRUE
    BY <1>5, Zenon DEF SeekCheck
  <2>3. ret' \in Int
    BY <2>1
  <2>4. running' \in BOOLEAN
    BY <1>2, BooleanTypes, Zenon
  <2>5. PICK o \in 0..FileSize : o = off0
    BY <1>3
  <2>6. sent' = sent /\ begun' = begun /\ total_length' = total_length
        /\ failures' \in 0..MaxFailures
    BY <1>1, Types
  <2> QED BY <1>1, <1>2, <2>1, <2>2, <2>3, <2>4, <2>5, <2>6, EmptiedInv, Zenon
<1> QED BY <1>4, <1>5
-----------------------------------------------------------------------------
(* A step outside the calls: only the control state, and what the server   *)
(* makes of the requests, may change.                                      *)
LEMMA OutsideInv ==
  ASSUME IInv, UNCHANGED <<file, begun, sent, running, failures, call>>,
         access' \in {"free", "headers", "refused"},
         \/ pc \in {"swift", "keystone"} /\ pc' \in {"keystone", "open"}
         \/ pc' = "closed"
         \/ pc' = pc
  PROVE  IInv'
<1>1. /\ off0' = off0 /\ buf' = buf /\ p_buf' = p_buf /\ total_length' = total_length
      /\ begun' = begun /\ sent' = sent /\ failures' = failures
      /\ rest' = rest /\ asked' = asked /\ got' = got /\ ret' = ret /\ new_off' = new_off
      /\ from' = from
  BY DEF file, call
<1>2. done_reading' = done_reading /\ running' = running /\ failed' = failed
  BY Zenon DEF file, call
<1>3. /\ p_buf \in 0..Len(buf) /\ rest \in Nat /\ asked \in Nat /\ ret \in Int
      /\ new_off \in -1..FileSize /\ from \in 0..FileSize /\ got \in Seq(Nat)
  BY Types
<1>4. /\ pc \in Controls /\ got = Bytes(from, Len(got))
      /\ pc \notin {"check", "closed"} => off0 + p_buf = from + Len(got)
  BY Zenon DEF IInv, ResumesWhereItStopped, TypeOK, Controls, http_tell
<1>5. failed' \in BOOLEAN
  BY <1>2, BooleanTypes, Zenon
<1>6. CASE pc \in {"swift", "keystone"} /\ pc' \in {"keystone", "open"}
  <2>1. /\ pc' \in Controls /\ pc \in InStep /\ pc \notin {"check", "closed"}
        /\ pc' \in {"swift", "keystone", "open", "fill"} /\ pc' # "fill"
        /\ pc \in {"swift", "keystone", "open", "fill"}
    BY <1>6 DEF Controls, InStep
  <2>2. buf = <<>> /\ got = <<>> /\ asked = 0
    BY <2>1, Zenon DEF IInv, CallInv
  <2>3. CallInv' /\ EndOnlyAtEnd'
    BY <1>1, <2>1, <2>2, CallFresh, Zenon
  <2> QED BY <1>1, <1>2, <1>3, <1>4, <1>5, <2>1, <2>3, FileFrame, Zenon
<1>7. CASE pc' = "closed"
  <2>1. /\ pc' \in Controls /\ pc' \notin InStep /\ pc' \in {"close", "closed"}
    BY <1>7 DEF Controls, InStep
  <2>2. CallInv' /\ EndOnlyAtEnd'
    BY <2>1, CallOver, Zenon
  <2>3. ~failed' \/ buf # <<>> \/ pc' \in InStep => ~failed \/ buf # <<>> \/ pc \in InStep
    BY <1>2, <2>1, Zenon
  <2> QED BY <1>1, <1>2, <1>3, <1>4, <1>5, <2>1, <2>2, <2>3, FileFrame, Zenon
<1>8. CASE pc' = pc
  <2>1. CallInv' /\ EndOnlyAtEnd'
    <3>1. http_tell' = http_tell
      BY <1>1 DEF http_tell
    <3> QED BY <1>1, <1>2, <1>8, <3>1, Zenon DEF IInv, CallInv, EndOnlyAtEnd
  <2>2. ~failed' \/ buf # <<>> \/ pc' \in InStep => ~failed \/ buf # <<>> \/ pc \in InStep
    BY <1>2, <1>8, Zenon
  <2> QED BY <1>1, <1>2, <1>3, <1>4, <1>5, <1>8, <2>1, <2>2, FileFrame, Zenon
<1> QED BY <1>6, <1>7, <1>8, Zenon

(* ... a step that changes nothing at all.                                 *)
LEMMA StutterInv ==
  ASSUME IInv, UNCHANGED vars
  PROVE  IInv'
<1>1. UNCHANGED <<file, begun, sent, running, failures, call>> /\ access' = access /\ pc' = pc
  BY Zenon DEF vars, curl
<1>2. access' \in {"free", "headers", "refused"}
  BY <1>1, Types
<1> QED BY <1>1, <1>2, OutsideInv, Zenon

(* http_close.                                                             *)
LEMMA http_closeInv ==
  ASSUME IInv, http_close
  PROVE  IInv'
<1>1. UNCHANGED <<file, begun, sent, running, failures, call>> /\ access' = access
      /\ pc' = "closed"
  BY Zenon DEF http_close, curl
<1>2. access' \in {"free", "headers", "refused"}
  BY <1>1, Types
<1> QED BY <1>1, <1>2, OutsideInv, Zenon

(* The steps inside a read or a seek.                                      *)
LEMMA ReaderInv ==
  ASSUME IInv, Reader
  PROVE  IInv'
BY ReadBufferedInv, ReadFillInv, ReadReturnInv, SeekFillInv, SeekCheckInv, Zenon DEF Reader

(* Every step of a plain HTTP reader.                                      *)
LEMMA HttpInv ==
  ASSUME IInv, Next
  PROVE  IInv'
<1>1. CASE \E n \in 0..MaxLen : http_read(n)
  <2>1. PICK n \in 0..MaxLen : http_read(n)
    BY <1>1
  <2>2. n \in Nat
    BY HttpAssumption
  <2> QED BY <2>1, <2>2, http_readInv, Zenon
<1>2. CASE \E o \in -FileSize..FileSize, whence \in {"SEEK_SET", "SEEK_CUR"} :
             http_seek(o, whence)
  BY <1>2, http_seekInv, Zenon
<1>3. CASE Closed
  BY <1>3, StutterInv, Zenon DEF Closed
<1> QED BY <1>1, <1>2, <1>3, OpenInv, ReaderInv, http_closeInv, Zenon DEF Next

(* Finding a token and the URL, or failing to.                             *)
LEMMA TokenInv ==
  ASSUME IInv, swift_open_fails \/ get_token \/ keystone_authenticate
  PROVE  IInv'
<1>1. access \in {"free", "headers", "refused"}
  BY Types
<1>2. \A t : process_hdrs(t) \subseteq {"free", "headers", "refused"}
  BY DEF process_hdrs
<1>3. CASE swift_open_fails
  <2>1. UNCHANGED <<file, begun, sent, running, failures, call>> /\ access' = access
        /\ pc' = "closed"
    BY <1>3, Zenon DEF swift_open_fails, curl
  <2> QED BY <1>1, <2>1, OutsideInv, Zenon
<1>4. CASE get_token
  <2>1. UNCHANGED <<file, begun, sent, running, failures, call>> /\ pc = "swift"
    BY <1>4, Zenon DEF get_token
  <2>2. \/ \E t : OpenChild(t)
        \/ pc' \in {"keystone", "closed"} /\ access' = access
    BY <1>4, Zenon DEF get_token
  <2>3. pc' \in {"keystone", "open", "closed"} /\ access' \in {"free", "headers", "refused"}
    BY <1>1, <1>2, <2>2 DEF OpenChild
  <2>4. pc \in {"swift", "keystone"} /\ (pc' \in {"keystone", "open"} \/ pc' = "closed")
    BY <2>1, <2>3
  <2> QED BY <2>1, <2>3, <2>4, OutsideInv, Zenon
<1>5. CASE keystone_authenticate
  <2>1. UNCHANGED <<file, begun, sent, running, failures, call>> /\ pc = "keystone"
    BY <1>5, Zenon DEF keystone_authenticate
  <2>2. \/ \E t : OpenChild(t)
        \/ pc' = "closed" /\ access' = access
    BY <1>5, Zenon DEF keystone_authenticate
  <2>3. pc' \in {"open", "closed"} /\ access' \in {"free", "headers", "refused"}
    BY <1>1, <1>2, <2>2 DEF OpenChild
  <2>4. pc \in {"swift", "keystone"} /\ (pc' \in {"keystone", "open"} \/ pc' = "closed")
    BY <2>1, <2>3
  <2> QED BY <2>1, <2>3, <2>4, OutsideInv, Zenon
<1> QED BY <1>3, <1>4, <1>5

(* Every step of a handle, a Swift one or a plain one.                     *)
LEMMA NextInv ==
  ASSUME IInv, [SwiftNext]_allVars
  PROVE  IInv'
<1>1. CASE swift_open
  BY <1>1, TokenInv, OpenInv, Zenon DEF swift_open
<1>2. CASE \E n \in 0..MaxLen : swift_read(n)
  <2>1. PICK n \in 0..MaxLen : http_read(n)
    BY <1>2, Zenon DEF swift_read
  <2>2. n \in Nat
    BY HttpAssumption
  <2> QED BY <2>1, <2>2, http_readInv, Zenon
<1>3. CASE \E o \in -FileSize..FileSize, whence \in {"SEEK_SET", "SEEK_CUR"} :
             swift_seek(o, whence)
  BY <1>3, http_seekInv, Zenon DEF swift_seek
<1>4. CASE swift_close
  BY <1>4, http_closeInv, Zenon DEF swift_close
<1>5. CASE Inside
  BY <1>5, ReaderInv, Zenon DEF Inside
<1>6. CASE PlainHttp
  BY <1>6, HttpInv, Zenon DEF PlainHttp
<1>7. CASE UNCHANGED vars
  BY <1>7, StutterInv, Zenon
<1> QED BY <1>1, <1>2, <1>3, <1>4, <1>5, <1>6, <1>7, Zenon DEF SwiftNext, Closed, allVars

(* A handle before its first fill.                                         *)
LEMMA HandleInitInv ==
  ASSUME HandleInit, pc \in {"swift", "open"}, access \in {"free", "headers", "refused"}
  PROVE  IInv
<1>1. /\ off0 = 0 /\ buf = <<>> /\ p_buf = 0 /\ total_length = -1 /\ begun = 0 /\ sent = 0
      /\ failures \in {0, 1} /\ failures <= MaxFailures
      /\ rest = 0 /\ asked = 0 /\ got = <<>> /\ ret = 0 /\ new_off = -1 /\ from = 0
  BY DEF HandleInit
<1>2. done_reading = FALSE /\ running \in BOOLEAN /\ failed = FALSE
  BY Zenon DEF HandleInit
<1>3. FileSize \in Nat \ {0} /\ MAX_WRITE \in Nat \ {0} /\ MaxFailures \in Nat
  BY HttpAssumption
<1>4. /\ <<>> \in Seq(Nat) /\ Len(buf) = 0 /\ Len(got) = 0 /\ buf = Bytes(off0, Len(buf))
      /\ got = Bytes(from, Len(got))
  BY <1>1, GotNothing, Zenon
<1>5. off0 + Len(buf) = 0 /\ off0 + p_buf = from + Len(got) /\ off0 + Len(buf) <= FileSize
  BY <1>1, <1>3, <1>4
<1>6. done_reading \in BOOLEAN /\ running \in BOOLEAN /\ failed \in BOOLEAN
  BY <1>2, Zenon
<1>7. /\ off0 \in 0..FileSize /\ Len(buf) \in 0 .. 2 * MAX_WRITE /\ p_buf \in 0..Len(buf)
      /\ total_length \in -1..FileSize /\ begun \in 0..FileSize /\ sent \in 0..FileSize
      /\ failures \in 0..MaxFailures /\ rest \in Nat /\ asked \in Nat /\ ret \in Int
      /\ new_off \in -1..FileSize /\ from \in 0..FileSize /\ pc \in Controls
  BY <1>1, <1>3, <1>4 DEF Controls
<1>8. TypeOK
  BY <1>6, <1>7, Zenon DEF TypeOK, Controls
<1>9. ResumesWhereItStopped
  BY <1>4, <1>5, <1>8, Zenon DEF ResumesWhereItStopped, http_tell
<1>10. BufferInv
  BY <1>1, <1>2, <1>4, <1>5, Zenon DEF BufferInv
<1>11. pc \notin {"fill", "read", "check", "idle"}
  OBVIOUS
<1>12. CallInv /\ EndOnlyAtEnd
  BY <1>1, <1>11, Zenon DEF CallInv, EndOnlyAtEnd
<1> QED BY <1>9, <1>10, <1>12 DEF IInv

(* The inductive invariant holds at first.                                 *)
LEMMA InitInv ==
  ASSUME SwiftInit
  PROVE  IInv
<1>1. HandleInit /\ pc \in {"swift", "open"} /\ access \in {"free", "headers", "refused"}
  BY DEF SwiftInit, Init
<1> QED BY <1>1, HandleInitInv

(* The inductive invariant holds in every reachable state of a Swift or a  *)
(* plain HTTP handle.                                                      *)
THEOREM Invariance == SwiftSpec => []IInv
<1>1. IInv /\ [SwiftNext]_allVars => IInv'
  BY NextInv
<1> QED BY <1>1, InitInv, PTL DEF SwiftSpec

(* http_read and fill_buffer (lib/ior-http.c:144, :347): across any number *)
(* of broken, interrupted and restarted transfers and of seeks a read      *)
(* delivers the bytes that follow those of the read before it.             *)
THEOREM Resumption == SwiftSpec => []ResumesWhereItStopped
<1>1. IInv => ResumesWhereItStopped
  BY DEF IInv
<1> QED BY <1>1, Invariance, PTL

(* http_read (lib/ior-http.c:347): a short read means the end of the file  *)
(* if its length is known and no call has failed.                          *)
THEOREM EndIsTheEnd == SwiftSpec => []EndOnlyAtEnd
<1>1. IInv => EndOnlyAtEnd
  BY DEF IInv
<1> QED BY <1>1, Invariance, PTL
-----------------------------------------------------------------------------
(* The token and where it is sent.  The loops over endpoints and services  *)
(* are recursive functions, and facts about them take an induction, which  *)
(* is made here from the least number for which a claim fails.             *)

(* A set of naturals that is not empty has a least element.                *)
LEMMA LeastElement ==
  ASSUME NEW S \in SUBSET Nat, S # {}
  PROVE  \E m \in S : \A k \in S : m <= k
<1> DEFINE Less == {p \in Nat \X Nat : p[1] < p[2]}
<1>1. IsWellFoundedOn(Less, Nat)
  BY NatLessThanWellFounded DEF OpToRel
<1> HIDE DEF Less
<1>2. PICK m \in S : \A k \in S : ~(<<k, m>> \in Less)
  BY <1>1, WFMin, Zenon
<1> USE DEF Less
<1>3. ASSUME NEW k \in S PROVE m <= k
  <2>1. k \in Nat /\ m \in Nat /\ ~(<<k, m>> \in Less)
    BY <1>2, Zenon
  <2>2. <<k, m>>[1] = k /\ <<k, m>>[2] = m /\ <<k, m>> \in Nat \X Nat
    BY <2>1
  <2>3. ~(k < m)
    BY <2>1, <2>2
  <2> QED BY <2>1, <2>3
<1> QED BY <1>3

(* Induction, as far as a set goes: what holds of 0 and is passed on from  *)
(* each number to the next holds up to n.                                  *)
LEMMA UpTo ==
  ASSUME NEW n \in Nat, NEW S, 0 \in S, \A k \in 0 .. n - 1 : k \in S => k + 1 \in S
  PROVE  0..n \subseteq S
<1>1. SUFFICES ASSUME NEW x \in 0..n, x \notin S PROVE FALSE
  OBVIOUS
<1> DEFINE Out == {k \in 0..n : k \notin S}
<1>2. PICK m \in Out : \A k \in Out : m <= k
  <2>1. Out \in SUBSET Nat /\ Out # {}
    BY <1>1
  <2> HIDE DEF Out
  <2> QED BY <2>1, LeastElement
<1>3. m # 0 /\ m - 1 \in 0 .. n - 1 /\ m - 1 \notin Out
  BY <1>2
<1>4. m - 1 \in S /\ (m - 1) + 1 = m
  BY <1>2, <1>3
<1>5. m \in S
  BY <1>3, <1>4
<1> QED BY <1>5

(* The loop over the endpoints of a service is defined, for any number.    *)
LEMMA EndpointLoop ==
  ASSUME NEW e, IsSequence(e)
  PROVE  \E f : /\ f = [i \in 0..Len(e) |->
                          IF i = 0 THEN NULL ELSE process_endpoint_entry(f[i - 1], e[i])]
                /\ PublicUrl(e) = f[Len(e)]
<1> DEFINE Loop(f, n) ==
      f = [i \in 0..n |-> IF i = 0 THEN NULL ELSE process_endpoint_entry(f[i - 1], e[i])]
<1> DEFINE S == {n \in Nat : \E f : Loop(f, n)}
<1>0. Len(e) \in Nat
  BY DEF IsSequence
<1>1. 0 \in S
  <2>1. Loop([i \in 0..0 |-> NULL], 0)
    OBVIOUS
  <2> QED BY <2>1
<1>2. ASSUME NEW k \in Nat, k \in S PROVE k + 1 \in S
  <2>1. PICK f : Loop(f, k)
    BY <1>2
  <2> DEFINE g == [i \in 0 .. k + 1 |->
                     IF i <= k THEN f[i] ELSE process_endpoint_entry(f[k], e[k + 1])]
  <2> HIDE DEF Loop
  <2>2. ASSUME NEW i \in 0 .. k + 1
        PROVE  g[i] = IF i = 0 THEN NULL ELSE process_endpoint_entry(g[i - 1], e[i])
    <3>1. CASE i = 0
      BY <2>1, <3>1 DEF Loop
    <3>2. CASE i \in 1..k
      BY <2>1, <3>2 DEF Loop
    <3>3. CASE i = k + 1
      BY <3>3
    <3> QED BY <3>1, <3>2, <3>3
  <2>3. Loop(g, k + 1)
    BY <2>2 DEF Loop
  <2> QED BY <2>3
<1>3. Len(e) \in S
  BY <1>0, <1>1, <1>2, UpTo
<1>4. \E f : Loop(f, Len(e))
  BY <1>3
<1>5. Loop(CHOOSE f : Loop(f, Len(e)), Len(e))
  BY <1>4
<1>6. PublicUrl(e) = (CHOOSE f : Loop(f, Len(e)))[Len(e)]
  BY DEF PublicUrl
<1> QED BY <1>5, <1>6

(* urlbuf ends up empty or with the url of a public endpoint.              *)
LEMMA PublicUrlFacts ==
  ASSUME NEW e, IsSequence(e), PublicUrl(e) # NULL
  PROVE  \E j \in DOMAIN e : e[j].interface = "public" /\ e[j].url = PublicUrl(e)
<1> DEFINE Listed(u) == \E j \in DOMAIN e : e[j].interface = "public" /\ e[j].url = u
<1>1. PICK f : /\ f = [i \in 0..Len(e) |->
                         IF i = 0 THEN NULL ELSE process_endpoint_entry(f[i - 1], e[i])]
               /\ PublicUrl(e) = f[Len(e)]
  BY EndpointLoop
<1> DEFINE S == {i \in Nat : f[i] = NULL \/ Listed(f[i])}
<1>2. Len(e) \in Nat /\ DOMAIN e = 1..Len(e)
  BY DEF IsSequence
<1>3. 0 \in S
  BY <1>1, <1>2
<1>4. ASSUME NEW k \in 0 .. Len(e) - 1, k \in S PROVE k + 1 \in S
  <2>1. k + 1 \in 1..Len(e) /\ (k + 1) - 1 = k /\ k + 1 \in Nat
    BY <1>2
  <2>2. f[k + 1] = process_endpoint_entry(f[k], e[k + 1])
    <3>1. k + 1 \in 0..Len(e) /\ k + 1 # 0
      BY <2>1, <1>2
    <3> QED BY <1>1, <2>1, <3>1
  <2>3. f[k + 1] = f[k] \/ Listed(f[k + 1])
    BY <1>2, <2>1, <2>2 DEF process_endpoint_entry
  <2> QED BY <1>4, <2>1, <2>3
<1>5. Len(e) \in S
  <2> HIDE DEF S
  <2>1. 0..Len(e) \subseteq S
    BY <1>2, <1>3, <1>4, UpTo
  <2> QED BY <1>2, <2>1
<1> QED BY <1>1, <1>5

(* So is the loop over the services of a catalog.                          *)
LEMMA CatalogLoop ==
  ASSUME NEW url, NEW c, IsSequence(c)
  PROVE  \E f : /\ f = [i \in 0..Len(c) |->
                          IF i = 0 THEN [ok |-> TRUE, url |-> url]
                          ELSE process_catalog_entry(f[i - 1], c[i])]
                /\ process_json(url, c) = f[Len(c)]
<1> DEFINE Loop(f, n) ==
      f = [i \in 0..n |-> IF i = 0 THEN [ok |-> TRUE, url |-> url]
                          ELSE process_catalog_entry(f[i - 1], c[i])]
<1> DEFINE S == {n \in Nat : \E f : Loop(f, n)}
<1>0. Len(c) \in Nat
  BY DEF IsSequence
<1>1. 0 \in S
  <2>1. Loop([i \in 0..0 |-> [ok |-> TRUE, url |-> url]], 0)
    OBVIOUS
  <2> QED BY <2>1
<1>2. ASSUME NEW k \in Nat, k \in S PROVE k + 1 \in S
  <2>1. PICK f : Loop(f, k)
    BY <1>2
  <2> DEFINE g == [i \in 0 .. k + 1 |->
                     IF i <= k THEN f[i] ELSE process_catalog_entry(f[k], c[k + 1])]
  <2> HIDE DEF Loop
  <2>2. ASSUME NEW i \in 0 .. k + 1
        PROVE  g[i] = IF i = 0 THEN [ok |-> TRUE, url |-> url]
                      ELSE process_catalog_entry(g[i - 1], c[i])
    <3>1. CASE i = 0
      BY <2>1, <3>1 DEF Loop
    <3>2. CASE i \in 1..k
      <4>1. i \in 0..k /\ i # 0 /\ i - 1 \in 0..k /\ i \in 0 .. k + 1 /\ i - 1 \in 0 .. k + 1
            /\ i <= k /\ i - 1 <= k
        BY <3>2
      <4>2. f[i] = process_catalog_entry(f[i - 1], c[i])
        BY <2>1, <4>1, Zenon DEF Loop
      <4>3. g[i] = f[i] /\ g[i - 1] = f[i - 1]
        BY <4>1
      <4> QED BY <4>1, <4>2, <4>3, Zenon
    <3>3. CASE i = k + 1
      <4>1. i # 0 /\ i - 1 = k /\ ~(i <= k) /\ k <= k /\ k \in 0 .. k + 1
        BY <3>3
      <4>2. g[i] = process_catalog_entry(f[k], c[k + 1]) /\ g[k] = f[k]
        BY <4>1
      <4> QED BY <3>3, <4>1, <4>2, Zenon
    <3> QED BY <3>1, <3>2, <3>3
  <2>3. Loop(g, k + 1)
    BY <2>2 DEF Loop
  <2> QED BY <2>3
<1>3. Len(c) \in S
  BY <1>0, <1>1, <1>2, UpTo
<1>4. \E f : Loop(f, Len(c))
  BY <1>3
<1>5. Loop(CHOOSE f : Loop(f, Len(c)), Len(c))
  BY <1>4
<1>6. process_json(url, c) = (CHOOSE f : Loop(f, Len(c)))[Len(c)]
  BY DEF process_json
<1> QED BY <1>5, <1>6

(* One service leaves storage_url alone, or sets it to the url of a public *)
(* endpoint if it is an object store and storage_url was not set.          *)
LEMMA CatalogEntryFacts ==
  ASSUME NEW b, NEW u, NEW s, IsSequence(s.endpoints),
         NEW r, r = process_catalog_entry([ok |-> b, url |-> u], s)
  PROVE  /\ r = [ok |-> r.ok, url |-> r.url]
         /\ \/ r.url = u
            \/ /\ u = NULL /\ s.type = "object-store"
               /\ \E j \in DOMAIN s.endpoints :
                    s.endpoints[j].interface = "public" /\ s.endpoints[j].url = r.url
<1> DEFINE q == [ok |-> b, url |-> u]
           p == PublicUrl(s.endpoints)
<1>1. CASE r = q
  BY <1>1
<1>2. CASE r = [ok |-> FALSE, url |-> q.url]
  BY <1>2
<1>3. CASE r = [ok |-> TRUE, url |-> p] /\ q.url = NULL /\ s.type = "object-store" /\ p # NULL
  BY <1>3, PublicUrlFacts
<1>4. \/ r = q \/ r = [ok |-> FALSE, url |-> q.url]
      \/ r = [ok |-> TRUE, url |-> p] /\ q.url = NULL /\ s.type = "object-store" /\ p # NULL
  BY Zenon DEF process_catalog_entry
<1> QED BY <1>1, <1>2, <1>3, <1>4

(* What the catalog makes of storage_url.                                  *)
LEMMA CatalogFacts ==
  ASSUME NEW url, NEW c, IsSequence(c), \A i \in DOMAIN c : IsSequence(c[i].endpoints)
  PROVE  \/ process_json(url, c).url = url
         \/ url = NULL /\ IsStoreUrl(process_json(url, c).url, c)
<1>1. PICK f : /\ f = [i \in 0..Len(c) |->
                         IF i = 0 THEN [ok |-> TRUE, url |-> url]
                         ELSE process_catalog_entry(f[i - 1], c[i])]
               /\ process_json(url, c) = f[Len(c)]
  BY CatalogLoop
<1> DEFINE Good(r) == /\ r = [ok |-> r.ok, url |-> r.url]
                      /\ r.url = url \/ (url = NULL /\ IsStoreUrl(r.url, c))
           S == {i \in Nat : Good(f[i])}
<1>2. Len(c) \in Nat /\ DOMAIN c = 1..Len(c)
  BY DEF IsSequence
<1>3. 0 \in S
  <2>1. f[0] = [ok |-> TRUE, url |-> url]
    BY <1>1, <1>2
  <2>2. Good(f[0])
    BY <2>1
  <2> QED BY <2>2
<1>4. ASSUME NEW k \in 0 .. Len(c) - 1, k \in S PROVE k + 1 \in S
  <2>1. k + 1 \in 0..Len(c) /\ k + 1 # 0 /\ (k + 1) - 1 = k /\ k + 1 \in Nat
        /\ k + 1 \in DOMAIN c
    BY <1>2
  <2>2. f[k + 1] = process_catalog_entry(f[k], c[k + 1])
    BY <1>1, <2>1
  <2>3. Good(f[k])
    BY <1>4
  <2> DEFINE r == process_catalog_entry([ok |-> f[k].ok, url |-> f[k].url], c[k + 1])
  <2>4. /\ r = [ok |-> r.ok, url |-> r.url]
        /\ \/ r.url = f[k].url
           \/ /\ f[k].url = NULL /\ c[k + 1].type = "object-store"
              /\ \E j \in DOMAIN c[k + 1].endpoints :
                   /\ c[k + 1].endpoints[j].interface = "public"
                   /\ c[k + 1].endpoints[j].url = r.url
    <3>1. IsSequence(c[k + 1].endpoints)
      BY <2>1
    <3>2. r = process_catalog_entry([ok |-> f[k].ok, url |-> f[k].url], c[k + 1])
      OBVIOUS
    <3> DEFINE b == f[k].ok
               u == f[k].url
               s == c[k + 1]
    <3> HIDE DEF r, b, u, s
    <3>3. IsSequence(s.endpoints) /\ r = process_catalog_entry([ok |-> b, url |-> u], s)
      BY <3>1, <3>2, Zenon DEF b, u, s
    <3>4. /\ r = [ok |-> r.ok, url |-> r.url]
          /\ \/ r.url = u
             \/ /\ u = NULL /\ s.type = "object-store"
                /\ \E j \in DOMAIN s.endpoints :
                     s.endpoints[j].interface = "public" /\ s.endpoints[j].url = r.url
      BY <3>3, CatalogEntryFacts
    <3> QED BY <3>4 DEF u, s
  <2>5. f[k + 1] = r
    BY <2>2, <2>3, Zenon
  <2> HIDE DEF r
  <2>6. r.url = f[k].url \/ (f[k].url = NULL /\ IsStoreUrl(r.url, c))
    BY <2>1, <2>4, Zenon DEF IsStoreUrl
  <2>7. r.url = url \/ (url = NULL /\ IsStoreUrl(r.url, c))
    BY <2>3, <2>6, Zenon
  <2>8. Good(f[k + 1])
    BY <2>4, <2>5, <2>7, Zenon
  <2> QED BY <2>1, <2>8, Zenon
<1>5. Len(c) \in S
  <2> HIDE DEF S
  <2>1. 0..Len(c) \subseteq S
    BY <1>2, <1>3, <1>4, UpTo
  <2> QED BY <1>2, <2>1
<1> QED BY <1>1, <1>5, Zenon

(* The answer of a server is a catalog or nothing.                         *)
LEMMA ResponseFacts ==
  ASSUME NEW r \in Responses
  PROVE  IsSequence(r.catalog) /\ \A i \in DOMAIN r.catalog : IsSequence(r.catalog[i].endpoints)
<1>1. CASE r.catalog = <<>>
  <2>1. IsSequence(<<>>) /\ DOMAIN <<>> = {}
    BY DEF IsSequence
  <2> QED BY <1>1, <2>1
<1>2. CASE r.catalog \in Catalogs
  BY <1>2, KeystoneAssumption, Zenon
<1>3. r.catalog = <<>> \/ r.catalog \in Catalogs
  BY DEF Responses
<1> QED BY <1>1, <1>2, <1>3

(* keystone_authenticate: where the URL that goes with the token is from.  *)
LEMMA AuthenticatedFacts ==
  ASSUME NEW r \in Responses, NEW env, AuthenticateSucceeds(env, r),
         NEW t, t = Authenticated(env, r)
  PROVE  /\ t.token # NULL /\ t.storage_url # NULL
         /\ env.OS_AUTH_TOKEN # "set" => t.token = r.token
         /\ IF env.OS_STORAGE_URL = "set" THEN t.storage_url = EnvUrl
            ELSE IsStoreUrl(t.storage_url, r.catalog)
<1> DEFINE url == GetEnv(env.OS_STORAGE_URL, EnvUrl, NULL)
<1>1. t.token # NULL /\ t.storage_url # NULL
  BY Zenon DEF AuthenticateSucceeds
<1>2. /\ ParsedToken(env, auth_header_cb(r)).storage_url = url
      /\ ParsedToken(env, NoToken).storage_url = url
  BY DEF ParsedToken, auth_header_cb, NoToken
<1>3. /\ t.storage_url = process_auth_response(url, r).url
      /\ t.token = GetEnv(env.OS_AUTH_TOKEN, "env", r.token)
  <2> DEFINE p == ParsedToken(env, auth_header_cb(r))
             u == process_auth_response(p.storage_url, r).url
  <2>1. t = [p EXCEPT !.storage_url = u]
    BY Zenon DEF Authenticated
  <2>2. DOMAIN p = {"token", "storage_url"}
    BY DEF ParsedToken
  <2>3. p.storage_url = url /\ p.token = GetEnv(env.OS_AUTH_TOKEN, "env", r.token)
    BY <1>2 DEF ParsedToken, auth_header_cb, NoToken
  <2> HIDE DEF p, u
  <2>4. t.storage_url = u /\ t.token = p.token
    BY <2>1, <2>2
  <2> QED BY <2>3, <2>4, Zenon DEF u
<1>4. process_auth_response(url, r) = process_json(url, r.catalog)
  <2>1. process_auth_response(url, r).ok
    BY <1>2, Zenon DEF AuthenticateSucceeds
  <2>2. r.status # "malformed"
    <3>1. CASE r.status = "malformed"
      <4>1. process_auth_response(url, r) = [ok |-> FALSE, url |-> url]
        BY <3>1, Zenon DEF process_auth_response
      <4>2. process_auth_response(url, r).ok = FALSE
        BY <4>1
      <4> QED BY <2>1, <4>2, Zenon
    <3> QED BY <3>1
  <2> QED BY <2>2, Zenon DEF process_auth_response
<1>5. t.storage_url = url \/ (url = NULL /\ IsStoreUrl(t.storage_url, r.catalog))
  <2>1. \/ process_json(url, r.catalog).url = url
        \/ url = NULL /\ IsStoreUrl(process_json(url, r.catalog).url, r.catalog)
    <3> HIDE DEF url
    <3> QED BY ResponseFacts, CatalogFacts, Zenon
  <2> QED BY <1>3, <1>4, <2>1, Zenon
<1>6. CASE env.OS_STORAGE_URL = "set"
  <2>1. url = EnvUrl
    BY <1>6, Zenon DEF GetEnv
  <2> QED BY <1>1, <1>3, <1>5, <1>6, <2>1, KeystoneAssumption, Zenon DEF GetEnv
<1>7. CASE env.OS_STORAGE_URL # "set"
  <2>1. url = NULL
    BY <1>7, Zenon DEF GetEnv
  <2> QED BY <1>1, <1>3, <1>5, <1>7, <2>1, Zenon DEF GetEnv
<1> QED BY <1>6, <1>7, Zenon

(* keystone_env_parse_token: both from the environment.                    *)
LEMMA ParsedFacts ==
  ASSUME NEW env, keystone_env_parse_token(env), NEW t, t = ParsedToken(env, NoToken)
  PROVE  t.token # NULL /\ t.storage_url = EnvUrl /\ t.storage_url # NULL
         /\ env.OS_STORAGE_URL = "set" /\ env.OS_AUTH_TOKEN = "set"
<1>1. t = [token |-> "env", storage_url |-> EnvUrl]
      /\ env.OS_STORAGE_URL = "set" /\ env.OS_AUTH_TOKEN = "set"
  BY Zenon DEF ParsedToken, GetEnv, keystone_env_parse_token
<1>2. t.token = "env" /\ t.storage_url = EnvUrl
  BY <1>1
<1> QED BY <1>1, <1>2, KeystoneAssumption

(* No step of an open HTTP reader leads back to the opening.               *)
LEMMA NeverOpensAgain ==
  ASSUME \/ http_open \/ http_open_fails \/ Reader \/ http_close
         \/ \E n \in 0..MaxLen : http_read(n)
         \/ \E o \in -FileSize..FileSize, whence \in {"SEEK_SET", "SEEK_CUR"} :
              http_seek(o, whence)
  PROVE  pc' # "open"
<1>1. CASE http_open \/ http_open_fails \/ http_close
  BY <1>1 DEF http_open, http_open_fails, http_close
<1>2. CASE Reader
  <2>1. CASE ReadBuffered \/ ReadFill
    BY <2>1 DEF ReadBuffered, ReadFill
  <2>2. CASE ReadFinished \/ ReadFails \/ ReadReturn
    <3>1. \E n : Returns(n)
      BY <2>2, Zenon DEF ReadFinished, ReadFails, ReadReturn
    <3>2. pc' = "idle" \/ pc' = "check"
      BY <3>1, Zenon DEF Returns
    <3> QED BY <3>2
  <2>3. CASE SeekFill \/ SeekCheck
    <3>1. pc' = "idle" \/ pc' = "check"
      BY <2>3, Zenon DEF SeekFill, SeekCheck, SeekEnds
    <3> QED BY <3>1
  <2> QED BY <1>2, <2>1, <2>2, <2>3, Zenon DEF Reader
<1>3. CASE \E n \in 0..MaxLen : http_read(n)
  <2>1. pc' = "idle" \/ pc' = "read"
    BY <1>3, Zenon DEF http_read
  <2> QED BY <2>1
<1>4. CASE \E o \in -FileSize..FileSize, whence \in {"SEEK_SET", "SEEK_CUR"} :
             http_seek(o, whence)
  <2>1. PICK o, whence : http_seek(o, whence)
    BY <1>4, Zenon
  <2>2. pc = "idle" /\ pc' \in {pc, "idle", "fill", "check", "read"}
    BY <2>1, Zenon DEF http_seek, SeekEnds
  <2> QED BY <2>2
<1> QED BY <1>1, <1>2, <1>3, <1>4, Zenon

(* Every step leaves the opening with the URL and the token as they should *)
(* be.                                                                     *)
LEMMA TokenStep ==
  ASSUME OpensAtStore, [SwiftNext]_allVars
  PROVE  OpensAtStore'
<1>1. SUFFICES ASSUME swift', pc' = "open"
               PROVE  /\ token'.token # NULL /\ token'.storage_url # NULL
                      /\ environ'.OS_AUTH_TOKEN # "set" => token'.token = response'.token
                      /\ IF environ'.OS_STORAGE_URL = "set" THEN token'.storage_url = EnvUrl
                         ELSE IsStoreUrl(token'.storage_url, response'.catalog)
  BY Zenon DEF OpensAtStore
<1>2. CASE get_token
  <2>1. keystone_env_parse_token(environ)
        /\ OpenChild(ParsedToken(environ, NoToken)) /\ environ' = environ
    BY <1>1, <1>2 DEF get_token
  <2>2. token' = ParsedToken(environ, NoToken)
    BY <2>1, Zenon DEF OpenChild
  <2> QED BY <2>1, <2>2, ParsedFacts, Zenon
<1>3. CASE keystone_authenticate
  <2>1. PICK r \in Responses : AuthenticateSucceeds(environ, r)
          /\ OpenChild(Authenticated(environ, r)) /\ response' = r /\ environ' = environ
    BY <1>1, <1>3 DEF keystone_authenticate
  <2>2. token' = Authenticated(environ, r)
    BY <2>1, Zenon DEF OpenChild
  <2> QED BY <2>1, <2>2, AuthenticatedFacts, Zenon
<1>4. CASE swift_open_fails
  BY <1>1, <1>4 DEF swift_open_fails
<1>5. CASE UNCHANGED allVars
  BY <1>1, <1>5, Zenon DEF allVars, vars, auth, OpensAtStore
<1>6. CASE Closed
  BY <1>1, <1>6 DEF Closed, vars
<1>7. CASE \/ http_open \/ http_open_fails \/ Reader \/ http_close
           \/ \E n \in 0..MaxLen : http_read(n)
           \/ \E o \in -FileSize..FileSize, whence \in {"SEEK_SET", "SEEK_CUR"} :
                http_seek(o, whence)
  BY <1>1, <1>7, NeverOpensAgain, Zenon
<1> QED BY <1>2, <1>3, <1>4, <1>5, <1>6, <1>7, Zenon
        DEF SwiftNext, swift_open, swift_read, swift_seek, swift_close, Inside, PlainHttp, Next

(* keystone_authenticate and swift_open (lib/swift-support/keystone.c:410, *)
(* lib/ior-swift.c:178): for every catalog a server may answer with, the   *)
(* HTTP reader is opened at the URL that OS_STORAGE_URL gives or, if it    *)
(* gives none, at a public endpoint of an object store in that catalog,    *)
(* with the token of that answer or of OS_AUTH_TOKEN.                      *)
THEOREM ObjectAskedOfStore == SwiftSpec => []OpensAtStore
<1>1. SwiftInit => OpensAtStore
  BY DEF SwiftInit, Init, OpensAtStore
<1>2. OpensAtStore /\ [SwiftNext]_allVars => OpensAtStore'
  BY TokenStep
<1> QED BY <1>1, <1>2, PTL DEF SwiftSpec
=============================================================================
