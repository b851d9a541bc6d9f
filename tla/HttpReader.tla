----------------------------- MODULE HttpReader -----------------------------
(***************************************************************************)
(* The HTTP reader, lib/ior-http.c: a buffer filled by libcurl from a      *)
(* transfer that can break; the reader restarts it where it left off.      *)
(*                                                                         *)
(* External: libcurl and the server.  A transfer delivers the bytes of a   *)
(* file of FileSize bytes from the offset it was resumed from, until it    *)
(* ends, breaks (curl reports an error), the wait for it is interrupted    *)
(* (select fails), or a curl_multi function fails, which leaves it as it   *)
(* is.  An ended or broken transfer delivers nothing more.  A server that  *)
(* asks for request headers refuses a request without them.  Redirects,    *)
(* which libcurl follows with the same headers, are part of the transfer.  *)
(***************************************************************************)
EXTENDS ByteStream

CONSTANTS
  MAX_WRITE,      \* CURL_MAX_WRITE_SIZE, scaled down; the buffer is twice it
  FileSize,       \* bound: size of the remote file
  MaxLen,         \* bound: length of one read
  HTTP_MAX_SKIP,  \* longest forward seek that reads through, scaled down
  Seekable,       \* does the program call seek?
  MaxFailures,    \* bound: failures of a transfer, a wait or libcurl
  SelectMayFail   \* may select be interrupted?

ASSUME HttpAssumption ==
  /\ {MAX_WRITE, FileSize} \subseteq Nat \ {0}
  /\ {MaxLen, MaxFailures, HTTP_MAX_SKIP} \subseteq Nat
  /\ {Seekable, SelectMayFail} \subseteq BOOLEAN

VARIABLES
  (* struct http_t: `buf` is the l_buf bytes in the buffer                 *)
  off0, buf, p_buf, total_length, done_reading,
  (* libcurl: where the transfer was resumed from, the next byte it        *)
  (* delivers, is it still running                                         *)
  begun, sent, running, failures,
  (* what the server makes of the requests of this easy handle: "free" (it *)
  (* asks for no headers), "headers" (they carry the right ones), "refused" *)
  access,
  (* control: "open", "idle", "read" (in the loop of http_read), "fill"    *)
  (* and "check" (in http_seek), "close", "closed"                         *)
  pc,
  (* http_read: bytes still wanted, asked for, delivered, and the result   *)
  rest, asked, got, ret,
  (* http_seek: new_off, -1 outside a seek                                 *)
  new_off,
  (* history: the program's read offset before the call; did a read or a   *)
  (* seek fail                                                             *)
  from, failed

file  == <<off0, buf, p_buf, total_length, done_reading>>
curl  == <<begun, sent, running, failures, access>>
call  == <<rest, asked, got, ret, new_off, from, failed>>
vars  == <<file, curl, pc, call>>
-----------------------------------------------------------------------------
(* Small steps the actions below are made of.  A definition named X_y is a  *)
(* faulty variant of X, used to show that the properties would notice it.  *)

Left == Len(buf) - p_buf

(* http_tell *)
http_tell == off0 + p_buf

(* fill_buffer starts by accounting for the buffer that was used up.       *)
Advanced_forgotten == off0
Advanced == off0 + Len(buf)

MayFail == failures < MaxFailures

(* The loop of fill_buffer adds n bytes to the buffer, and leaves because  *)
(* there is enough, because the transfer is over, or because of a failure. *)
Transfer(n, how) ==
  /\ how \in {"enough", "ended", "broken", "interrupted", "failing", "idle"}
  /\ n \in 0 .. (IF running THEN Smaller(2 * MAX_WRITE, FileSize - sent) ELSE 0)
  /\ how = "enough" => running /\ n >= MAX_WRITE
  /\ how = "ended" => running /\ sent + n = FileSize
  /\ how = "broken" => running /\ (MayFail \/ access = "refused")
  /\ how = "interrupted" => running /\ n < MAX_WRITE /\ SelectMayFail /\ MayFail
  /\ how = "failing" => MayFail
  /\ how = "idle" => ~running
  /\ access = "refused" => n = 0 /\ how \notin {"enough", "ended"}

(* A refusal is not counted among the failures that MaxFailures bounds.    *)
FailuresAfter(how) ==
  IF how \in {"interrupted", "failing"} \/ (how = "broken" /\ access # "refused")
  THEN failures + 1 ELSE failures

(* init_io makes a new easy handle, without the headers process_hdrs set.  *)
AccessAfterInit == IF access = "free" THEN "free" ELSE "refused"

(* What total_length may be after n bytes: the content length of the first *)
(* response that has one, which is the length of the rest of the file when *)
(* the transfer was resumed.                                               *)
LengthsAfter(n, how) ==
  {total_length} \cup
    (IF total_length < 0 /\ (n > 0 \/ how = "ended") THEN {FileSize - begun} ELSE {})

(* After a short fill: everything was read before it, or no length is      *)
(* known.                                                                  *)
Complete_always(n, length) == n < MAX_WRITE
Complete_never(n, length) == FALSE
Complete(n, length) == n < MAX_WRITE /\ Advanced >= length

(* A restarted transfer resumes at offset o.                               *)
ResumeFrom(o) == o

(* prepare, in a seek: the transfer starts over at offset o.  The error of *)
(* curl_multi_add_handle is positive and taken for success, though there   *)
(* is no transfer then.                                                    *)
prepare(o) ==
  /\ sent' = ResumeFrom(o) /\ begun' = sent'
  /\ \/ running' = TRUE /\ failures' = failures
     \/ MayFail /\ running' = FALSE /\ failures' = failures + 1
-----------------------------------------------------------------------------
(* fill_buffer, of a used-up buffer.  Its result is `result`: FINISHED,    *)
(* RETRY or the number of bytes now in the buffer.                         *)

FillFinished(result) ==
  /\ done_reading
  /\ result = "FINISHED"
  /\ off0' = Advanced /\ buf' = <<>> /\ p_buf' = 0
  /\ UNCHANGED <<total_length, done_reading, curl>>

(* An error reported by curl, for the transfer or by a curl_multi function *)
(* while it goes on, is returned as -1, which is FILL_RETRY; the bytes     *)
(* received before it stay in the buffer.                                  *)
FillBroken(result) ==
  /\ ~done_reading
  /\ result = "RETRY"
  /\ \E n \in 0 .. 2 * MAX_WRITE, how \in {"broken", "failing"} :
       /\ Transfer(n, how)
       /\ buf' = Bytes(sent, n) /\ sent' = sent + n
       /\ total_length' \in LengthsAfter(n, how)
       /\ running' = (running /\ how = "failing")
       /\ failures' = FailuresAfter(how)
  /\ off0' = Advanced /\ p_buf' = 0
  /\ UNCHANGED <<begun, access, done_reading>>

FillData(result) ==
  /\ ~done_reading
  /\ \E n \in 0 .. 2 * MAX_WRITE, how \in {"enough", "ended", "interrupted", "idle"} :
       /\ Transfer(n, how)
       /\ total_length' \in LengthsAfter(n, how)
       /\ done_reading' = Complete(n, total_length')
       /\ n > 0 \/ done_reading'
       /\ result = IF n > 0 THEN "DATA" ELSE "FINISHED"
       /\ buf' = Bytes(sent, n) /\ sent' = sent + n
       /\ running' = (running /\ how # "ended")
       /\ failures' = FailuresAfter(how)
  /\ off0' = Advanced /\ p_buf' = 0
  /\ UNCHANGED <<begun, access>>

(* Nothing received and not at the end: a new transfer is set up where     *)
(* this one stopped (init_io, prepare, http_seek to the same offset).      *)
FillRestart(result) ==
  /\ ~done_reading
  /\ result = "RETRY"
  /\ \E how \in {"ended", "interrupted", "idle"} :
       /\ Transfer(0, how)
       /\ total_length' \in LengthsAfter(0, how)
       /\ ~Complete(0, total_length')
       /\ failures' = FailuresAfter(how)
  /\ off0' = Advanced /\ buf' = <<>> /\ p_buf' = 0
  /\ sent' = ResumeFrom(Advanced) /\ begun' = sent' /\ running' = TRUE
  /\ access' = AccessAfterInit
  /\ UNCHANGED done_reading

(* ... unless that cannot be set up.                                       *)
FillRestartFails(result) ==
  /\ ~done_reading /\ MayFail
  /\ result = "RETRY_ERROR"
  /\ \E how \in {"ended", "idle"} :
       /\ Transfer(0, how)
       /\ total_length' \in LengthsAfter(0, how)
       /\ ~Complete(0, total_length')
  /\ off0' = Advanced /\ buf' = <<>> /\ p_buf' = 0
  /\ running' = FALSE /\ failures' = failures + 1
  /\ access' = AccessAfterInit
  /\ UNCHANGED <<begun, sent, done_reading>>

fill_buffer(result) ==
  \/ FillFinished(result) \/ FillBroken(result) \/ FillData(result)
  \/ FillRestart(result) \/ FillRestartFails(result)
-----------------------------------------------------------------------------
(* In http_open_hdrs, init_io and prepare have set up a transfer from the  *)
(* beginning, or none and nobody noticed; its first fill decides whether   *)
(* the open succeeds.                                                      *)
HandleInit ==
  /\ off0 = 0 /\ buf = <<>> /\ p_buf = 0
  /\ total_length = -1 /\ done_reading = FALSE
  /\ begun = 0 /\ sent = 0 /\ running \in BOOLEAN
  /\ failures = (IF running THEN 0 ELSE 1) /\ failures <= MaxFailures
  /\ rest = 0 /\ asked = 0 /\ got = <<>> /\ ret = 0
  /\ new_off = -1 /\ from = 0 /\ failed = FALSE

Init == HandleInit /\ pc = "open" /\ access = "free"

http_open ==
  /\ pc = "open"
  /\ \E result \in {"DATA", "FINISHED"} : fill_buffer(result)
  /\ pc' = "idle"
  /\ UNCHANGED call

http_open_fails ==
  /\ pc = "open"
  /\ \E result \in {"RETRY", "RETRY_ERROR"} : fill_buffer(result)
  /\ pc' = "close"
  /\ UNCHANGED call
-----------------------------------------------------------------------------
(* http_read *)

(* An empty buffer means end of file.                                      *)
http_read(n) ==
  /\ pc = "idle"
  /\ asked' = n /\ rest' = n /\ got' = <<>> /\ from' = http_tell
  /\ IF buf = <<>> THEN pc' = "idle" /\ ret' = 0
                   ELSE pc' = "read" /\ ret' = ret
  /\ UNCHANGED <<file, curl, new_off, failed>>

(* Take n bytes from the buffer.                                           *)
Take(n) ==
  /\ got' = got \o SubSeq(buf, p_buf + 1, p_buf + n)
  /\ rest' = rest - n

(* http_read returns r, to the program or to http_seek.                    *)
Returns(r) ==
  /\ ret' = r
  /\ pc' = IF new_off < 0 THEN "idle" ELSE "check"

ReadBuffered ==
  /\ pc = "read" /\ rest > 0 /\ Left >= rest
  /\ Take(rest)
  /\ p_buf' = p_buf + rest
  /\ UNCHANGED <<off0, buf, total_length, done_reading, curl, pc, asked, ret,
                 new_off, from, failed>>

(* Use up the buffer and fill it again; FILL_RETRY goes round the loop.    *)
ReadFill ==
  /\ pc = "read" /\ rest > 0 /\ Left < rest
  /\ Take(Left)
  /\ \E result \in {"DATA", "RETRY"} : fill_buffer(result)
  /\ UNCHANGED <<pc, asked, ret, new_off, from, failed>>

ReadFinished ==
  /\ pc = "read" /\ rest > 0 /\ Left < rest
  /\ Take(Left)
  /\ fill_buffer("FINISHED")
  /\ Returns(asked - rest')
  /\ UNCHANGED <<asked, new_off, from, failed>>

ReadFails ==
  /\ pc = "read" /\ rest > 0 /\ Left < rest
  /\ Take(Left)
  /\ fill_buffer("RETRY_ERROR")
  /\ Returns(-1) /\ failed' = TRUE
  /\ UNCHANGED <<asked, new_off, from>>

ReadReturn ==
  /\ pc = "read" /\ rest = 0
  /\ Returns(asked)
  /\ UNCHANGED <<file, curl, rest, asked, got, new_off, from, failed>>
-----------------------------------------------------------------------------
(* http_seek *)

(* Where the code goes for an offset o; other values of whence fail.       *)
SeekTarget(o, whence) == IF whence = "SEEK_SET" THEN o ELSE -1 + http_tell + o

(* A seek that ends at absolute offset o.                                  *)
SeekEnds(o) ==
  /\ pc' = "idle" /\ ret' = o /\ new_off' = -1
  /\ from' = o /\ got' = <<>> /\ rest' = 0 /\ asked' = 0

(* Is o further on in the buffer?                                          *)
InBuffer(o) == o >= http_tell /\ o - http_tell + p_buf < Len(buf)

MustRestart(o) == o < http_tell \/ o - http_tell > HTTP_MAX_SKIP

http_seek(o, whence) ==
  /\ pc = "idle" /\ Seekable
  /\ SeekTarget(o, whence) <= FileSize   \* bound: seeks inside the file
  /\ LET new == SeekTarget(o, whence)
     IN  \/ /\ new < 0
            /\ ret' = -1 /\ asked' = 0 /\ got' = <<>> /\ rest' = 0
            /\ from' = http_tell
            /\ UNCHANGED <<file, curl, pc, new_off, failed>>
         \/ /\ new >= 0 /\ InBuffer(new)
            /\ p_buf' = p_buf + (new - http_tell)
            /\ SeekEnds(new)
            /\ UNCHANGED <<off0, buf, total_length, done_reading, curl, failed>>
         \/ /\ new >= 0 /\ ~InBuffer(new) /\ MustRestart(new)
            /\ off0' = new /\ buf' = <<>> /\ p_buf' = 0 /\ done_reading' = FALSE
            /\ prepare(new)
            /\ pc' = "fill" /\ new_off' = new
            /\ got' = <<>> /\ rest' = 0 /\ asked' = 0 /\ from' = new
            /\ UNCHANGED <<total_length, access, ret, failed>>
         \/ /\ new >= 0 /\ ~InBuffer(new) /\ ~MustRestart(new)
            /\ asked' = new - http_tell /\ rest' = asked' /\ got' = <<>>
            /\ from' = http_tell
            /\ IF buf = <<>> THEN pc' = "check" /\ ret' = 0
                             ELSE pc' = "read" /\ ret' = ret
            /\ new_off' = new
            /\ UNCHANGED <<file, curl, failed>>

(* The new transfer's first fill decides whether the seek succeeds.        *)
SeekFill ==
  /\ pc = "fill"
  /\ \E result \in {"DATA", "FINISHED", "RETRY", "RETRY_ERROR"} :
       /\ fill_buffer(result)
       /\ ret' = IF result = "DATA" THEN 0 ELSE -1
  /\ pc' = "check"
  /\ UNCHANGED <<rest, asked, got, new_off, from, failed>>

(* It did when the bytes skipped, or none for a new transfer, lead there.  *)
SeekCheck ==
  /\ pc = "check"
  /\ IF ret >= 0 /\ from + ret = new_off
     THEN SeekEnds(new_off) /\ UNCHANGED <<off0, buf, p_buf, failed>>
     ELSE /\ buf' = <<>> /\ p_buf' = 0
          /\ pc' = "idle" /\ ret' = -1 /\ new_off' = -1 /\ failed' = TRUE
          /\ from' = off0 /\ got' = <<>> /\ rest' = 0 /\ asked' = 0
          /\ off0' = off0
  /\ UNCHANGED <<total_length, done_reading, curl>>

Reader ==
  \/ ReadBuffered \/ ReadFill \/ ReadFinished \/ ReadFails \/ ReadReturn
  \/ SeekFill \/ SeekCheck
-----------------------------------------------------------------------------
(* http_close, of an open handle or of one that could not be opened.       *)
http_close ==
  /\ pc \in {"idle", "close"}
  /\ pc' = "closed"
  /\ UNCHANGED <<file, curl, call>>

Closed == pc = "closed" /\ UNCHANGED vars

Next ==
  \/ http_open \/ http_open_fails
  \/ \E n \in 0..MaxLen : http_read(n)
  \/ \E o \in -FileSize..FileSize, whence \in {"SEEK_SET", "SEEK_CUR"} :
       http_seek(o, whence)
  \/ Reader
  \/ http_close \/ Closed

(* Inside a read the reader keeps going, and libcurl returns: transfers    *)
(* that stall are broken off by CURLOPT_LOW_SPEED_TIME, and transfers and  *)
(* libcurl fail at most MaxFailures times.                                 *)
Spec == Init /\ [][Next]_vars /\ WF_vars(Reader)
-----------------------------------------------------------------------------
(* Every variable keeps its type; the buffer does not outgrow its memory.  *)
TypeOK ==
  /\ off0 \in 0..FileSize /\ Len(buf) \in 0 .. 2 * MAX_WRITE
  /\ p_buf \in 0..Len(buf)
  /\ total_length \in -1..FileSize /\ done_reading \in BOOLEAN
  /\ begun \in 0..FileSize /\ sent \in 0..FileSize /\ running \in BOOLEAN
  /\ failures \in 0..MaxFailures /\ access \in {"free", "headers", "refused"}
  /\ pc \in {"swift", "keystone", "open", "idle", "read", "fill", "check", "close", "closed"}
  /\ rest \in Nat /\ asked \in Nat /\ ret \in Int
  /\ new_off \in -1..FileSize
  /\ from \in 0..FileSize /\ failed \in BOOLEAN

(* Across any number of broken, interrupted and restarted transfers a read *)
(* delivers the bytes of the file that follow those of the read before, or *)
(* the ones at the offset the seek before it returned.  The buffer does    *)
(* not outgrow its memory and every variable has its type.                 *)
ResumesWhereItStopped ==
  /\ TypeOK
  /\ got = Bytes(from, Len(got))
  /\ pc \notin {"check", "closed"} => http_tell = from + Len(got)

(* If the length of the whole file is known, a read comes back with less   *)
(* than was asked for only at the end of the file, or after a read or a    *)
(* seek has failed.  Otherwise (no length yet, a server that sends none,   *)
(* or the length of a resumed transfer taken for that of the file) a       *)
(* transfer that stops early is taken for the end.                         *)
EndOnlyAtEnd ==
  pc = "idle" /\ 0 <= ret /\ ret < asked /\ ~failed /\ total_length = FileSize
    => http_tell = FileSize

(* Every read returns, after restarts where necessary, if the server comes *)
(* back: the reader retries for as long as it does not, and for ever if it *)
(* has lost the headers that the server asks for.                          *)
ReadReturns == (pc = "read") ~> (pc = "idle" \/ access = "refused")
=============================================================================
