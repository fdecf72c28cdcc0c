----------------------------- MODULE AudioSocket -----------------------------
(***************************************************************************)
(* One AudioSocket connection (voice-agent/internal/audiosocket/server.go) *)
(* of one session, and its recorder (voice-agent/internal/recording).      *)
(*                                                                         *)
(* The connection's read loop moves the caller's frames from the socket to *)
(* the session's AudioIn, the write loop moves the bot's audio from        *)
(* AudioOut to the socket in whole frames, and both tap the recorder.  The *)
(* recording is encoded and uploaded when the write loop ends, before the  *)
(* socket is closed.  The session is closed from elsewhere (session.Close: *)
(* the context first, then, after the usage report, the channels); the     *)
(* provider is external: it takes frames and makes chunks.                 *)
(*                                                                         *)
(* Frames are numbered; the bot's audio is counted in half frames, so that *)
(* a chunk can leave a rest.  MaxFrames and MaxChunks bound the audio,     *)
(* MaxDiskFaults the failing writes of the temporary file.                 *)
(***************************************************************************)
EXTENDS Naturals, Sequences, SequencesExt, FiniteSets

CONSTANTS InBuffer, OutBuffer, MemoryCap, MaxFrames, MaxChunks, MaxDiskFaults,
          Recording          \* RecordingEnabled of the session: the values tried

ASSUME SocketAssumption ==
  /\ InBuffer \in Nat \ {0} /\ OutBuffer \in Nat \ {0} /\ MemoryCap \in Nat \ {0}
  /\ MaxFrames \in Nat /\ MaxChunks \in Nat /\ MaxDiskFaults \in Nat
  /\ Recording \subseteq BOOLEAN

FrameHalves == 2

VARIABLES
  sess,        \* the session: "live", "cancelled" (context done), "closed" (channels too)
  conn,        \* "new", "open", "uploading", "closed", "refused"
  ctxDone,     \* the connection's context is cancelled
  reader,      \* "off", "top", "reading", "got", "done"
  got,         \* the frame the reader holds
  sent,        \* frames Asterisk has sent and the reader has not taken
  frames,      \* frames sent so far
  hungup,      \* Asterisk sent a hangup frame and closes its side
  inQueue,     \* frames in AudioIn
  outQueue,    \* half frames in AudioOut
  chunks,      \* chunks the provider made
  buf,         \* half frames the write loop holds
  rec,         \* the recorder: [at, tape], at in "none", "file", "memory", "closed"
  taped,       \* every frame given to Append, in order
  uploaded,    \* what was uploaded, and the tape at that moment
  diskFaults,
  crashed      \* the process panicked

socketVars == <<sess, conn, ctxDone, reader, got, sent, frames, hungup, inQueue,
                outQueue, chunks, buf, rec, taped, uploaded, diskFaults, crashed>>

NotUploaded == [body |-> << >>, tape |-> << >>, done |-> FALSE]
BotFrame == 0

SocketInit ==
  /\ sess = "live" /\ conn = "new" /\ ctxDone = FALSE
  /\ reader = "off" /\ got = 0 /\ sent = << >> /\ frames = 0 /\ hungup = FALSE
  /\ inQueue = 0 /\ outQueue = << >> /\ chunks = 0 /\ buf = 0
  /\ rec = [at |-> "none", tape |-> << >>]
  /\ taped = << >> /\ uploaded = NotUploaded /\ diskFaults = 0 /\ crashed = FALSE

-----------------------------------------------------------------------------
(* The recorder. *)

Enabled == rec.at # "none"

(* Over the cap the oldest audio goes. *)
TrimmedNewest(tape) == SubSeq(tape, 1, IF Len(tape) > MemoryCap THEN MemoryCap ELSE Len(tape))
Trimmed(tape) ==
  IF Len(tape) > MemoryCap THEN SubSeq(tape, Len(tape) - MemoryCap + 1, Len(tape)) ELSE tape

(* Append: a failing write drops the file with the chunk, and memory takes over. *)
RecAppend(f) ==
  IF ~Enabled THEN UNCHANGED <<rec, taped, diskFaults>>
  ELSE /\ taped' = IF rec.at = "closed" THEN taped ELSE Append(taped, f)
       /\ CASE rec.at = "file" ->
                 \/ rec' = [rec EXCEPT !.tape = Append(@, f)] /\ UNCHANGED diskFaults
                 \/ /\ diskFaults < MaxDiskFaults /\ diskFaults' = diskFaults + 1
                    /\ rec' = [at |-> "memory", tape |-> << >>]
            [] rec.at = "memory" ->
                 /\ rec' = [rec EXCEPT !.tape = Trimmed(Append(@, f))]
                 /\ UNCHANGED diskFaults
            [] OTHER -> UNCHANGED <<rec, diskFaults>>

-----------------------------------------------------------------------------
(* The session and the provider. *)

SessionRest == <<conn, reader, got, sent, frames, hungup, buf, rec, taped, uploaded,
                 diskFaults, crashed>>

(* session.Close: cancel, the usage report, then the channels. *)
CancelSession ==
  /\ sess = "live" /\ sess' = "cancelled"
  /\ UNCHANGED <<ctxDone, inQueue, outQueue, chunks, SessionRest>>

CloseChannels ==
  /\ sess = "cancelled" /\ sess' = "closed"
  /\ UNCHANGED <<ctxDone, inQueue, outQueue, chunks, SessionRest>>

(* The goroutine of handleConnection that waits for the session's context. *)
RelayCancel ==
  /\ conn # "new" /\ sess # "live" /\ ~ctxDone /\ ctxDone' = TRUE
  /\ UNCHANGED <<sess, inQueue, outQueue, chunks, SessionRest>>

ProviderTakes ==
  /\ sess = "live" /\ inQueue > 0 /\ inQueue' = inQueue - 1
  /\ UNCHANGED <<sess, ctxDone, outQueue, chunks, SessionRest>>

ProviderSpeaks(n) ==
  /\ sess = "live" /\ chunks < MaxChunks /\ Len(outQueue) < OutBuffer
  /\ chunks' = chunks + 1 /\ outQueue' = Append(outQueue, n)
  /\ UNCHANGED <<sess, ctxDone, inQueue, SessionRest>>

-----------------------------------------------------------------------------
(* Asterisk. *)

AsteriskSends ==
  /\ conn \in {"open", "uploading"} /\ ~hungup /\ frames < MaxFrames
  /\ frames' = frames + 1 /\ sent' = Append(sent, frames')
  /\ UNCHANGED <<sess, conn, ctxDone, reader, got, hungup, inQueue, outQueue, chunks, buf,
                 rec, taped, uploaded, diskFaults, crashed>>

AsteriskHangsUp ==
  /\ conn \in {"open", "uploading"} /\ ~hungup /\ hungup' = TRUE
  /\ UNCHANGED <<sess, conn, ctxDone, reader, got, sent, frames, inQueue, outQueue, chunks,
                 buf, rec, taped, uploaded, diskFaults, crashed>>

-----------------------------------------------------------------------------
(* handleConnection *)

(* The UUID frame names a session of the registry, which a session leaves some
   time before or after it is closed, or the socket is refused. *)
Identify ==
  /\ conn = "new"
  /\ \/ /\ conn' = "open" /\ reader' = "top"
        /\ \E r \in Recording : rec' = [rec EXCEPT !.at = IF r THEN "file" ELSE "none"]
     \/ /\ conn' = "open" /\ reader' = "top"
        /\ TRUE \in Recording /\ diskFaults < MaxDiskFaults
        /\ rec' = [rec EXCEPT !.at = "memory"]
     \/ /\ sess # "live" /\ conn' = "refused" /\ UNCHANGED <<reader, rec>>
  /\ diskFaults' = IF rec'.at = "memory" THEN diskFaults + 1 ELSE diskFaults
  /\ UNCHANGED <<sess, ctxDone, got, sent, frames, hungup, inQueue, outQueue, chunks, buf,
                 taped, uploaded, crashed>>

ReaderRest == <<sess, conn, ctxDone, frames, hungup, outQueue, chunks, buf, uploaded>>

(* The top of the loop looks at the context, then the read blocks. *)
ReadLoopTop ==
  /\ reader = "top"
  /\ reader' = IF ctxDone THEN "done" ELSE "reading"
  /\ UNCHANGED <<got, sent, inQueue, rec, taped, diskFaults, crashed, ReaderRest>>

(* A frame; or a hangup or error frame, the end of the socket or thirty seconds
   of nothing. *)
ReadFrame ==
  /\ reader = "reading"
  /\ \/ /\ sent # << >> /\ conn # "closed"
        /\ reader' = "got" /\ got' = Head(sent) /\ sent' = Tail(sent)
     \/ /\ sent = << >> \/ conn = "closed"
        /\ reader' = "done" /\ UNCHANGED <<got, sent>>
  /\ UNCHANGED <<inQueue, rec, taped, diskFaults, crashed, ReaderRest>>

(* The recorder, then the select: AudioIn, the context or neither.  A closed
   AudioIn is ready, and sending on it panics; when the context is done as well
   the choice is free. *)
ForwardFrame ==
  /\ reader = "got"
  /\ RecAppend(got)
  /\ \/ sess # "closed" /\ inQueue < InBuffer /\ inQueue' = inQueue + 1
        /\ reader' = "top" /\ UNCHANGED crashed
     \/ sess = "closed" /\ crashed' = TRUE /\ UNCHANGED <<inQueue, reader>>
     \/ ctxDone /\ reader' = "done" /\ UNCHANGED <<inQueue, crashed>>
     \/ sess # "closed" /\ inQueue = InBuffer /\ ~ctxDone
        /\ reader' = "top" /\ UNCHANGED <<inQueue, crashed>>
  /\ UNCHANGED <<got, sent, ReaderRest>>

WriterRest == <<sess, ctxDone, reader, got, sent, frames, hungup, inQueue, chunks, crashed>>

TakeChunk ==
  /\ conn = "open" /\ outQueue # << >>
  /\ buf' = buf + Head(outQueue) /\ outQueue' = Tail(outQueue)
  /\ UNCHANGED <<conn, rec, taped, uploaded, diskFaults, WriterRest>>

(* The tick: a whole frame is written, or the write fails (after a hangup at
   some point; five seconds otherwise). *)
WriteFrame ==
  /\ conn = "open" /\ buf >= FrameHalves
  /\ \/ /\ buf' = buf - FrameHalves /\ RecAppend(BotFrame)
        /\ UNCHANGED conn
     \/ /\ conn' = "uploading" /\ UNCHANGED <<buf, rec, taped, diskFaults>>
  /\ UNCHANGED <<outQueue, uploaded, WriterRest>>

WriterDrains == ctxDone /\ sess = "closed" /\ buf = 0 /\ outQueue = << >>
WriterStops == ctxDone \/ (sess = "closed" /\ outQueue = << >>)

WriteLoopEnds ==
  /\ conn = "open" /\ WriterStops /\ conn' = "uploading"
  /\ UNCHANGED <<buf, outQueue, rec, taped, uploaded, diskFaults, WriterRest>>

(* The deferred calls in their order: encode and upload, or nothing if nothing
   was recorded, then Close removes the file, then the context, then the socket. *)
Encoded == IF Enabled THEN rec.tape ELSE << >>

Upload ==
  /\ conn = "uploading" /\ ~uploaded.done
  /\ uploaded' = [body |-> Encoded, tape |-> taped, done |-> TRUE]
  /\ UNCHANGED <<conn, buf, outQueue, rec, taped, diskFaults, WriterRest>>

RecKept == rec
RecClose == IF Enabled THEN [at |-> "closed", tape |-> << >>] ELSE rec

CloseConnection ==
  /\ conn = "uploading" /\ uploaded.done
  /\ rec' = RecClose
  /\ conn' = "closed" /\ ctxDone' = TRUE
  /\ UNCHANGED <<sess, reader, got, sent, frames, hungup, inQueue, outQueue, chunks, buf,
                 taped, uploaded, diskFaults, crashed>>

ConnectionStep ==
  \/ Identify \/ ReadLoopTop \/ ReadFrame \/ ForwardFrame \/ TakeChunk \/ WriteFrame
  \/ WriteLoopEnds \/ Upload \/ CloseConnection \/ RelayCancel

SocketNext ==
  /\ ~crashed
  /\ \/ ConnectionStep
     \/ CancelSession \/ CloseChannels \/ ProviderTakes
     \/ \E n \in {1, 3} : ProviderSpeaks(n)
     \/ AsteriskSends \/ AsteriskHangsUp

SocketSpec == SocketInit /\ [][SocketNext]_socketVars

-----------------------------------------------------------------------------

(* The queues respect their capacities and the loops their states.         *)
SocketTypeOK ==
  /\ sess \in {"live", "cancelled", "closed"}
  /\ conn \in {"new", "open", "uploading", "closed", "refused"}
  /\ reader \in {"off", "top", "reading", "got", "done"}
  /\ inQueue \in 0..InBuffer /\ Len(outQueue) <= OutBuffer
  /\ rec.at \in {"none", "file", "memory", "closed"}
  /\ rec.at = "memory" => Len(rec.tape) <= MemoryCap
  /\ frames \in 0..MaxFrames /\ chunks \in 0..MaxChunks /\ diskFaults \in 0..MaxDiskFaults
  /\ ctxDone \in BOOLEAN /\ hungup \in BOOLEAN /\ crashed \in BOOLEAN

(* The upload is the end of what both loops had recorded when the write    *)
(* loop ended: all of it when the disk never failed, otherwise the last    *)
(* part, never a part with a hole (Append, Bytes, the deferred upload).    *)
UploadIsTheTail ==
  uploaded.done /\ Enabled =>
    /\ IsSuffix(uploaded.body, uploaded.tape)
    /\ diskFaults = 0 => uploaded.body = uploaded.tape

(* A temporary file exists only while its connection does (Recorder.Close  *)
(* runs after the upload and before the socket is closed).                 *)
NoFileOutlivesConnection == rec.at \in {"file", "memory"} => conn \in {"open", "uploading"}

(* When the session is cancelled its connection is closed, with whatever   *)
(* audio is left in the buffers, unless the process has panicked.          *)
CancelledSessionCloses ==
  (sess # "live" /\ conn = "open") ~> (conn = "closed" \/ crashed)

(* What is uploaded is the end of the tape, and the recorder's file does   *)
(* not outlive its connection (Recorder, handleConnection).                *)
SocketInv == SocketTypeOK /\ UploadIsTheTail /\ NoFileOutlivesConnection
=============================================================================
