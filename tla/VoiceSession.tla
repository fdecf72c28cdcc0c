----------------------------- MODULE VoiceSession -----------------------------
(***************************************************************************)
(* The life of a voice session in the voice-agent process: the registry    *)
(* and Session.Close (session.go), the provider goroutine (server.go,      *)
(* provider/*.go), and the RTP side: the port pool (pool.go), the handler  *)
(* that allocates a port (handlers_rtp.go) and the listener's goroutines   *)
(* (listener.go).  Asterisk, the AI service and the HTTP clients are       *)
(* external: they decide when a packet, a message or a request arrives.    *)
(*                                                                         *)
(* The audio buffers are abstracted to what a send or a receive can do:    *)
(* succeed, be dropped, give way to ctx.Done, or meet a closed channel.    *)
(* A panic ends the process, except in a request's goroutine, where        *)
(* net/http recovers it after the deferred unlocks have run.               *)
(***************************************************************************)
EXTENDS Integers, Sequences, Functions

CONSTANTS
    Sessions,        \* ids newSessionID hands out
    Ports,           \* the configured range, as a sequence
    WebhookEnabled,  \* BACKEND_URL is set: sessions report to the backend
    None,            \* nil
    Usage            \* the hook that reports the consumption

PortSet == Range(Ports)

ASSUME ConstantsAssumption ==
    /\ Ports \in Seq(PortSet) /\ IsInjective(Ports)
    /\ WebhookEnabled \in BOOLEAN
    /\ None # Usage
    /\ {None, Usage} \cap PortSet = {}
    /\ None \notin Sessions

VARIABLES
    registry,   \* Registry.sessions
    lock,       \* Registry.mu: the session being closed under it
    phase,      \* Session.closed and how far Close is
    closer,     \* who runs Close
    hook,       \* Session.onClose; the RTP hook is named by its port
    reports,    \* history: how often the consumption was reported
    provider,   \* the goroutine that runs Provider.Run
    alloc,      \* the request POST /sessions/{id}/rtp, one per session
    port,       \* its local variable: the port it acquired
    closing,    \* Listener.closing is closed
    socket,     \* Listener.conn is open
    runner,     \* Listener.Run
    reader,     \* Listener.readLoop
    free,       \* Pool.free
    in_use,     \* Pool.in_use
    panicked    \* what ended the process, or None

sessVars == <<registry, lock, phase, closer, hook, reports>>
lisVars  == <<closing, socket, runner, reader>>
rtpVars  == <<alloc, port, closing, socket, runner, reader>>
poolVars == <<free, in_use>>
vars == <<registry, lock, phase, closer, hook, reports, provider, alloc, port,
          closing, socket, runner, reader, free, in_use, panicked>>

\* Close after its check of the flag: the flag is set ("marked"), the context
\* cancelled, the hook runs ("hookClose" to "release" are inside the RTP hook)
\* and the channels are closed; "aborted" if a request's Close panicked.
Busy      == {"marked", "cancelled", "hookClose", "hookConn", "release", "hooked"}
Over      == {"closed", "aborted"}
Cancelled == (Busy \ {"marked"}) \cup Over

\* Remove and gc hold the registry's lock while they close; handleAudioWS does
\* not.  Requests recover from a panic, goroutines do not.
UnderLock == {"request", "goroutine"}
Recovers  == {"request", "client"}

TypeOK ==
    /\ registry \in SUBSET Sessions
    /\ lock \in Sessions \cup {None}
    /\ phase \in [Sessions -> {"none", "open"} \cup Busy \cup Over]
    /\ closer \in [Sessions -> UnderLock \cup Recovers \cup {None}]
    /\ hook \in [Sessions -> PortSet \cup {None, Usage}]
    /\ reports \in [Sessions -> Nat]
    /\ provider \in [Sessions -> {"none", "read", "send", "emit", "emitFlush",
                                  "flush", "exit", "ended"}]
    /\ alloc \in [Sessions -> {"idle", "got", "acquired", "listening", "done"}]
    /\ port \in [Sessions -> PortSet \cup {None}]
    /\ closing \in [Sessions -> BOOLEAN]
    /\ socket \in [Sessions -> BOOLEAN]
    /\ runner \in [Sessions -> {"none", "wait", "close", "conn", "ended"}]
    /\ reader \in [Sessions -> {"none", "read", "send", "ended"}]
    /\ free \in Seq(PortSet)
    /\ in_use \in SUBSET PortSet
    /\ panicked \in {None, "send on closed channel", "close of closed channel"}

\* Nothing runs after a panic that nobody recovers.
Alive == panicked = None

-----------------------------------------------------------------------------
(* The registry and Session.Close.                                         *)

\* handleCreateSession; the provider starts at once.
CreateSession(s) ==
    /\ Alive /\ phase[s] = "none" /\ lock = None
    /\ phase' = [phase EXCEPT ![s] = "open"]
    /\ hook' = [hook EXCEPT ![s] = IF WebhookEnabled THEN Usage ELSE None]
    /\ registry' = registry \cup {s}
    /\ provider' = [provider EXCEPT ![s] = "read"]
    /\ UNCHANGED <<lock, closer, reports, rtpVars, poolVars, panicked>>

\* Mutant: Close does not look at the flag.
CloseAgain(s, who) ==
    /\ phase' = [phase EXCEPT ![s] = "marked"]
    /\ closer' = [closer EXCEPT ![s] = who]

\* The first critical section of Close: only one caller gets past it.
BeginClose(s, who) ==
    IF phase[s] = "open"
    THEN /\ phase' = [phase EXCEPT ![s] = "marked"]
         /\ closer' = [closer EXCEPT ![s] = who]
    ELSE UNCHANGED <<phase, closer>>

\* Mutant: a session that is closed already stays in the map.
RemoveOpenOnly(s, who) ==
    /\ lock = None
    /\ BeginClose(s, who)
    /\ lock' = IF s \in registry /\ phase[s] = "open" THEN s ELSE lock
    /\ UNCHANGED registry

\* Registry.Remove, and gc for one session: the registry stays locked while
\* Close runs, and the entry goes when it returns.
Remove(s, who) ==
    /\ lock = None
    /\ IF s \in registry
       THEN /\ BeginClose(s, who)
            /\ IF phase[s] = "open" THEN lock' = s /\ UNCHANGED registry
               ELSE registry' = registry \ {s} /\ UNCHANGED lock
       ELSE UNCHANGED <<registry, lock, phase, closer>>

\* DELETE /sessions/{id}.
EndSession(s) ==
    /\ Alive /\ s \in registry
    /\ Remove(s, "request")
    /\ UNCHANGED <<hook, reports, provider, rtpVars, poolVars, panicked>>

\* gc: the session is closed already, or its TTL has passed.
Collect(s) ==
    /\ Alive /\ s \in registry
    /\ Remove(s, "goroutine")
    /\ UNCHANGED <<hook, reports, provider, rtpVars, poolVars, panicked>>

\* handleAudioWS reads "stop": Close without the registry.
ClientStop(s) ==
    /\ Alive /\ phase[s] = "open"
    /\ BeginClose(s, "client")
    /\ UNCHANGED <<registry, lock, hook, reports, provider, rtpVars, poolVars,
                   panicked>>

Cancel(s) ==
    /\ Alive /\ phase[s] = "marked"
    /\ phase' = [phase EXCEPT ![s] = "cancelled"]
    /\ UNCHANGED <<registry, lock, closer, hook, reports, provider, rtpVars,
                   poolVars, panicked>>

\* Close calls the hook it finds: none, the usage report, or the RTP hook, which
\* begins with Listener.Close and its look at l.closing.
RunHook(s) ==
    /\ Alive /\ phase[s] = "cancelled"
    /\ phase' = [phase EXCEPT ![s] =
         IF hook[s] \notin PortSet THEN "hooked"
         ELSE IF closing[s] THEN "release" ELSE "hookClose"]
    /\ reports' = IF hook[s] = Usage THEN [reports EXCEPT ![s] = @ + 1] ELSE reports
    /\ UNCHANGED <<registry, lock, closer, hook, provider, rtpVars, poolVars,
                   panicked>>

\* close(l.closing) in the hook.  If Listener.Run was faster it panics: the
\* process ends, or the request does and Remove's deferred unlock runs.
HookClose(s) ==
    /\ Alive /\ phase[s] = "hookClose"
    /\ \/ /\ ~closing[s]
          /\ closing' = [closing EXCEPT ![s] = TRUE]
          /\ phase' = [phase EXCEPT ![s] = "hookConn"]
          /\ UNCHANGED <<lock, panicked>>
       \/ /\ closing[s] /\ closer[s] \in Recovers
          /\ phase' = [phase EXCEPT ![s] = "aborted"]
          /\ lock' = IF closer[s] \in UnderLock THEN None ELSE lock
          /\ UNCHANGED <<closing, panicked>>
       \/ /\ closing[s] /\ closer[s] \notin Recovers
          /\ panicked' = "close of closed channel"
          /\ UNCHANGED <<phase, lock, closing>>
    /\ UNCHANGED <<registry, closer, hook, reports, provider, alloc, port,
                   socket, runner, reader, poolVars>>

HookConn(s) ==
    /\ Alive /\ phase[s] = "hookConn"
    /\ socket' = [socket EXCEPT ![s] = FALSE]
    /\ phase' = [phase EXCEPT ![s] = "release"]
    /\ UNCHANGED <<registry, lock, closer, hook, reports, provider, alloc, port,
                   closing, runner, reader, poolVars, panicked>>

\* Pool.Release.
Release(p) ==
    IF p \in in_use THEN in_use' = in_use \ {p} /\ free' = Append(free, p)
    ELSE UNCHANGED poolVars

\* Mutant: the hook closes the socket and forgets the port.
HookKeepsPort(s) ==
    /\ Alive /\ phase[s] = "release"
    /\ phase' = [phase EXCEPT ![s] = "hooked"]
    /\ UNCHANGED <<registry, lock, closer, hook, reports, provider, rtpVars,
                   poolVars, panicked>>

HookRelease(s) ==
    /\ Alive /\ phase[s] = "release"
    /\ Release(hook[s])
    /\ phase' = [phase EXCEPT ![s] = "hooked"]
    /\ UNCHANGED <<registry, lock, closer, hook, reports, provider, rtpVars,
                   panicked>>

\* Mutant: no deferred unlock.
CloseChannelsKeepsLock(s) ==
    /\ Alive /\ phase[s] = "hooked"
    /\ phase' = [phase EXCEPT ![s] = "closed"]
    /\ registry' = IF closer[s] \in UnderLock THEN registry \ {s} ELSE registry
    /\ UNCHANGED <<lock, closer, hook, reports, provider, rtpVars, poolVars,
                   panicked>>

\* Close ends with the three channels; a caller in Remove then drops the entry.
CloseChannels(s) ==
    /\ Alive /\ phase[s] = "hooked"
    /\ phase' = [phase EXCEPT ![s] = "closed"]
    /\ IF closer[s] \in UnderLock
       THEN registry' = registry \ {s} /\ lock' = None
       ELSE UNCHANGED <<registry, lock>>
    /\ UNCHANGED <<closer, hook, reports, provider, rtpVars, poolVars, panicked>>

Closing(s) == \/ Cancel(s) \/ RunHook(s) \/ HookClose(s) \/ HookConn(s)
              \/ HookRelease(s) \/ CloseChannels(s)

-----------------------------------------------------------------------------
(* handleAllocateRTP: the session is looked up once, at the beginning.      *)

AllocGet(s) ==
    /\ Alive /\ alloc[s] = "idle" /\ s \in registry /\ lock = None
    /\ alloc' = [alloc EXCEPT ![s] = "got"]
    /\ UNCHANGED <<sessVars, provider, port, lisVars, poolVars, panicked>>

\* Mutant: the port is handed out and stays at the head of the list.
AcquirePeek ==
    /\ in_use' = in_use \cup {Head(free)}
    /\ UNCHANGED free

\* Pool.Acquire on a pool that is not empty.
Acquire ==
    /\ in_use' = in_use \cup {Head(free)}
    /\ free' = Tail(free)

AllocAcquire(s) ==
    /\ Alive /\ alloc[s] = "got"
    /\ IF free = <<>>
       THEN alloc' = [alloc EXCEPT ![s] = "done"] /\ UNCHANGED <<port, poolVars>>
       ELSE /\ alloc' = [alloc EXCEPT ![s] = "acquired"]
            /\ port' = [port EXCEPT ![s] = Head(free)]
            /\ Acquire
    /\ UNCHANGED <<sessVars, provider, lisVars, panicked>>

\* net.ListenUDP refuses a port another socket is bound to.
Bound(p) == \E s \in Sessions : socket[s] /\ port[s] = p

\* NewListenerForFormat and go listener.Run, or the port goes back at once.
AllocListen(s) ==
    /\ Alive /\ alloc[s] = "acquired"
    /\ IF Bound(port[s])
       THEN /\ Release(port[s])
            /\ port' = [port EXCEPT ![s] = None]
            /\ alloc' = [alloc EXCEPT ![s] = "done"]
            /\ UNCHANGED <<socket, runner, reader>>
       ELSE /\ socket' = [socket EXCEPT ![s] = TRUE]
            /\ runner' = [runner EXCEPT ![s] = "wait"]
            /\ reader' = [reader EXCEPT ![s] = "read"]
            /\ alloc' = [alloc EXCEPT ![s] = "listening"]
            /\ UNCHANGED <<port, poolVars>>
    /\ UNCHANGED <<sessVars, provider, closing, panicked>>

\* Mutant: the hook is bound to the session instead of its port.
AllocHookSession(s) ==
    /\ Alive /\ alloc[s] = "listening"
    /\ hook' = [hook EXCEPT ![s] = s]
    /\ alloc' = [alloc EXCEPT ![s] = "done"]
    /\ UNCHANGED <<registry, lock, phase, closer, reports, provider, port, lisVars,
                   poolVars, panicked>>

\* SetOnClose replaces whatever hook the session had.
AllocHook(s) ==
    /\ Alive /\ alloc[s] = "listening"
    /\ hook' = [hook EXCEPT ![s] = port[s]]
    /\ alloc' = [alloc EXCEPT ![s] = "done"]
    /\ UNCHANGED <<registry, lock, phase, closer, reports, provider, port, lisVars,
                   poolVars, panicked>>

Allocating(s) == AllocGet(s) \/ AllocAcquire(s) \/ AllocListen(s) \/ AllocHook(s)

-----------------------------------------------------------------------------
(* The listener: Run, with the three steps of its Close, and readLoop.      *)

\* Run wakes up: the hook has closed l.closing, or the context is done and
\* Close looks at l.closing itself (when both hold select takes either).
RunnerWakes(s) ==
    /\ Alive /\ runner[s] = "wait" /\ (closing[s] \/ phase[s] \in Cancelled)
    /\ runner' = [runner EXCEPT ![s] = IF closing[s] THEN "ended" ELSE "close"]
    /\ UNCHANGED <<sessVars, provider, alloc, port, closing, socket, reader,
                   poolVars, panicked>>

RunnerCloses(s) ==
    /\ Alive /\ runner[s] = "close"
    /\ IF closing[s] THEN panicked' = "close of closed channel" /\ UNCHANGED closing
       ELSE closing' = [closing EXCEPT ![s] = TRUE] /\ UNCHANGED panicked
    /\ runner' = [runner EXCEPT ![s] = "conn"]
    /\ UNCHANGED <<sessVars, provider, alloc, port, socket, reader, poolVars>>

RunnerConn(s) ==
    /\ Alive /\ runner[s] = "conn"
    /\ socket' = [socket EXCEPT ![s] = FALSE]
    /\ runner' = [runner EXCEPT ![s] = "ended"]
    /\ UNCHANGED <<sessVars, provider, alloc, port, closing, reader, poolVars,
                   panicked>>

Runner(s) == RunnerWakes(s) \/ RunnerCloses(s) \/ RunnerConn(s)

ReaderTo(s, pc) ==
    /\ Alive
    /\ reader' = [reader EXCEPT ![s] = pc]
    /\ UNCHANGED <<sessVars, provider, alloc, port, closing, socket, runner,
                   poolVars>>

\* A datagram arrives while the socket is open.
ReaderReads(s) ==
    /\ reader[s] = "read" /\ socket[s]
    /\ ReaderTo(s, "send") /\ UNCHANGED panicked

\* The read fails or times out, and the loop sees it is over.
ReaderEnds(s) ==
    /\ reader[s] = "read" /\ (~socket[s] \/ phase[s] \in Cancelled)
    /\ ReaderTo(s, "ended") /\ UNCHANGED panicked

\* The select: forward or drop, ctx.Done, or a send on the closed AudioIn.
ReaderSends(s) ==
    /\ reader[s] = "send"
    /\ \/ phase[s] # "closed" /\ ReaderTo(s, "read") /\ UNCHANGED panicked
       \/ phase[s] \in Cancelled /\ ReaderTo(s, "ended") /\ UNCHANGED panicked
       \/ phase[s] = "closed" /\ ReaderTo(s, "ended")
          /\ panicked' = "send on closed channel"

Reader(s) == ReaderReads(s) \/ ReaderEnds(s) \/ ReaderSends(s)

-----------------------------------------------------------------------------
(* The provider goroutine: it reads a message of the AI service and sends   *)
(* audio, emits an event, or on barge-in emits and flushes AudioOut.        *)

ProviderTo(s, pc) ==
    /\ Alive
    /\ provider' = [provider EXCEPT ![s] = pc]
    /\ UNCHANGED <<rtpVars, poolVars>>

ProviderReads(s) ==
    /\ provider[s] = "read"
    /\ \E pc \in {"send", "emit", "emitFlush"} : ProviderTo(s, pc)
    /\ UNCHANGED <<sessVars, panicked>>

\* The read fails: the service hung up, or the context is done.
ProviderLeaves(s) ==
    /\ provider[s] = "read"
    /\ ProviderTo(s, "exit")
    /\ UNCHANGED <<sessVars, panicked>>

\* The blocking select on AudioOut and ctx.Done; after ctx.Done OpenAI reads on
\* and fails there, Deepgram and Echo return at once.
ProviderSends(s) ==
    /\ provider[s] = "send"
    /\ \/ phase[s] # "closed" /\ ProviderTo(s, "read") /\ UNCHANGED panicked
       \/ /\ phase[s] \in Cancelled
          /\ \E pc \in {"read", "exit"} : ProviderTo(s, pc)
          /\ UNCHANGED panicked
       \/ /\ phase[s] = "closed" /\ ProviderTo(s, "ended")
          /\ panicked' = "send on closed channel"
    /\ UNCHANGED sessVars

\* emit: the default branch does not help when Events is closed.
ProviderEmits(s) ==
    /\ provider[s] \in {"emit", "emitFlush"}
    /\ IF phase[s] = "closed"
       THEN ProviderTo(s, "ended") /\ panicked' = "send on closed channel"
       ELSE /\ ProviderTo(s, IF provider[s] = "emit" THEN "read" ELSE "flush")
            /\ UNCHANGED panicked
    /\ UNCHANGED sessVars

\* flushAudioOut returns when AudioOut is empty; on a closed AudioOut the
\* receive always succeeds, and the loop has no other way out.
ProviderFlushes(s) ==
    /\ provider[s] = "flush" /\ phase[s] # "closed"
    /\ ProviderTo(s, "read")
    /\ UNCHANGED <<sessVars, panicked>>

\* The deferred Remove.
ProviderExits(s) ==
    /\ provider[s] = "exit"
    /\ Remove(s, "goroutine")
    /\ ProviderTo(s, "ended")
    /\ UNCHANGED <<hook, reports, panicked>>

-----------------------------------------------------------------------------

Init ==
    /\ registry = {} /\ lock = None
    /\ phase = [s \in Sessions |-> "none"]
    /\ closer = [s \in Sessions |-> None]
    /\ hook = [s \in Sessions |-> None]
    /\ reports = [s \in Sessions |-> 0]
    /\ provider = [s \in Sessions |-> "none"]
    /\ alloc = [s \in Sessions |-> "idle"]
    /\ port = [s \in Sessions |-> None]
    /\ closing = [s \in Sessions |-> FALSE]
    /\ socket = [s \in Sessions |-> FALSE]
    /\ runner = [s \in Sessions |-> "none"]
    /\ reader = [s \in Sessions |-> "none"]
    /\ free = Ports /\ in_use = {}
    /\ panicked = None

Provider(s) == \/ ProviderReads(s) \/ ProviderLeaves(s) \/ ProviderSends(s)
               \/ ProviderEmits(s) \/ ProviderFlushes(s) \/ ProviderExits(s)

Next ==
    \E s \in Sessions :
        \/ CreateSession(s) \/ EndSession(s) \/ Collect(s) \/ ClientStop(s)
        \/ Closing(s) \/ Allocating(s) \/ Runner(s) \/ Reader(s) \/ Provider(s)

Spec == Init /\ [][Next]_vars

\* Goroutines and handlers run on.  Strong fairness: gc comes round every minute
\* and collects what is closed or older than the TTL, and a sync.RWMutex starves
\* nobody; select picks at random among what is ready, so that a provider does
\* not miss a cancelled context forever.
Fairness ==
    \A s \in Sessions :
        /\ WF_vars(Closing(s))
        /\ WF_vars(AllocAcquire(s) \/ AllocListen(s) \/ AllocHook(s))
        /\ WF_vars(Runner(s))
        /\ WF_vars(ProviderSends(s) \/ ProviderEmits(s) \/ ProviderFlushes(s))
        /\ SF_vars(phase[s] \in Cancelled /\ ProviderLeaves(s))
        /\ SF_vars(ProviderExits(s)) /\ SF_vars(Collect(s))

FairSpec == Spec /\ Fairness

-----------------------------------------------------------------------------
(* Properties *)

\* The port session s answers for: between Acquire and Release, wherever the
\* request, the hook and Close are.
Owned(s) ==
    IF \/ alloc[s] \in {"acquired", "listening"}
       \/ hook[s] \in PortSet /\ phase[s] \notin {"hooked", "closed"}
    THEN {port[s]} ELSE {}

\* Pool (pool.go) against the handlers that use it: every port is either free,
\* once, or in use; a port that a request or a hook still answers for is in use
\* and nobody else's, although Listen may fail, the hook may be set too late
\* and Close may stop half-way.
PortsAccounted ==
    /\ IsInjective(free)
    /\ Range(free) \cap in_use = {} /\ Range(free) \cup in_use = PortSet
    /\ \A s \in Sessions : Owned(s) \subseteq in_use
    /\ \A s, t \in Sessions : s # t => Owned(s) \cap Owned(t) = {}

\* Session.Close ("Safe to call multiple times", session.go:153) against its four
\* callers: the consumption is reported at most once, so a call is not billed
\* twice, and the registry is locked by no one but a Close under way.
ClosedOnce ==
    /\ \A s \in Sessions : reports[s] <= 1
    /\ lock # None => /\ lock \in registry
                      /\ phase[lock] \in Busy /\ closer[lock] \in UnderLock
    /\ \A s \in registry : phase[s] \in Busy /\ closer[s] \in UnderLock => lock = s

Crashed == panicked # None

\* Remove runs Close, and with it the hook, under the registry's lock, and the
\* provider's own deferred Remove waits for that lock.  Nobody waits forever:
\* the lock is given back ...
LockReleased == lock # None ~> lock = None \/ Crashed

\* ... and a session that was created leaves the registry in the end.
SessionsCollected ==
    \A s \in Sessions : s \in registry ~> s \notin registry \/ Crashed

\* A port whose hook was set while the session was open is free again after the
\* session has ended, unless Close panicked.
HookedPortReturns ==
    \A s \in Sessions :
        hook[s] \in PortSet /\ phase[s] = "open"
            ~> port[s] \in Range(free) \/ phase[s] = "aborted" \/ Crashed

\* Nobody waits forever for the registry's lock, and nothing stays in it.
RegistryGoesOn == LockReleased /\ SessionsCollected
=============================================================================
