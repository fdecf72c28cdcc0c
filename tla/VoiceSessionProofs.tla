-------------------------- MODULE VoiceSessionProofs --------------------------
(***************************************************************************)
(* Proofs about VoiceSession: the registry, Session.Close and the RTP port *)
(* pool, for any number of sessions and ports.                             *)
(***************************************************************************)
EXTENDS VoiceSession, TLAPS

-----------------------------------------------------------------------------
(* The pool: what Acquire and Release do to the list of free ports.         *)

\* A list without repetitions loses its head and nothing else.
LEMMA TailOfInjective ==
    ASSUME NEW S, NEW q \in Seq(S), q # <<>>, IsInjective(q)
    PROVE  /\ Head(q) \in S /\ Tail(q) \in Seq(S)
           /\ Head(q) \in Range(q)
           /\ IsInjective(Tail(q))
           /\ Range(Tail(q)) = Range(q) \ {Head(q)}
<1>1. /\ Len(q) \in Nat \ {0} /\ q[1] \in S /\ Head(q) = q[1]
      /\ Tail(q) \in Seq(S) /\ Len(Tail(q)) = Len(q) - 1
      /\ \A i \in 1..Len(Tail(q)) : Tail(q)[i] = q[i + 1]
  OBVIOUS
<1>2. DOMAIN q = 1..Len(q) /\ DOMAIN Tail(q) = 1..(Len(q) - 1)
  BY <1>1
<1>3. Head(q) \in Range(q)
  BY <1>1, <1>2 DEF Range
<1>4. IsInjective(Tail(q))
  BY <1>1, <1>2 DEF IsInjective
<1>5. ASSUME NEW i \in DOMAIN Tail(q) PROVE Tail(q)[i] \in Range(q) \ {Head(q)}
  BY <1>1, <1>2, <1>5 DEF IsInjective, Range
<1>6. ASSUME NEW i \in DOMAIN q, q[i] # Head(q) PROVE q[i] \in Range(Tail(q))
  <2>1. i - 1 \in DOMAIN Tail(q) /\ Tail(q)[i - 1] = q[i]
    BY <1>1, <1>2, <1>6
  <2> QED
    BY <2>1 DEF Range
<1> QED
  BY <1>1, <1>3, <1>4, <1>5, <1>6 DEF Range

\* An element that is not in a list without repetitions may be appended to it.
LEMMA AppendToInjective ==
    ASSUME NEW S, NEW q \in Seq(S), NEW x \in S, x \notin Range(q), IsInjective(q)
    PROVE  /\ Append(q, x) \in Seq(S)
           /\ IsInjective(Append(q, x))
           /\ Range(Append(q, x)) = Range(q) \cup {x}
<1> DEFINE r == Append(q, x)
<1>1. /\ r \in Seq(S) /\ Len(q) \in Nat /\ Len(r) = Len(q) + 1
      /\ r[Len(q) + 1] = x /\ \A i \in 1..Len(q) : r[i] = q[i]
  OBVIOUS
<1>2. DOMAIN q = 1..Len(q) /\ DOMAIN r = 1..(Len(q) + 1)
  BY <1>1
<1> HIDE DEF r
<1>3. IsInjective(r)
  BY <1>1, <1>2 DEF IsInjective, Range
<1>4. ASSUME NEW i \in DOMAIN r PROVE r[i] \in Range(q) \cup {x}
  BY <1>1, <1>2, <1>4 DEF Range
<1>5. ASSUME NEW i \in DOMAIN q PROVE q[i] \in Range(r)
  BY <1>1, <1>2, <1>5 DEF Range
<1>6. x \in Range(r)
  BY <1>1, <1>2 DEF Range
<1> QED
  BY <1>1, <1>3, <1>4, <1>5, <1>6 DEF r, Range

-----------------------------------------------------------------------------
(* Types.  A goroutine that has acquired a port has it in its variable.     *)

PortHeld ==
    \A s \in Sessions : alloc[s] \in {"acquired", "listening"} => port[s] \in PortSet

TypeInv == TypeOK /\ PortHeld

LEMMA TypeInit == Init => TypeInv
BY ConstantsAssumption DEF Init, TypeInv, TypeOK, PortHeld, Busy, Over

LEMMA BeginCloseType ==
    ASSUME TypeOK, NEW s \in Sessions, NEW who \in UnderLock \cup Recovers,
           BeginClose(s, who)
    PROVE  /\ phase' \in [Sessions -> {"none", "open"} \cup Busy \cup Over]
           /\ closer' \in [Sessions -> UnderLock \cup Recovers \cup {None}]
BY DEF TypeOK, BeginClose, Busy

LEMMA RemoveType ==
    ASSUME TypeOK, NEW s \in Sessions, NEW who \in UnderLock \cup Recovers, Remove(s, who)
    PROVE  /\ registry' \in SUBSET Sessions
           /\ lock' \in Sessions \cup {None}
           /\ phase' \in [Sessions -> {"none", "open"} \cup Busy \cup Over]
           /\ closer' \in [Sessions -> UnderLock \cup Recovers \cup {None}]
BY BeginCloseType DEF TypeOK, Remove

LEMMA ReleaseType ==
    ASSUME TypeOK, NEW p, Release(p)
    PROVE  free' \in Seq(PortSet) /\ in_use' \in SUBSET PortSet
<1>1. CASE p \in in_use
  <2>1. p \in PortSet /\ free \in Seq(PortSet)
    BY <1>1 DEF TypeOK
  <2>2. Append(free, p) \in Seq(PortSet)
    BY <2>1
  <2> QED
    BY <1>1, <2>2 DEF Release, TypeOK
<1>2. CASE p \notin in_use
  BY <1>2 DEF Release, poolVars, TypeOK
<1> QED
  BY <1>1, <1>2

LEMMA TypeStep == TypeInv /\ [Next]_vars => TypeInv'
<1> SUFFICES ASSUME TypeInv, [Next]_vars PROVE TypeInv'
  OBVIOUS
<1> USE DEF TypeInv, sessVars, lisVars, rtpVars, poolVars
<1>1. ASSUME NEW s \in Sessions, CreateSession(s) PROVE TypeInv'
  BY <1>1 DEF CreateSession, TypeOK, PortHeld
<1>2. ASSUME NEW s \in Sessions, EndSession(s) PROVE TypeInv'
  BY <1>2, RemoveType DEF EndSession, TypeOK, PortHeld, UnderLock
<1>3. ASSUME NEW s \in Sessions, Collect(s) PROVE TypeInv'
  BY <1>3, RemoveType DEF Collect, TypeOK, PortHeld, UnderLock
<1>4. ASSUME NEW s \in Sessions, ClientStop(s) PROVE TypeInv'
  BY <1>4, BeginCloseType DEF ClientStop, TypeOK, PortHeld, Recovers
<1>5. ASSUME NEW s \in Sessions, Cancel(s) PROVE TypeInv'
  BY <1>5 DEF Cancel, TypeOK, PortHeld, Busy
<1>6. ASSUME NEW s \in Sessions, RunHook(s) PROVE TypeInv'
  <2>1. \E ph \in {"hooked", "release", "hookClose"} : phase' = [phase EXCEPT ![s] = ph]
    BY <1>6, Zenon DEF RunHook
  <2>2. phase' \in [Sessions -> {"none", "open"} \cup Busy \cup Over]
    BY <2>1 DEF TypeOK, Busy
  <2>3. reports' \in [Sessions -> Nat]
    <3>1. reports \in [Sessions -> Nat]
      BY DEF TypeOK
    <3>2. reports' = reports \/ reports' = [reports EXCEPT ![s] = @ + 1]
      BY <1>6, Zenon DEF RunHook
    <3> QED
      BY <3>1, <3>2
  <2> QED
    BY <1>6, <2>2, <2>3 DEF RunHook, TypeOK, PortHeld
<1>7. ASSUME NEW s \in Sessions, HookClose(s) PROVE TypeInv'
  BY <1>7 DEF HookClose, TypeOK, PortHeld, Busy, Over
<1>8. ASSUME NEW s \in Sessions, HookConn(s) PROVE TypeInv'
  BY <1>8 DEF HookConn, TypeOK, PortHeld, Busy
<1>9. ASSUME NEW s \in Sessions, HookRelease(s) PROVE TypeInv'
  <2>1. free' \in Seq(PortSet) /\ in_use' \in SUBSET PortSet
    BY <1>9, ReleaseType DEF HookRelease
  <2> QED
    BY <1>9, <2>1 DEF HookRelease, TypeOK, PortHeld, Busy
<1>10. ASSUME NEW s \in Sessions, CloseChannels(s) PROVE TypeInv'
  BY <1>10 DEF CloseChannels, TypeOK, PortHeld, Over
<1>11. ASSUME NEW s \in Sessions, AllocGet(s) PROVE TypeInv'
  BY <1>11 DEF AllocGet, TypeOK, PortHeld
<1>12. ASSUME NEW s \in Sessions, AllocAcquire(s) PROVE TypeInv'
  <2>1. CASE free = <<>>
    BY <1>12, <2>1 DEF AllocAcquire, TypeOK, PortHeld
  <2>2. CASE free # <<>>
    <3>0. free \in Seq(PortSet)
      BY DEF TypeOK
    <3>1. Head(free) \in PortSet /\ Tail(free) \in Seq(PortSet)
      BY <2>2, <3>0
    <3>2. /\ alloc' = [alloc EXCEPT ![s] = "acquired"]
          /\ port' = [port EXCEPT ![s] = Head(free)]
          /\ in_use' = in_use \cup {Head(free)} /\ free' = Tail(free)
      BY <1>12, <2>2 DEF AllocAcquire, Acquire
    <3>3. free' \in Seq(PortSet) /\ in_use' \in SUBSET PortSet
      BY <3>1, <3>2 DEF TypeOK
    <3>4. port' \in [Sessions -> PortSet \cup {None}] /\ PortHeld'
      BY <3>1, <3>2 DEF TypeOK, PortHeld
    <3> QED
      BY <1>12, <3>2, <3>3, <3>4 DEF AllocAcquire, TypeOK
  <2> QED
    BY <2>1, <2>2
<1>13. ASSUME NEW s \in Sessions, AllocListen(s) PROVE TypeInv'
  <2>1. CASE Bound(port[s])
    <3>1. free' \in Seq(PortSet) /\ in_use' \in SUBSET PortSet
      BY <1>13, <2>1, ReleaseType DEF AllocListen
    <3> QED
      BY <1>13, <2>1, <3>1 DEF AllocListen, TypeOK, PortHeld
  <2>2. CASE ~ Bound(port[s])
    BY <1>13, <2>2 DEF AllocListen, TypeOK, PortHeld
  <2> QED
    BY <2>1, <2>2
<1>14. ASSUME NEW s \in Sessions, AllocHook(s) PROVE TypeInv'
  BY <1>14 DEF AllocHook, TypeOK, PortHeld
<1>15. ASSUME NEW s \in Sessions, Runner(s) PROVE TypeInv'
  BY <1>15 DEF Runner, RunnerWakes, RunnerCloses, RunnerConn, TypeOK, PortHeld
<1>16. ASSUME NEW s \in Sessions, Reader(s) PROVE TypeInv'
  BY <1>16 DEF Reader, ReaderReads, ReaderEnds, ReaderSends, ReaderTo, TypeOK, PortHeld
<1>17. ASSUME NEW s \in Sessions, Provider(s) PROVE TypeInv'
  <2>1. CASE ProviderExits(s)
    BY <2>1, RemoveType DEF ProviderExits, ProviderTo, TypeOK, PortHeld, UnderLock
  <2>2. CASE ~ ProviderExits(s)
    <3>1. /\ \E pc \in {"read", "send", "emit", "emitFlush", "flush", "exit", "ended"} :
                provider' = [provider EXCEPT ![s] = pc]
          /\ panicked' \in {panicked, "send on closed channel"}
          /\ UNCHANGED <<sessVars, rtpVars, poolVars>>
      BY <1>17, <2>2 DEF Provider, ProviderReads, ProviderLeaves, ProviderSends,
         ProviderEmits, ProviderFlushes, ProviderTo
    <3>2. /\ provider' \in [Sessions -> {"none", "read", "send", "emit", "emitFlush",
                                        "flush", "exit", "ended"}]
          /\ panicked' \in {None, "send on closed channel", "close of closed channel"}
      <4>1. /\ provider \in [Sessions -> {"none", "read", "send", "emit", "emitFlush",
                                         "flush", "exit", "ended"}]
            /\ panicked \in {None, "send on closed channel", "close of closed channel"}
        BY DEF TypeOK
      <4> QED
        BY <3>1, <4>1
    <3> QED
      BY <3>1, <3>2 DEF TypeOK, PortHeld
  <2> QED
    BY <2>1, <2>2
<1>18. CASE UNCHANGED vars
  BY <1>18 DEF vars, TypeOK, PortHeld
<1> QED
  BY <1>1, <1>2, <1>3, <1>4, <1>5, <1>6, <1>7, <1>8, <1>9, <1>10, <1>11, <1>12, <1>13,
     <1>14, <1>15, <1>16, <1>17, <1>18 DEF Next, Closing, Allocating

\* Type correctness of the registry, the sessions, the requests for a port, the
\* listeners and the providers together: every reachable state satisfies TypeOK.
THEOREM TypeCorrect == Spec => []TypeOK
<1>1. TypeInv => TypeOK
  BY DEF TypeInv
<1> QED
  BY <1>1, TypeInit, TypeStep, PTL DEF Spec

-----------------------------------------------------------------------------
(* ClosedOnce.  What makes it inductive: a session whose Close runs under   *)
(* the registry's lock has the lock whether or not it is still in the map,  *)
(* and no consumption was reported before the hook has run.                 *)

BeforeHook == {"none", "open", "marked", "cancelled"}

LockHeld ==
    /\ lock # None => /\ lock \in registry
                      /\ phase[lock] \in Busy /\ closer[lock] \in UnderLock
    /\ \A s \in Sessions : phase[s] \in Busy /\ closer[s] \in UnderLock => lock = s

ReportedOnce ==
    \A s \in Sessions : /\ reports[s] <= 1
                        /\ phase[s] \in BeforeHook => reports[s] = 0

CloseInv == TypeInv /\ LockHeld /\ ReportedOnce

LEMMA CloseInit == Init => CloseInv
BY TypeInit DEF Init, CloseInv, LockHeld, ReportedOnce, Busy

LEMMA CloseImplies == CloseInv => ClosedOnce
BY DEF CloseInv, TypeInv, TypeOK, LockHeld, ReportedOnce, ClosedOnce

\* A step of anyone else leaves what ClosedOnce is about alone.
LEMMA CloseFrame ==
    ASSUME CloseInv, TypeInv', UNCHANGED <<registry, lock, phase, closer, reports>>
    PROVE  CloseInv'
BY DEF CloseInv, LockHeld, ReportedOnce

\* The types the proofs about Close need.
LEMMA CloseTypes ==
    ASSUME TypeInv
    PROVE  /\ lock \in Sessions \cup {None}
           /\ phase \in [Sessions -> {"none", "open"} \cup Busy \cup Over]
           /\ closer \in [Sessions -> UnderLock \cup Recovers \cup {None}]
           /\ reports \in [Sessions -> Nat]
BY DEF TypeInv, TypeOK

\* Remove takes the lock when it begins to close, and drops the entry of a
\* session that is closed already only while nobody has the lock.
LEMMA RemoveCloses ==
    ASSUME CloseInv, TypeInv', NEW s \in Sessions, NEW who \in UnderLock, Remove(s, who),
           UNCHANGED reports
    PROVE  CloseInv'
<1>0. TypeInv /\ LockHeld /\ ReportedOnce
  BY DEF CloseInv
<1>1. CASE s \in registry /\ phase[s] = "open"
  <2>1. /\ lock = None /\ lock' = s /\ UNCHANGED registry
        /\ phase' = [phase EXCEPT ![s] = "marked"]
        /\ closer' = [closer EXCEPT ![s] = who]
    BY <1>1 DEF Remove, BeginClose
  <2>2. /\ phase'[s] = "marked" /\ closer'[s] = who
        /\ \A t \in Sessions \ {s} : phase'[t] = phase[t] /\ closer'[t] = closer[t]
    BY <1>0, <2>1, CloseTypes
  <2>3. \A t \in Sessions \ {s} : ~ (phase[t] \in Busy /\ closer[t] \in UnderLock)
    BY <1>0, <2>1, ConstantsAssumption DEF LockHeld
  <2>4. LockHeld'
    BY <1>1, <2>1, <2>2, <2>3 DEF LockHeld, Busy
  <2>5. ReportedOnce'
    BY <1>0, <1>1, <2>2 DEF ReportedOnce, BeforeHook
  <2> QED
    BY <2>4, <2>5 DEF CloseInv
<1>2. CASE ~ (s \in registry /\ phase[s] = "open")
  <2>1. lock = None /\ registry' \subseteq registry /\ UNCHANGED <<lock, phase, closer>>
    BY <1>2 DEF Remove, BeginClose
  <2> QED
    BY <1>0, <2>1 DEF CloseInv, LockHeld, ReportedOnce
<1> QED
  BY <1>1, <1>2

\* A step of Close that does not end it.
LEMMA BusyStep ==
    ASSUME CloseInv, TypeInv', NEW s \in Sessions, NEW ph \in Busy,
           phase[s] \in Busy, phase' = [phase EXCEPT ![s] = ph],
           \/ ph \notin BeforeHook /\ (reports' = reports \/ reports[s] = 0)
           \/ ph \in BeforeHook /\ phase[s] \in BeforeHook /\ reports' = reports,
           \/ reports' = reports
           \/ reports' = [reports EXCEPT ![s] = @ + 1],
           UNCHANGED <<registry, lock, closer>>
    PROVE  CloseInv'
<1>0. TypeInv /\ LockHeld /\ ReportedOnce
  BY DEF CloseInv
<1>1. phase'[s] = ph /\ \A t \in Sessions \ {s} : phase'[t] = phase[t]
  BY <1>0, CloseTypes
<1>2. LockHeld'
  BY <1>0, <1>1, CloseTypes DEF LockHeld
<1>3. ReportedOnce'
  <2> SUFFICES ASSUME NEW t \in Sessions
               PROVE  /\ reports'[t] <= 1
                      /\ phase'[t] \in BeforeHook => reports'[t] = 0
    BY DEF ReportedOnce
  <2>1. reports[t] \in Nat /\ reports[t] <= 1
    BY <1>0, CloseTypes DEF ReportedOnce
  <2>2. CASE t = s
    BY <1>0, <1>1, <2>1, <2>2, CloseTypes DEF ReportedOnce
  <2>3. CASE t # s
    BY <1>0, <1>1, <2>1, <2>3, CloseTypes DEF ReportedOnce
  <2> QED
    BY <2>2, <2>3
<1> QED
  BY <1>2, <1>3 DEF CloseInv

\* The end of Close gives back the lock it had.
LEMMA OverStep ==
    ASSUME CloseInv, TypeInv', NEW s \in Sessions, NEW ph \in Over,
           phase[s] \in Busy, phase' = [phase EXCEPT ![s] = ph],
           lock' = IF closer[s] \in UnderLock THEN None ELSE lock,
           \/ registry' = registry
           \/ closer[s] \in UnderLock /\ registry' = registry \ {s},
           UNCHANGED <<closer, reports>>
    PROVE  CloseInv'
<1>0. TypeInv /\ LockHeld /\ ReportedOnce
  BY DEF CloseInv
<1>1. phase'[s] = ph /\ \A t \in Sessions \ {s} : phase'[t] = phase[t]
  BY <1>0, CloseTypes
<1>2. ph \notin Busy /\ ph \notin BeforeHook
  BY DEF Over, Busy, BeforeHook
<1>3. LockHeld'
  <2>1. CASE closer[s] \in UnderLock
    BY <1>0, <1>1, <1>2, <2>1 DEF LockHeld
  <2>2. CASE closer[s] \notin UnderLock
    BY <1>0, <1>1, <1>2, <2>2, CloseTypes DEF LockHeld
  <2> QED
    BY <2>1, <2>2
<1>4. ReportedOnce'
  BY <1>0, <1>1, <1>2 DEF ReportedOnce
<1> QED
  BY <1>3, <1>4 DEF CloseInv

LEMMA CloseStep == CloseInv /\ [Next]_vars => CloseInv'
<1> SUFFICES ASSUME CloseInv, [Next]_vars PROVE CloseInv'
  OBVIOUS
<1>0. TypeInv /\ TypeInv' /\ LockHeld /\ ReportedOnce
  BY TypeStep DEF CloseInv
<1> USE DEF sessVars, lisVars, rtpVars, poolVars
<1>1. ASSUME NEW s \in Sessions, CreateSession(s) PROVE CloseInv'
  <2>1. /\ phase[s] = "none" /\ lock = None /\ registry \subseteq registry'
        /\ phase' = [phase EXCEPT ![s] = "open"] /\ UNCHANGED <<lock, closer, reports>>
    BY <1>1 DEF CreateSession
  <2>2. phase'[s] = "open" /\ \A t \in Sessions \ {s} : phase'[t] = phase[t]
    BY <1>0, <2>1, CloseTypes
  <2>3. LockHeld'
    BY <1>0, <2>1, <2>2 DEF LockHeld, Busy
  <2>4. ReportedOnce'
    BY <1>0, <2>1, <2>2 DEF ReportedOnce, BeforeHook
  <2> QED
    BY <1>0, <2>3, <2>4 DEF CloseInv
<1>2. ASSUME NEW s \in Sessions, EndSession(s) PROVE CloseInv'
  BY <1>0, <1>2, RemoveCloses DEF EndSession, UnderLock
<1>3. ASSUME NEW s \in Sessions, Collect(s) PROVE CloseInv'
  BY <1>0, <1>3, RemoveCloses DEF Collect, UnderLock
<1>4. ASSUME NEW s \in Sessions, ClientStop(s) PROVE CloseInv'
  <2>1. /\ phase[s] = "open" /\ UNCHANGED <<registry, lock, reports>>
        /\ phase' = [phase EXCEPT ![s] = "marked"]
        /\ closer' = [closer EXCEPT ![s] = "client"]
    BY <1>4 DEF ClientStop, BeginClose
  <2>2. /\ phase'[s] = "marked" /\ closer'[s] = "client"
        /\ \A t \in Sessions \ {s} : phase'[t] = phase[t] /\ closer'[t] = closer[t]
    BY <1>0, <2>1, CloseTypes
  <2>3. LockHeld'
    BY <1>0, <2>1, <2>2, CloseTypes DEF LockHeld, Busy, UnderLock
  <2>4. ReportedOnce'
    BY <1>0, <2>1, <2>2 DEF ReportedOnce, BeforeHook
  <2> QED
    BY <1>0, <2>3, <2>4 DEF CloseInv
<1>5. ASSUME NEW s \in Sessions, Cancel(s) PROVE CloseInv'
  BY <1>0, <1>5, BusyStep DEF Cancel, Busy, BeforeHook
<1>6. ASSUME NEW s \in Sessions, RunHook(s) PROVE CloseInv'
  <2>1. PICK ph \in {"hooked", "release", "hookClose"} : phase' = [phase EXCEPT ![s] = ph]
    BY <1>6, Zenon DEF RunHook
  <2>2. /\ phase[s] = "cancelled" /\ UNCHANGED <<registry, lock, closer>>
        /\ \/ reports' = reports
           \/ reports' = [reports EXCEPT ![s] = @ + 1]
    BY <1>6 DEF RunHook
  <2>3. reports[s] = 0
    BY <1>0, <2>2 DEF ReportedOnce, BeforeHook
  <2> QED
    BY <1>0, <2>1, <2>2, <2>3, BusyStep DEF Busy, BeforeHook
<1>7. ASSUME NEW s \in Sessions, HookClose(s) PROVE CloseInv'
  <2>1. /\ phase[s] = "hookClose" /\ UNCHANGED <<registry, closer, reports>>
        /\ \/ phase' = [phase EXCEPT ![s] = "hookConn"] /\ UNCHANGED lock
           \/ /\ phase' = [phase EXCEPT ![s] = "aborted"]
              /\ lock' = IF closer[s] \in UnderLock THEN None ELSE lock
           \/ UNCHANGED <<phase, lock>>
    BY <1>7 DEF HookClose
  <2>2. CASE phase' = [phase EXCEPT ![s] = "hookConn"] /\ UNCHANGED lock
    BY <1>0, <2>1, <2>2, BusyStep DEF Busy, BeforeHook
  <2>3. CASE /\ phase' = [phase EXCEPT ![s] = "aborted"]
             /\ lock' = IF closer[s] \in UnderLock THEN None ELSE lock
    BY <1>0, <2>1, <2>3, OverStep DEF Busy, Over
  <2>4. CASE UNCHANGED <<phase, lock>>
    BY <1>0, <2>1, <2>4, CloseFrame
  <2> QED
    BY <2>1, <2>2, <2>3, <2>4
<1>8. ASSUME NEW s \in Sessions, HookConn(s) PROVE CloseInv'
  BY <1>0, <1>8, BusyStep DEF HookConn, Busy, BeforeHook
<1>9. ASSUME NEW s \in Sessions, HookRelease(s) PROVE CloseInv'
  BY <1>0, <1>9, BusyStep DEF HookRelease, Busy, BeforeHook
<1>10. ASSUME NEW s \in Sessions, CloseChannels(s) PROVE CloseInv'
  <2>1. /\ phase[s] = "hooked" /\ phase' = [phase EXCEPT ![s] = "closed"]
        /\ lock' = IF closer[s] \in UnderLock THEN None ELSE lock
        /\ \/ registry' = registry
           \/ closer[s] \in UnderLock /\ registry' = registry \ {s}
        /\ UNCHANGED <<closer, reports>>
    BY <1>10 DEF CloseChannels
  <2> QED
    BY <1>0, <2>1, OverStep DEF Busy, Over
<1>11. ASSUME NEW s \in Sessions, Allocating(s) PROVE CloseInv'
  BY <1>0, <1>11, CloseFrame DEF Allocating, AllocGet, AllocAcquire, AllocListen, AllocHook
<1>12. ASSUME NEW s \in Sessions, Runner(s) PROVE CloseInv'
  BY <1>0, <1>12, CloseFrame DEF Runner, RunnerWakes, RunnerCloses, RunnerConn
<1>13. ASSUME NEW s \in Sessions, Reader(s) PROVE CloseInv'
  BY <1>0, <1>13, CloseFrame DEF Reader, ReaderReads, ReaderEnds, ReaderSends, ReaderTo
<1>14. ASSUME NEW s \in Sessions, Provider(s) PROVE CloseInv'
  <2>1. CASE ProviderExits(s)
    BY <1>0, <2>1, RemoveCloses DEF ProviderExits, UnderLock
  <2>2. CASE ~ ProviderExits(s)
    BY <1>0, <1>14, <2>2, CloseFrame DEF Provider, ProviderReads, ProviderLeaves,
       ProviderSends, ProviderEmits, ProviderFlushes
  <2> QED
    BY <2>1, <2>2
<1>15. CASE UNCHANGED vars
  BY <1>0, <1>15, CloseFrame DEF vars
<1> QED
  BY <1>1, <1>2, <1>3, <1>4, <1>5, <1>6, <1>7, <1>8, <1>9, <1>10, <1>11, <1>12, <1>13,
     <1>14, <1>15 DEF Next, Closing

\* Session.Close with its four callers, for any number of sessions: the
\* consumption of a call is reported at most once, and the registry is locked by
\* nobody but the Close that runs under it.
THEOREM CloseIsOnce == Spec => []ClosedOnce
BY CloseInit, CloseStep, CloseImplies, PTL DEF Spec

-----------------------------------------------------------------------------
(* PortsAccounted.  What makes it inductive: a hook that names a port names *)
(* the one its session's request acquired, and that request is over.        *)

HookedPort ==
    \A s \in Sessions : hook[s] \in PortSet => alloc[s] = "done" /\ hook[s] = port[s]

PortInv == TypeInv /\ HookedPort /\ PortsAccounted

LEMMA PortInit == Init => PortInv
<1> SUFFICES ASSUME Init PROVE PortInv
  OBVIOUS
<1>1. HookedPort
  BY ConstantsAssumption DEF Init, HookedPort
<1>2. \A s \in Sessions : Owned(s) = {}
  BY ConstantsAssumption DEF Init, Owned
<1>3. IsInjective(free) /\ Range(free) = PortSet /\ in_use = {}
  BY ConstantsAssumption DEF Init, PortSet
<1> QED
  BY <1>1, <1>2, <1>3, TypeInit DEF PortInv, PortsAccounted

LEMMA PortTypes ==
    ASSUME TypeInv
    PROVE  /\ phase \in [Sessions -> {"none", "open"} \cup Busy \cup Over]
           /\ hook \in [Sessions -> PortSet \cup {None, Usage}]
           /\ alloc \in [Sessions -> {"idle", "got", "acquired", "listening", "done"}]
           /\ port \in [Sessions -> PortSet \cup {None}]
           /\ free \in Seq(PortSet) /\ in_use \in SUBSET PortSet
BY DEF TypeInv, TypeOK

\* While the pool is left alone, nobody may answer for more ports than before.
LEMMA OwnersShrink ==
    ASSUME PortInv, TypeInv', HookedPort', UNCHANGED poolVars,
           \A s \in Sessions : Owned(s)' \subseteq Owned(s)
    PROVE  PortInv'
BY DEF PortInv, PortsAccounted, poolVars

\* Nothing but a session's phase moves, and a hook that has run stays run.
LEMMA PhaseStep ==
    ASSUME PortInv, TypeInv', UNCHANGED <<alloc, port, hook>>, UNCHANGED poolVars,
           \A s \in Sessions : phase[s] \in {"hooked", "closed"}
                                => phase'[s] \in {"hooked", "closed"}
    PROVE  PortInv'
<1>1. HookedPort'
  BY DEF PortInv, HookedPort
<1>2. \A s \in Sessions : Owned(s)' \subseteq Owned(s)
  BY DEF Owned
<1> QED
  BY <1>1, <1>2, OwnersShrink

LEMMA BeginClosePhase ==
    ASSUME TypeInv, NEW s \in Sessions, NEW who, BeginClose(s, who)
    PROVE  \A t \in Sessions : phase[t] \in {"hooked", "closed"} => phase'[t] = phase[t]
BY PortTypes DEF BeginClose

LEMMA RemovePhase ==
    ASSUME TypeInv, NEW s \in Sessions, NEW who, Remove(s, who)
    PROVE  \A t \in Sessions : phase[t] \in {"hooked", "closed"} => phase'[t] = phase[t]
BY BeginClosePhase DEF Remove

\* Pool.Release of a port that is in use.
LEMMA ReleaseAccounts ==
    ASSUME PortInv, NEW p \in in_use, Release(p)
    PROVE  /\ IsInjective(free')
           /\ Range(free') \cap in_use' = {} /\ Range(free') \cup in_use' = PortSet
           /\ in_use' = in_use \ {p}
<1>1. /\ free \in Seq(PortSet) /\ in_use \subseteq PortSet /\ IsInjective(free)
      /\ Range(free) \cap in_use = {} /\ Range(free) \cup in_use = PortSet
  BY PortTypes DEF PortInv, PortsAccounted
<1>2. in_use' = in_use \ {p} /\ free' = Append(free, p)
  BY DEF Release
<1>3. IsInjective(free') /\ Range(free') = Range(free) \cup {p}
  BY <1>1, <1>2, AppendToInjective
<1> QED
  BY <1>1, <1>2, <1>3

\* Pool.Acquire.
LEMMA AcquireAccounts ==
    ASSUME PortInv, free # <<>>, Acquire
    PROVE  /\ IsInjective(free')
           /\ Range(free') \cap in_use' = {} /\ Range(free') \cup in_use' = PortSet
           /\ in_use' = in_use \cup {Head(free)}
           /\ Head(free) \in PortSet \ in_use
<1>1. /\ free \in Seq(PortSet) /\ in_use \subseteq PortSet /\ IsInjective(free)
      /\ Range(free) \cap in_use = {} /\ Range(free) \cup in_use = PortSet
  BY PortTypes DEF PortInv, PortsAccounted
<1>2. in_use' = in_use \cup {Head(free)} /\ free' = Tail(free)
  BY DEF Acquire
<1>3. /\ Head(free) \in PortSet /\ Head(free) \in Range(free)
      /\ IsInjective(free') /\ Range(free') = Range(free) \ {Head(free)}
  BY <1>1, <1>2, TailOfInjective
<1> QED
  BY <1>1, <1>2, <1>3

LEMMA PortStep == PortInv /\ [Next]_vars => PortInv'
<1> SUFFICES ASSUME PortInv, [Next]_vars PROVE PortInv'
  OBVIOUS
<1>0. TypeInv /\ TypeInv' /\ HookedPort /\ PortsAccounted
  BY TypeStep DEF PortInv
<1> USE DEF sessVars, lisVars, rtpVars
<1>1. ASSUME NEW s \in Sessions, CreateSession(s) PROVE PortInv'
  <2>1. /\ phase[s] = "none" /\ phase' = [phase EXCEPT ![s] = "open"]
        /\ UNCHANGED <<alloc, port, poolVars>>
    BY <1>1 DEF CreateSession
  <2>2. /\ hook'[s] \notin PortSet
        /\ \A t \in Sessions \ {s} : hook'[t] = hook[t] /\ phase'[t] = phase[t]
    BY <1>0, <1>1, PortTypes, ConstantsAssumption DEF CreateSession
  <2>3. HookedPort'
    BY <1>0, <2>1, <2>2 DEF HookedPort
  <2>4. \A t \in Sessions : Owned(t)' \subseteq Owned(t)
    BY <2>1, <2>2 DEF Owned
  <2> QED
    BY <1>0, <2>1, <2>3, <2>4, OwnersShrink
<1>2. ASSUME NEW s \in Sessions, EndSession(s) PROVE PortInv'
  BY <1>0, <1>2, RemovePhase, PhaseStep DEF EndSession
<1>3. ASSUME NEW s \in Sessions, Collect(s) PROVE PortInv'
  BY <1>0, <1>3, RemovePhase, PhaseStep DEF Collect
<1>4. ASSUME NEW s \in Sessions, ClientStop(s) PROVE PortInv'
  BY <1>0, <1>4, BeginClosePhase, PhaseStep DEF ClientStop
<1>5. ASSUME NEW s \in Sessions, Cancel(s) PROVE PortInv'
  BY <1>0, <1>5, PortTypes, PhaseStep DEF Cancel
<1>6. ASSUME NEW s \in Sessions, RunHook(s) PROVE PortInv'
  BY <1>0, <1>6, PortTypes, PhaseStep DEF RunHook
<1>7. ASSUME NEW s \in Sessions, HookClose(s) PROVE PortInv'
  BY <1>0, <1>7, PortTypes, PhaseStep DEF HookClose
<1>8. ASSUME NEW s \in Sessions, HookConn(s) PROVE PortInv'
  BY <1>0, <1>8, PortTypes, PhaseStep DEF HookConn
<1>9. ASSUME NEW s \in Sessions, HookRelease(s) PROVE PortInv'
  <2>1. /\ phase[s] = "release" /\ phase' = [phase EXCEPT ![s] = "hooked"]
        /\ Release(hook[s]) /\ UNCHANGED <<alloc, port, hook>>
    BY <1>9 DEF HookRelease
  <2>2. /\ phase'[s] = "hooked" /\ \A t \in Sessions \ {s} : phase'[t] = phase[t]
        /\ in_use \subseteq PortSet
    BY <1>0, <2>1, PortTypes
  <2>3. CASE hook[s] \in PortSet
    <3>1. alloc[s] = "done" /\ port[s] = hook[s] /\ Owned(s) = {hook[s]}
      BY <1>0, <2>1, <2>3 DEF HookedPort, Owned
    <3>2. hook[s] \in in_use
      BY <1>0, <3>1 DEF PortsAccounted
    <3>3. Owned(s)' = {} /\ \A t \in Sessions \ {s} : Owned(t)' = Owned(t)
      BY <2>1, <2>2, <3>1 DEF Owned
    <3>4. \A t \in Sessions \ {s} : Owned(t) \subseteq in_use \ {hook[s]}
      BY <1>0, <3>1 DEF PortsAccounted
    <3>5. HookedPort'
      BY <1>0, <2>1 DEF HookedPort
    <3>6. \A t, u \in Sessions : t # u => Owned(t)' \cap Owned(u)' = {}
      BY <1>0, <3>3 DEF PortsAccounted
    <3>7. PortsAccounted'
      BY <2>1, <3>2, <3>3, <3>4, <3>6, ReleaseAccounts DEF PortsAccounted
    <3> QED
      BY <1>0, <3>5, <3>7 DEF PortInv
  <2>4. CASE hook[s] \notin PortSet
    BY <1>0, <2>1, <2>2, <2>4, PhaseStep DEF Release
  <2> QED
    BY <2>3, <2>4
<1>10. ASSUME NEW s \in Sessions, CloseChannels(s) PROVE PortInv'
  BY <1>0, <1>10, PortTypes, PhaseStep DEF CloseChannels
<1>11. ASSUME NEW s \in Sessions, AllocGet(s) PROVE PortInv'
  <2>1. /\ alloc[s] = "idle" /\ alloc' = [alloc EXCEPT ![s] = "got"]
        /\ UNCHANGED <<phase, hook, port, poolVars>>
    BY <1>11 DEF AllocGet
  <2>2. alloc'[s] = "got" /\ \A t \in Sessions \ {s} : alloc'[t] = alloc[t]
    BY <1>0, <2>1, PortTypes
  <2>3. HookedPort' /\ \A t \in Sessions : Owned(t)' \subseteq Owned(t)
    BY <1>0, <2>1, <2>2 DEF HookedPort, Owned
  <2> QED
    BY <1>0, <2>1, <2>3, OwnersShrink
<1>12. ASSUME NEW s \in Sessions, AllocAcquire(s) PROVE PortInv'
  <2>1. alloc[s] = "got" /\ UNCHANGED <<phase, hook>> /\ hook[s] \notin PortSet
    BY <1>0, <1>12 DEF AllocAcquire, HookedPort
  <2>2. CASE free = <<>>
    <3>1. alloc' = [alloc EXCEPT ![s] = "done"] /\ UNCHANGED <<port, poolVars>>
      BY <1>12, <2>2 DEF AllocAcquire
    <3>2. alloc'[s] = "done" /\ \A t \in Sessions \ {s} : alloc'[t] = alloc[t]
      BY <1>0, <3>1, PortTypes
    <3>3. HookedPort' /\ \A t \in Sessions : Owned(t)' \subseteq Owned(t)
      BY <1>0, <2>1, <3>1, <3>2 DEF HookedPort, Owned
    <3> QED
      BY <1>0, <3>1, <3>3, OwnersShrink
  <2>3. CASE free # <<>>
    <3> DEFINE p == Head(free)
    <3>1. /\ Acquire /\ alloc' = [alloc EXCEPT ![s] = "acquired"]
          /\ port' = [port EXCEPT ![s] = p]
      BY <1>12, <2>3 DEF AllocAcquire
    <3>2. /\ alloc'[s] = "acquired" /\ port'[s] = p
          /\ \A t \in Sessions \ {s} : alloc'[t] = alloc[t] /\ port'[t] = port[t]
      BY <1>0, <3>1, PortTypes
    <3>3. Owned(s)' = {p} /\ \A t \in Sessions \ {s} : Owned(t)' = Owned(t)
      BY <2>1, <3>2 DEF Owned
    <3>4. /\ IsInjective(free')
          /\ Range(free') \cap in_use' = {} /\ Range(free') \cup in_use' = PortSet
          /\ in_use' = in_use \cup {p} /\ p \notin in_use
      BY <2>3, <3>1, AcquireAccounts
    <3> HIDE DEF p
    <3>5. \A t \in Sessions : Owned(t) \subseteq in_use
      BY <1>0 DEF PortsAccounted
    <3>6. \A t, u \in Sessions : t # u => Owned(t)' \cap Owned(u)' = {}
      BY <1>0, <3>3, <3>4, <3>5 DEF PortsAccounted
    <3>7. PortsAccounted'
      BY <3>3, <3>4, <3>5, <3>6 DEF PortsAccounted
    <3>8. HookedPort'
      BY <1>0, <2>1, <3>2 DEF HookedPort
    <3> QED
      BY <1>0, <3>7, <3>8 DEF PortInv
  <2> QED
    BY <2>2, <2>3
<1>13. ASSUME NEW s \in Sessions, AllocListen(s) PROVE PortInv'
  <2>1. /\ alloc[s] = "acquired" /\ UNCHANGED <<phase, hook>> /\ hook[s] \notin PortSet
        /\ Owned(s) = {port[s]}
    BY <1>0, <1>13 DEF AllocListen, HookedPort, Owned
  <2>2. CASE Bound(port[s])
    <3>1. /\ Release(port[s]) /\ port' = [port EXCEPT ![s] = None]
          /\ alloc' = [alloc EXCEPT ![s] = "done"]
      BY <1>13, <2>2 DEF AllocListen
    <3>2. /\ alloc'[s] = "done"
          /\ \A t \in Sessions \ {s} : alloc'[t] = alloc[t] /\ port'[t] = port[t]
      BY <1>0, <3>1, PortTypes
    <3>3. Owned(s)' = {} /\ \A t \in Sessions \ {s} : Owned(t)' = Owned(t)
      BY <2>1, <3>2 DEF Owned
    <3>4. /\ port[s] \in in_use
          /\ \A t \in Sessions \ {s} : Owned(t) \subseteq in_use \ {port[s]}
      BY <1>0, <2>1 DEF PortsAccounted
    <3>5. \A t, u \in Sessions : t # u => Owned(t)' \cap Owned(u)' = {}
      BY <1>0, <3>3 DEF PortsAccounted
    <3>6. PortsAccounted'
      BY <3>1, <3>3, <3>4, <3>5, ReleaseAccounts DEF PortsAccounted
    <3>7. HookedPort'
      BY <1>0, <2>1, <3>2 DEF HookedPort
    <3> QED
      BY <1>0, <3>6, <3>7 DEF PortInv
  <2>3. CASE ~ Bound(port[s])
    <3>1. alloc' = [alloc EXCEPT ![s] = "listening"] /\ UNCHANGED <<port, poolVars>>
      BY <1>13, <2>3 DEF AllocListen
    <3>2. alloc'[s] = "listening" /\ \A t \in Sessions \ {s} : alloc'[t] = alloc[t]
      BY <1>0, <3>1, PortTypes
    <3>3. HookedPort' /\ \A t \in Sessions : Owned(t)' \subseteq Owned(t)
      BY <1>0, <2>1, <3>1, <3>2 DEF HookedPort, Owned
    <3> QED
      BY <1>0, <3>1, <3>3, OwnersShrink
  <2> QED
    BY <2>2, <2>3
<1>14. ASSUME NEW s \in Sessions, AllocHook(s) PROVE PortInv'
  <2>1. /\ alloc[s] = "listening" /\ hook' = [hook EXCEPT ![s] = port[s]]
        /\ alloc' = [alloc EXCEPT ![s] = "done"] /\ UNCHANGED <<phase, port, poolVars>>
    BY <1>14 DEF AllocHook
  <2>2. /\ alloc'[s] = "done" /\ hook'[s] = port[s]
        /\ \A t \in Sessions \ {s} : alloc'[t] = alloc[t] /\ hook'[t] = hook[t]
    BY <1>0, <2>1, PortTypes
  <2>3. HookedPort' /\ \A t \in Sessions : Owned(t)' \subseteq Owned(t)
    BY <1>0, <2>1, <2>2 DEF HookedPort, Owned
  <2> QED
    BY <1>0, <2>1, <2>3, OwnersShrink
<1>15. ASSUME NEW s \in Sessions, Runner(s) PROVE PortInv'
  BY <1>0, <1>15, PhaseStep DEF Runner, RunnerWakes, RunnerCloses, RunnerConn
<1>16. ASSUME NEW s \in Sessions, Reader(s) PROVE PortInv'
  BY <1>0, <1>16, PhaseStep DEF Reader, ReaderReads, ReaderEnds, ReaderSends, ReaderTo
<1>17. ASSUME NEW s \in Sessions, Provider(s) PROVE PortInv'
  <2>1. CASE ProviderExits(s)
    BY <1>0, <2>1, RemovePhase, PhaseStep DEF ProviderExits, ProviderTo
  <2>2. CASE ~ ProviderExits(s)
    BY <1>0, <1>17, <2>2, PhaseStep DEF Provider, ProviderReads, ProviderLeaves,
       ProviderSends, ProviderEmits, ProviderFlushes, ProviderTo
  <2> QED
    BY <2>1, <2>2
<1>18. CASE UNCHANGED vars
  BY <1>0, <1>18, PhaseStep DEF vars, poolVars
<1> QED
  BY <1>1, <1>2, <1>3, <1>4, <1>5, <1>6, <1>7, <1>8, <1>9, <1>10, <1>11, <1>12, <1>13,
     <1>14, <1>15, <1>16, <1>17, <1>18 DEF Next, Closing, Allocating

\* The RTP port pool against the requests and hooks that use it, for any range of
\* ports and any number of sessions: every port is free or in use, and a port
\* that somebody still answers for is in use and nobody else's.
THEOREM PortsAreAccounted == Spec => []PortsAccounted
<1>1. PortInv => PortsAccounted
  BY DEF PortInv
<1> QED
  BY <1>1, PortInit, PortStep, PTL DEF Spec
=============================================================================
