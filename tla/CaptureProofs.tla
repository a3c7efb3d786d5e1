--------------------------- MODULE CaptureProofs ---------------------------
(***************************************************************************)
(* Proofs about Capture and AddrValidate: the crash protection of the      *)
(* unwinder, the frames of a record and the search of the executable       *)
(* ranges, for any number of threads, ranges and frames.                   *)
(***************************************************************************)
EXTENDS Capture, FiniteSetTheorems, TLAPS

-----------------------------------------------------------------------------
(* The inductive invariant.                                                *)

Held == {"arm", "walk", "disarm", "restore", "unlock"}
Protected == {"arm", "walk", "disarm", "restore"}

CallType ==
  [pc : {"idle", "lock", "raw", "fp", "lookup", "done"} \cup Held,
   via : {"none", "lib", "safe"}, old : {"none", "app0", "app1", "tool", "default"},
   n : Nat, written : Nat, frames : Nat, crashed : BOOLEAN]

CaptureTypes ==
  /\ mode \in Modes
  /\ mutex \in Readers \cup {"none"} /\ action \in {"app0", "app1", "tool", "default"}
  /\ flag \in BOOLEAN /\ safe \in Nat /\ call \in [Readers -> CallType]
  /\ program \in {"app0", "app1"} /\ late \in BOOLEAN
  /\ \A t \in Readers : call[t].pc \in Held => call[t].old # "none"

\* The thread between Lock and Unlock is the holder of the mutex.
HolderInv == \A t \in Readers : call[t].pc \in Held => mutex = t

\* While it unwinds the tool's handler is installed and would jump back to it,
\* unless the program has taken the handler away; what it will restore is the
\* program's action.
ArmedInv == \A t \in Readers :
  /\ call[t].pc \in Protected => (action = "tool" \/ late) /\ (call[t].old = program \/ late)
  /\ call[t].pc = "walk" => flag /\ jmp = t
  /\ call[t].pc = "unlock" => action = program \/ late

ActionInv ==
  /\ mutex = "none" => action = program \/ late
  /\ late => program = "app1"

\* What a capture has counted, it has written; so has what a crash will count.
FramesInv == \A t \in Readers :
  /\ call[t].frames <= call[t].written
  /\ call[t].pc \in {"disarm", "restore", "unlock"} => call[t].n <= call[t].written
  /\ call[t].pc \in {"lock", "arm"} => call[t].n = 0
  /\ call[t].pc \in {"idle", "lock", "raw"} \cup Held => call[t].frames = 0
  /\ call[t].pc = "walk" /\ Stepwise(t) => safe <= call[t].written
                                          /\ call[t].n <= call[t].written

\* While the process runs.
UnwindInv == process.end = "up" => HolderInv /\ ArmedInv /\ ActionInv

CaptureInv == CaptureTypes /\ UnwindInv /\ FramesInv /\ WalkSurvives

-----------------------------------------------------------------------------
(* Types.                                                                  *)

\* A step of the tool on thread t.
ThreadStep(t) ==
  Enter(t) \/ Reenter(t) \/ CaptureStep(t) \/ AskRanges(t) \/ Fault(t)

\* The fallback of mtt_capture_stack keeps what the record has and forgets how
\* many frames libunwind had found.
LEMMA FallbackType ==
  ASSUME NEW c \in CallType, NEW off, mode.bt \in BOOLEAN
  PROVE  /\ Fallback(c, off) \in CallType
         /\ Fallback(c, off).pc \in {"fp", "lock", "raw"} /\ Fallback(c, off).n = 0
         /\ Fallback(c, off).written = c.written /\ Fallback(c, off).frames = c.frames
         /\ Fallback(c, off).via \in {"none", "safe"}
  BY DEF Fallback, CallType

\* A thread outside mtt_capture_stack.
LEMMA NoCallType == NoCall \in CallType
  BY DEF NoCall, CallType

\* The frames that FpTake writes.
LEMMA MaxOfTwo ==
  ASSUME NEW x \in Nat, NEW y \in Nat
  PROVE  Max({x, y}) \in Nat /\ Max({x, y}) >= x /\ Max({x, y}) >= y
  <1> DEFINE P(m) == m \in {x, y} /\ \A z \in {x, y} : m >= z
  <1>1. \E m : P(m)
    <2>1. CASE x >= y BY <2>1
    <2>2. CASE y >= x BY <2>2
    <2> QED BY <2>1, <2>2
  <1>2. P(CHOOSE m : P(m)) BY <1>1
  <1>3. Max({x, y}) = CHOOSE m \in {x, y} : \A z \in {x, y} : m >= z BY DEF Max
  <1>4. P(Max({x, y})) BY <1>1, <1>3
  <1> QED BY <1>4

\* What a step does to the call of its thread, to the holder of the mutex and
\* to the saved action.
LEMMA TypesStep ==
  ASSUME CaptureTypes, CaptureNext
  PROVE  CaptureTypes'
  <1>m. /\ mode.bt \in BOOLEAN /\ mode.threads \subseteq Readers
        /\ mode.lib \in {"static", "dlopen", "none"}
    BY CaptureConstants DEF CaptureTypes
  <1>1. ASSUME NEW t \in Readers, ThreadStep(t) PROVE CaptureTypes'
    <2>0. call[t] \in CallType /\ (call[t].pc \in Held => call[t].old # "none")
      BY DEF CaptureTypes
    <2>c. ASSUME NEW d \in CallType, call' = [call EXCEPT ![t] = d],
                 d.pc \in Held => d.old # "none"
          PROVE  /\ call' \in [Readers -> CallType]
                 /\ \A u \in Readers : call'[u].pc \in Held => call'[u].old # "none"
      BY <2>c DEF CaptureTypes
    <2> USE DEF CaptureTypes
    <2>1. CASE Enter(t)
      <3>1. /\ Fallback(NoCall, t \in disabled) \in CallType
            /\ Fallback(NoCall, t \in disabled).pc \notin Held
        BY <1>m, NoCallType, FallbackType DEF Held
      <3>2. /\ [NoCall EXCEPT !.pc = "lock", !.via = "lib"] \in CallType
            /\ [NoCall EXCEPT !.pc = "lock", !.via = "lib"].pc \notin Held
        BY DEF NoCall, CallType, Held
      <3> QED BY <2>1, <2>c, <3>1, <3>2 DEF Enter
    <2>2. CASE Reenter(t) \/ AskRanges(t)
      BY <2>2 DEF Reenter, AskRanges, unwindVars
    <2>3. ASSUME NEW j \in 0 .. Depth, RawReturns(t, j) PROVE CaptureTypes'
      <3>1. j \in Nat BY CaptureConstants
      <3> DEFINE d == [call[t] EXCEPT !.pc = IF j = 0 THEN "fp" ELSE "done",
                                      !.written = j, !.frames = j]
      <3>2. d \in CallType /\ d.pc \notin Held BY <2>0, <3>1 DEF CallType, Held
      <3>3. call' = [call EXCEPT ![t] = d] BY <2>3 DEF RawReturns
      <3> HIDE DEF d
      <3> QED BY <2>3, <2>c, <3>2, <3>3 DEF RawReturns
    <2>4. ASSUME NEW j \in 0 .. Depth, WalkReturns(t, j) PROVE CaptureTypes'
      <3>1. j \in Nat BY CaptureConstants
      <3> DEFINE d == [call[t] EXCEPT !.pc = "disarm", !.n = j, !.written = j]
      <3>2. d \in CallType /\ d.old = call[t].old BY <2>0, <3>1 DEF CallType, Held
      <3>3. call' = [call EXCEPT ![t] = d] /\ call[t].pc \in Held
        BY <2>4 DEF WalkReturns, Held
      <3> HIDE DEF d
      <3> QED BY <2>0, <2>4, <2>c, <3>2, <3>3 DEF WalkReturns
    <2>5. CASE Lock(t) BY <2>0, <2>5 DEF Lock, CallType, Held
    <2>6. CASE Arm(t) BY <2>0, <2>6 DEF Arm, Goto, CallType, Held
    <2>7. CASE UnwStep(t) BY <2>0, <2>7 DEF UnwStep, CallType, Held
    <2>8. CASE Disarm(t) BY <2>0, <2>8 DEF Disarm, Goto, CallType, Held
    <2>9. CASE Restore(t)
      <3>1. call[t].old \in {"app0", "app1", "tool", "default"}
        BY <2>0, <2>9 DEF CallType, Restore, Held
      <3> QED BY <2>0, <2>9, <3>1 DEF Restore, Goto, CallType, Held
    <2>10. CASE Unlock(t)
      <3> DEFINE c == call[t]
                 off == t \in disabled \/ (c.via = "lib" /\ c.crashed)
                 d == IF c.via = "lib" /\ c.n < 2 THEN Fallback(c, off)
                      ELSE [c EXCEPT !.pc = IF c.n = 0 THEN "fp" ELSE "done", !.frames = c.n]
      <3>1. Fallback(c, off) \in CallType /\ Fallback(c, off).pc \notin Held
        BY <1>m, <2>0, FallbackType DEF Held
      <3>2. d \in CallType /\ d.pc \notin Held
        <4>1. CASE c.via = "lib" /\ c.n < 2 BY <3>1, <4>1
        <4>2. CASE ~(c.via = "lib" /\ c.n < 2) BY <2>0, <4>2 DEF CallType, Held
        <4> QED BY <4>1, <4>2
      <3>3. call' = [call EXCEPT ![t] = d] BY <2>10 DEF Unlock
      <3> HIDE DEF d
      <3> QED BY <2>10, <2>c, <3>2, <3>3 DEF Unlock
    <2>11. CASE Done(t) BY <2>11, <2>c, NoCallType DEF Done, NoCall, Held
    <2>12. ASSUME NEW lr \in Addrs, FpRead(t, lr) PROVE CaptureTypes'
      BY <2>0, <2>12 DEF FpRead, Goto, CallType, Held
    <2>13. CASE FpEnd(t) BY <2>0, <2>13 DEF FpEnd, Goto, CallType, Held
    <2>14. ASSUME NEW up \in BOOLEAN, FpTake(t, up) PROVE CaptureTypes'
      <3> DEFINE w == Max({call[t].written, call[t].frames + 1})
      <3>1. w \in Nat BY <2>0, MaxOfTwo DEF CallType
      <3> HIDE DEF w
      <3>2. call' = IF reader[t].found /\ up
                    THEN [call EXCEPT ![t].pc = "fp", ![t].frames = @ + 1, ![t].written = w]
                    ELSE [call EXCEPT ![t].pc = "done"]
        BY <2>14 DEF FpTake, w
      <3> QED BY <2>0, <2>14, <3>1, <3>2 DEF FpTake, CallType, Held
    <2>15. CASE Fault(t)
      <3>1. CASE Handle(t)
        <4>1. CASE Land(t)
          BY <2>0, <2>15, <3>1, <4>1 DEF Fault, Handle, Land, CallType, Held
        <4>2. CASE UNCHANGED call BY <2>15, <3>1, <4>2 DEF Fault, Handle
        <4> QED BY <3>1, <4>1, <4>2 DEF Handle
      <3>2. CASE Unhandled(t) BY <2>15, <3>2 DEF Fault, Unhandled
      <3> QED BY <2>15, <3>1, <3>2 DEF Fault
    <2> QED BY <1>1, <2>1, <2>2, <2>3, <2>4, <2>5, <2>6, <2>7, <2>8, <2>9, <2>10, <2>11,
               <2>12, <2>13, <2>14, <2>15 DEF ThreadStep, CaptureStep
  <1>2. CASE SetAction BY <1>2 DEF SetAction, CaptureTypes
  <1>3. CASE Refresh BY <1>3 DEF Refresh, unwindVars, CaptureTypes
  <1> QED BY <1>m, <1>1, <1>2, <1>3 DEF CaptureNext, ThreadStep

-----------------------------------------------------------------------------
(* The crash protection.                                                   *)

\* A step of thread t leaves the calls of the others alone.
LEMMA OthersKept ==
  ASSUME CaptureTypes, NEW t \in Readers, ThreadStep(t)
  PROVE  \A u \in Readers : u # t => call'[u] = call[u]
  BY DEF CaptureTypes, ThreadStep, CaptureStep, Enter, Reenter, AskRanges, Fault, RawReturns,
         WalkReturns, Lock, Arm, UnwStep, Disarm, Restore, Unlock, Done, FpRead, FpEnd, FpTake,
         Goto, Handle, Land, Unhandled, unwindVars

\* Steps outside the mutex: the thread is not between Lock and Unlock before and
\* after them, and they touch nothing that the protection is made of.
LEMMA OutsideStep ==
  ASSUME CaptureTypes, HolderInv /\ ArmedInv /\ ActionInv, NEW t \in Readers, ThreadStep(t),
         call'[t].pc \notin Held, UNCHANGED <<mutex, action, flag, jmp, program, late>>
  PROVE  (HolderInv /\ ArmedInv /\ ActionInv)'
  <1>1. \A u \in Readers : u # t => call'[u] = call[u] BY OthersKept
  <1>2. \A u \in Readers : call'[u].pc \in Held => u # t BY <1>1
  <1>3. Protected \subseteq Held /\ "walk" \in Held /\ "unlock" \in Held
    BY DEF Protected, Held
  <1> QED BY <1>1, <1>2, <1>3 DEF HolderInv, ArmedInv, ActionInv

\* What an installed handler, the flag and the saved context promise is kept by
\* every step: at most one thread is under the protection, and the program's own
\* action is either in place or what that thread will restore.
LEMMA UnwindStep ==
  ASSUME CaptureTypes, UnwindInv, CaptureNext
  PROVE  UnwindInv'
  <1>i. HolderInv /\ ArmedInv /\ ActionInv BY DEF UnwindInv, CaptureNext
  <1>n. "none" \notin Readers BY CaptureConstants
  <1>m. mode.bt \in BOOLEAN /\ mode.threads \subseteq Readers
    BY CaptureConstants DEF CaptureTypes
  <1>1. ASSUME NEW t \in Readers, ThreadStep(t) PROVE UnwindInv'
    <2>0. call[t] \in CallType BY DEF CaptureTypes
    <2>o. \A u \in Readers : u # t => call'[u] = call[u] BY <1>1, OthersKept
    <2>w. ASSUME (HolderInv /\ ArmedInv /\ ActionInv)' PROVE UnwindInv'
      BY <2>w DEF UnwindInv
    <2>1. CASE Enter(t)
      <3>1. Fallback(NoCall, t \in disabled).pc \notin Held
        BY <1>m, NoCallType, FallbackType DEF Held
      <3>2. call'[t].pc \notin Held
        BY <2>1, <3>1 DEF Enter, NoCall, Held, CaptureTypes
      <3>3. UNCHANGED <<mutex, action, flag, jmp, program, late>> BY <2>1 DEF Enter
      <3> QED BY <1>i, <1>1, <2>w, <3>2, <3>3, OutsideStep
    <2>2. CASE Reenter(t) \/ AskRanges(t)
      BY <1>i, <2>2 DEF Reenter, AskRanges, unwindVars, UnwindInv, HolderInv, ArmedInv, ActionInv
    <2>3. ASSUME NEW j \in 0 .. Depth, RawReturns(t, j) PROVE UnwindInv'
      <3>1. call'[t].pc \notin Held BY <2>0, <2>3 DEF RawReturns, CallType, Held, CaptureTypes
      <3>2. UNCHANGED <<mutex, action, flag, jmp, program, late>> BY <2>3 DEF RawReturns
      <3> QED BY <1>i, <1>1, <2>w, <3>1, <3>2, OutsideStep
    <2>4. ASSUME NEW j \in 0 .. Depth, WalkReturns(t, j) PROVE UnwindInv'
      <3>1. /\ call[t].pc = "walk" /\ call'[t].pc = "disarm" /\ call'[t].old = call[t].old
            /\ UNCHANGED <<mutex, action, flag, jmp, program, late>>
        BY <2>0, <2>4 DEF WalkReturns, CallType, CaptureTypes
      <3> QED BY <1>i, <2>o, <2>w, <3>1 DEF HolderInv, ArmedInv, ActionInv, Held, Protected
    <2>5. CASE Lock(t)
      <3>1. /\ mutex = "none" /\ mutex' = t /\ action' = "tool"
            /\ call'[t].pc = "arm" /\ call'[t].old = action
            /\ UNCHANGED <<flag, jmp, program, late>>
        BY <2>0, <2>5 DEF Lock, CallType, CaptureTypes
      <3> QED BY <1>i, <1>n, <2>o, <2>w, <3>1 DEF HolderInv, ArmedInv, ActionInv, Held, Protected
    <2>6. CASE Arm(t)
      <3>1. /\ call[t].pc = "arm" /\ call'[t].pc = "walk" /\ call'[t].old = call[t].old
            /\ flag' = TRUE /\ jmp' = t /\ UNCHANGED <<mutex, action, program, late>>
        BY <2>0, <2>6 DEF Arm, Goto, CallType, CaptureTypes
      <3> QED BY <1>i, <2>o, <2>w, <3>1 DEF HolderInv, ArmedInv, ActionInv, Held, Protected
    <2>7. CASE UnwStep(t)
      <3>1. /\ call[t].pc = "walk" /\ call'[t].pc = "walk" /\ call'[t].old = call[t].old
            /\ UNCHANGED <<mutex, action, flag, jmp, program, late>>
        BY <2>0, <2>7 DEF UnwStep, CallType, CaptureTypes
      <3> QED BY <1>i, <2>o, <2>w, <3>1 DEF HolderInv, ArmedInv, ActionInv, Held, Protected
    <2>8. CASE Disarm(t)
      <3>1. /\ call[t].pc = "disarm" /\ call'[t].pc = "restore" /\ call'[t].old = call[t].old
            /\ UNCHANGED <<mutex, action, jmp, program, late>>
        BY <2>0, <2>8 DEF Disarm, Goto, CallType, CaptureTypes
      <3>2. \A u \in Readers : u # t => call[u].pc \notin Held
        BY <1>i, <3>1 DEF HolderInv, Held
      <3> QED BY <1>i, <2>o, <2>w, <3>1, <3>2 DEF HolderInv, ArmedInv, ActionInv, Held, Protected
    <2>9. CASE Restore(t)
      <3>1. /\ call[t].pc = "restore" /\ call'[t].pc = "unlock" /\ action' = call[t].old
            /\ UNCHANGED <<mutex, flag, jmp, program, late>>
        BY <2>0, <2>9 DEF Restore, Goto, CallType, CaptureTypes
      <3>2. \A u \in Readers : u # t => call[u].pc \notin Held
        BY <1>i, <3>1 DEF HolderInv, Held
      <3>3. mutex = t BY <1>i, <3>1 DEF HolderInv, Held
      <3> QED BY <1>i, <1>n, <2>o, <2>w, <3>1, <3>2, <3>3
              DEF HolderInv, ArmedInv, ActionInv, Held, Protected
    <2>10. CASE Unlock(t)
      <3>1. /\ call[t].pc = "unlock" /\ mutex' = "none"
            /\ UNCHANGED <<action, flag, jmp, program, late>>
        BY <2>10 DEF Unlock
      <3>2. \A u \in Readers : u # t => call[u].pc \notin Held
        BY <1>i, <3>1 DEF HolderInv, Held
      <3>3. call'[t].pc \notin Held
        <4> DEFINE off == t \in disabled \/ (call[t].via = "lib" /\ call[t].crashed)
        <4>1. Fallback(call[t], off).pc \notin Held BY <1>m, <2>0, FallbackType DEF Held
        <4>2. \/ call'[t] = Fallback(call[t], off)
              \/ call'[t] = [call[t] EXCEPT !.pc = IF call[t].n = 0 THEN "fp" ELSE "done",
                                            !.frames = call[t].n]
          BY <2>10 DEF Unlock, CaptureTypes
        <4> HIDE DEF off
        <4> QED BY <2>0, <4>1, <4>2 DEF CallType, Held
      <3> QED BY <1>i, <2>o, <2>w, <3>1, <3>2, <3>3
              DEF HolderInv, ArmedInv, ActionInv, Held, Protected
    <2>11. CASE Done(t)
      <3>1. call'[t].pc \notin Held BY <2>11 DEF Done, NoCall, Held, CaptureTypes
      <3>2. UNCHANGED <<mutex, action, flag, jmp, program, late>> BY <2>11 DEF Done
      <3> QED BY <1>i, <1>1, <2>w, <3>1, <3>2, OutsideStep
    <2>12. ASSUME NEW lr \in Addrs, FpRead(t, lr) PROVE UnwindInv'
      <3>1. call'[t].pc \notin Held
        BY <2>0, <2>12 DEF FpRead, Goto, CallType, Held, CaptureTypes
      <3>2. UNCHANGED <<mutex, action, flag, jmp, program, late>> BY <2>12 DEF FpRead
      <3> QED BY <1>i, <1>1, <2>w, <3>1, <3>2, OutsideStep
    <2>13. CASE FpEnd(t)
      <3>1. call'[t].pc \notin Held
        BY <2>0, <2>13 DEF FpEnd, Goto, CallType, Held, CaptureTypes
      <3>2. UNCHANGED <<mutex, action, flag, jmp, program, late>> BY <2>13 DEF FpEnd
      <3> QED BY <1>i, <1>1, <2>w, <3>1, <3>2, OutsideStep
    <2>14. ASSUME NEW up \in BOOLEAN, FpTake(t, up) PROVE UnwindInv'
      <3>1. call'[t].pc \notin Held
        BY <2>0, <2>14 DEF FpTake, CallType, Held, CaptureTypes
      <3>2. UNCHANGED <<mutex, action, flag, jmp, program, late>> BY <2>14 DEF FpTake
      <3> QED BY <1>i, <1>1, <2>w, <3>1, <3>2, OutsideStep
    <2>15. CASE Fault(t)
      <3> SUFFICES ASSUME process'.end = "up" PROVE UnwindInv' BY DEF UnwindInv
      <3>1. /\ call[t].pc = "walk" /\ Land(t) /\ jmp = t
            /\ UNCHANGED <<mutex, action, jmp, program, late>>
        BY <2>15 DEF Fault, Handle, Unhandled
      <3>2. call'[t].pc = "disarm" /\ call'[t].old = call[t].old
        BY <2>0, <3>1 DEF Land, CallType, CaptureTypes
      <3>3. \A u \in Readers : u # t => call[u].pc \notin Held
        BY <1>i, <3>1 DEF HolderInv, Held
      <3> QED BY <1>i, <2>o, <2>w, <3>1, <3>2, <3>3
              DEF HolderInv, ArmedInv, ActionInv, Held, Protected
    <2> QED BY <1>1, <2>1, <2>2, <2>3, <2>4, <2>5, <2>6, <2>7, <2>8, <2>9, <2>10, <2>11,
               <2>12, <2>13, <2>14, <2>15 DEF ThreadStep, CaptureStep
  <1>2. CASE SetAction
    <2>1. \A u \in Readers : call[u].pc \in Protected => action = "tool"
      BY <1>i, <1>2 DEF SetAction, ArmedInv, ActionInv
    <2> QED BY <1>i, <1>2, <2>1
            DEF SetAction, UnwindInv, HolderInv, ArmedInv, ActionInv, CaptureTypes, Protected
  <1>3. CASE Refresh
    BY <1>i, <1>3 DEF Refresh, unwindVars, UnwindInv, HolderInv, ArmedInv, ActionInv
  <1> QED BY <1>m, <1>1, <1>2, <1>3 DEF CaptureNext, ThreadStep

\* The process ends by a fault in the unwinder only after the program took the
\* handler away: the thread is the one whose context is saved.
LEMMA SurvivesStep ==
  ASSUME CaptureTypes, UnwindInv, WalkSurvives, CaptureNext
  PROVE  WalkSurvives'
  <1>i. HolderInv /\ ArmedInv /\ ActionInv BY DEF UnwindInv, CaptureNext
  <1>m. mode.threads \subseteq Readers BY CaptureConstants DEF CaptureTypes
  <1>1. CASE UNCHANGED process
    BY <1>1 DEF CaptureNext, WalkSurvives
  <1>2. ASSUME NEW t \in Readers, Fault(t) PROVE WalkSurvives'
    <2>1. CASE call[t].pc = "walk"
      <3>1. flag /\ jmp = t /\ (action = "tool" \/ late)
        BY <1>i, <2>1 DEF ArmedInv, Protected
      <3>2. late \/ UNCHANGED process
        BY <1>2, <2>1, <3>1 DEF Fault, Handle, Unhandled
      <3> QED BY <1>1, <1>2, <3>2 DEF Fault, WalkSurvives
    <2>2. CASE call[t].pc # "walk"
      BY <1>2, <2>2 DEF Fault, Handle, Unhandled, WalkSurvives
    <2> QED BY <2>1, <2>2
  <1>3. ASSUME NEW t \in Readers, Enter(t) \/ Reenter(t) \/ CaptureStep(t) \/ AskRanges(t)
        PROVE  UNCHANGED process
    BY <1>3 DEF Enter, Reenter, CaptureStep, AskRanges, RawReturns, WalkReturns, Lock, Arm,
        UnwStep, Disarm, Restore, Unlock, Done, FpRead, FpEnd, FpTake, unwindVars
  <1>4. CASE SetAction \/ Refresh BY <1>1, <1>4 DEF SetAction, Refresh, unwindVars
  <1> QED BY <1>m, <1>1, <1>2, <1>3, <1>4 DEF CaptureNext

-----------------------------------------------------------------------------
(* The frames of a record.                                                 *)

\* FramesInv for one thread.
FramesOf(c, walking, upto) ==
  /\ c.frames <= c.written
  /\ c.pc \in {"disarm", "restore", "unlock"} => c.n <= c.written
  /\ c.pc \in {"lock", "arm"} => c.n = 0
  /\ c.pc \in {"idle", "lock", "raw"} \cup Held => c.frames = 0
  /\ c.pc = "walk" /\ walking => upto <= c.written /\ c.n <= c.written

\* The number of frames that a crash keeps is the count of the thread that
\* holds the mutex, which has reset it; no other thread writes it meanwhile.
LEMMA FramesStep ==
  ASSUME CaptureTypes, UnwindInv, FramesInv, CaptureNext
  PROVE  FramesInv'
  <1>i. HolderInv BY DEF UnwindInv, CaptureNext
  <1>m. /\ mode.bt \in BOOLEAN /\ mode.threads \subseteq Readers
        /\ mode.lib \in {"static", "dlopen", "none"}
    BY CaptureConstants DEF CaptureTypes
  <1>1. ASSUME NEW t \in Readers, ThreadStep(t) PROVE FramesInv'
    <2>0. call[t] \in CallType BY DEF CaptureTypes
    <2>o. \A u \in Readers : u # t => call'[u] = call[u] BY <1>1, OthersKept
    <2>d. mode' = mode
      BY <1>1 DEF ThreadStep, CaptureStep, Enter, Reenter, AskRanges, Fault, RawReturns,
         WalkReturns, Lock, Arm, UnwStep, Disarm, Restore, Unlock, Done, FpRead, FpEnd, FpTake,
         unwindVars
    <2>f. FramesOf(call[t], Stepwise(t), safe) BY DEF FramesInv, FramesOf
    <2>s. (safe' = safe \/ call[t].pc \in Held)
      BY <1>1 DEF ThreadStep, CaptureStep, Enter, Reenter, AskRanges, Fault, RawReturns,
         WalkReturns, Lock, Arm, UnwStep, Disarm, Restore, Unlock, Done, FpRead, FpEnd, FpTake,
         unwindVars, Held
    <2>w. ASSUME NEW d, call'[t] = d,
                 FramesOf(d, d.via = "lib" /\ mode.lib = "static", safe')
          PROVE  FramesInv'
      <3>1. ASSUME NEW u \in Readers, u # t, call'[u].pc = "walk" PROVE safe' = safe
        BY <1>i, <2>o, <2>s, <3>1 DEF HolderInv, Held
      <3>2. ASSUME NEW u \in Readers, u # t
            PROVE  FramesOf(call'[u], call'[u].via = "lib" /\ mode.lib = "static", safe')
        BY <2>o, <3>1, <3>2 DEF FramesInv, FramesOf, Stepwise
      <3>3. \A u \in Readers :
              FramesOf(call'[u], call'[u].via = "lib" /\ mode.lib = "static", safe')
        BY <2>w, <3>2
      <3> QED BY <2>d, <3>3 DEF FramesInv, FramesOf, Stepwise
    <2>1. CASE Enter(t)
      <3>1. /\ Fallback(NoCall, t \in disabled).n = 0
            /\ Fallback(NoCall, t \in disabled).frames = 0
            /\ Fallback(NoCall, t \in disabled).written = 0
            /\ Fallback(NoCall, t \in disabled).pc \in {"fp", "lock", "raw"}
        BY <1>m, NoCallType, FallbackType DEF NoCall
      <3>2. /\ call'[t].n = 0 /\ call'[t].frames = 0 /\ call'[t].written = 0
            /\ call'[t].pc \in {"fp", "lock", "raw"}
        BY <2>1, <3>1 DEF Enter, NoCall, CaptureTypes
      <3> QED BY <2>w, <3>2 DEF FramesOf
    <2>2. CASE Reenter(t) \/ AskRanges(t)
      BY <2>2 DEF Reenter, AskRanges, unwindVars, FramesInv, Stepwise
    <2>3. ASSUME NEW j \in 0 .. Depth, RawReturns(t, j) PROVE FramesInv'
      <3>1. j \in Nat BY CaptureConstants
      <3>2. /\ call'[t].pc \in {"fp", "done"} /\ call'[t].written = j /\ call'[t].frames = j
        BY <2>0, <2>3 DEF RawReturns, CallType, CaptureTypes
      <3> QED BY <2>w, <3>1, <3>2 DEF FramesOf, Held
    <2>4. ASSUME NEW j \in 0 .. Depth, WalkReturns(t, j) PROVE FramesInv'
      <3>1. j \in Nat BY CaptureConstants
      <3>2. /\ call[t].pc = "walk" /\ call'[t].pc = "disarm" /\ call'[t].written = j
            /\ call'[t].n = j /\ call'[t].frames = call[t].frames
        BY <2>0, <2>4 DEF WalkReturns, CallType, CaptureTypes
      <3> QED BY <2>f, <2>w, <3>1, <3>2 DEF FramesOf, Held
    <2>5. CASE Lock(t)
      <3>1. /\ call[t].pc = "lock" /\ call'[t].pc = "arm" /\ call'[t].n = call[t].n
            /\ call'[t].frames = call[t].frames /\ call'[t].written = call[t].written
        BY <2>0, <2>5 DEF Lock, CallType, CaptureTypes
      <3> QED BY <2>f, <2>w, <3>1 DEF FramesOf, Held
    <2>6. CASE Arm(t)
      <3>1. /\ call[t].pc = "arm" /\ call'[t].pc = "walk" /\ call'[t].n = call[t].n
            /\ call'[t].frames = call[t].frames /\ call'[t].written = call[t].written
            /\ call'[t].via = call[t].via /\ (Stepwise(t) => safe' = 0)
        BY <2>0, <2>6 DEF Arm, Goto, CallType, CaptureTypes
      <3>2. call[t].written \in Nat BY <2>0 DEF CallType
      <3> QED BY <2>f, <2>w, <3>1, <3>2 DEF FramesOf, Held, Stepwise
    <2>7. CASE UnwStep(t)
      <3>1. /\ call[t].pc = "walk" /\ call'[t].pc = "walk" /\ call'[t].n = call[t].n + 1
            /\ call'[t].frames = call[t].frames /\ call'[t].written = call[t].written + 1
            /\ safe' = call[t].n + 1 /\ Stepwise(t)
        BY <2>0, <2>7 DEF UnwStep, CallType, CaptureTypes
      <3>2. call[t].written \in Nat /\ call[t].n \in Nat BY <2>0 DEF CallType
      <3> QED BY <2>f, <2>w, <3>1, <3>2 DEF FramesOf, Held
    <2>8. CASE Disarm(t)
      <3>1. /\ call[t].pc = "disarm" /\ call'[t].pc = "restore" /\ call'[t].n = call[t].n
            /\ call'[t].frames = call[t].frames /\ call'[t].written = call[t].written
        BY <2>0, <2>8 DEF Disarm, Goto, CallType, CaptureTypes
      <3> QED BY <2>f, <2>w, <3>1 DEF FramesOf, Held
    <2>9. CASE Restore(t)
      <3>1. /\ call[t].pc = "restore" /\ call'[t].pc = "unlock" /\ call'[t].n = call[t].n
            /\ call'[t].frames = call[t].frames /\ call'[t].written = call[t].written
        BY <2>0, <2>9 DEF Restore, Goto, CallType, CaptureTypes
      <3> QED BY <2>f, <2>w, <3>1 DEF FramesOf, Held
    <2>10. CASE Unlock(t)
      <3> DEFINE off == t \in disabled \/ (call[t].via = "lib" /\ call[t].crashed)
                 f == Fallback(call[t], off)
      <3>1. /\ f.pc \in {"fp", "lock", "raw"} /\ f.n = 0
            /\ f.written = call[t].written /\ f.frames = call[t].frames
        BY <1>m, <2>0, FallbackType
      <3>2. /\ call[t].pc = "unlock"
            /\ \/ call'[t] = f
               \/ call'[t] = [call[t] EXCEPT !.pc = IF call[t].n = 0 THEN "fp" ELSE "done",
                                             !.frames = call[t].n]
        BY <2>10 DEF Unlock, CaptureTypes
      <3> HIDE DEF f, off
      <3>3. CASE call'[t] = f BY <2>f, <2>w, <3>1, <3>2, <3>3 DEF FramesOf, Held
      <3>4. CASE call'[t] = [call[t] EXCEPT !.pc = IF call[t].n = 0 THEN "fp" ELSE "done",
                                            !.frames = call[t].n]
        <4>1. /\ call'[t].pc \in {"fp", "done"} /\ call'[t].frames = call[t].n
              /\ call'[t].written = call[t].written
          BY <2>0, <3>4 DEF CallType
        <4> QED BY <2>f, <2>w, <3>2, <4>1 DEF FramesOf, Held
      <3> QED BY <3>2, <3>3, <3>4
    <2>11. CASE Done(t)
      BY <2>11, <2>w DEF Done, NoCall, FramesOf, CaptureTypes
    <2>12. ASSUME NEW lr \in Addrs, FpRead(t, lr) PROVE FramesInv'
      <3>1. /\ call'[t].pc = "lookup"
            /\ call'[t].frames = call[t].frames /\ call'[t].written = call[t].written
        BY <2>0, <2>12 DEF FpRead, Goto, CallType, CaptureTypes
      <3> QED BY <2>f, <2>w, <3>1 DEF FramesOf, Held
    <2>13. CASE FpEnd(t)
      <3>1. /\ call'[t].pc = "done"
            /\ call'[t].frames = call[t].frames /\ call'[t].written = call[t].written
        BY <2>0, <2>13 DEF FpEnd, Goto, CallType, CaptureTypes
      <3> QED BY <2>f, <2>w, <3>1 DEF FramesOf, Held
    <2>14. ASSUME NEW up \in BOOLEAN, FpTake(t, up) PROVE FramesInv'
      <3> DEFINE w == Max({call[t].written, call[t].frames + 1})
      <3>1. w >= call[t].frames + 1 BY <2>0, MaxOfTwo DEF CallType
      <3>2. \/ /\ call'[t].pc = "fp" /\ call'[t].frames = call[t].frames + 1
               /\ call'[t].written = w
            \/ /\ call'[t].pc = "done" /\ call'[t].frames = call[t].frames
               /\ call'[t].written = call[t].written
        <4> HIDE DEF w
        <4>1. call' = IF reader[t].found /\ up
                      THEN [call EXCEPT ![t].pc = "fp", ![t].frames = @ + 1, ![t].written = w]
                      ELSE [call EXCEPT ![t].pc = "done"]
          BY <2>14 DEF FpTake, w
        <4> QED BY <2>0, <4>1 DEF CallType, CaptureTypes
      <3>3. w \in Nat /\ call[t].frames \in Nat BY <2>0, MaxOfTwo DEF CallType
      <3> HIDE DEF w
      <3> QED BY <2>f, <2>w, <3>1, <3>2, <3>3 DEF FramesOf, Held
    <2>15. CASE Fault(t)
      <3>1. CASE UNCHANGED call
        BY <2>15, <3>1 DEF Fault, FramesInv, Stepwise
      <3>2. CASE call[t].pc = "walk" /\ Land(t)
        <4>1. /\ call'[t].pc = "disarm" /\ call'[t].written = call[t].written
              /\ call'[t].frames = call[t].frames
              /\ call'[t].n = IF Stepwise(t) THEN safe ELSE 0
          BY <2>0, <3>2 DEF Land, CallType, CaptureTypes
        <4>2. call[t].written \in Nat BY <2>0 DEF CallType
        <4> QED BY <2>f, <2>w, <3>2, <4>1, <4>2 DEF FramesOf, Held
      <3> QED BY <2>15, <3>1, <3>2 DEF Fault, Handle, Unhandled
    <2> QED BY <1>1, <2>1, <2>2, <2>3, <2>4, <2>5, <2>6, <2>7, <2>8, <2>9, <2>10, <2>11,
               <2>12, <2>13, <2>14, <2>15 DEF ThreadStep, CaptureStep
  <1>2. CASE SetAction \/ Refresh
    BY <1>2 DEF SetAction, Refresh, unwindVars, FramesInv, Stepwise
  <1> QED BY <1>m, <1>1, <1>2 DEF CaptureNext, ThreadStep

-----------------------------------------------------------------------------
\* The invariant of mtt_capture_stack and its unwinders holds in every state,
\* for every number of threads, depth and configuration.
THEOREM CaptureInvariant == CaptureSpec => []CaptureInv
  <1>1. CaptureInit => CaptureInv
    <2> SUFFICES ASSUME CaptureInit PROVE CaptureInv OBVIOUS
    <2>1. \A t \in Readers : call[t] = NoCall BY DEF CaptureInit
    <2>2. /\ NoCall.pc = "idle" /\ NoCall.frames = 0 /\ NoCall.written = 0 /\ NoCall.n = 0
      BY DEF NoCall
    <2>3. CaptureTypes
      BY <2>1, <2>2, NoCallType DEF CaptureInit, CaptureTypes, Held
    <2>4. UnwindInv
      BY <2>1, <2>2
         DEF CaptureInit, UnwindInv, HolderInv, ArmedInv, ActionInv, Held, Protected
    <2>5. FramesInv BY <2>1, <2>2 DEF FramesInv
    <2>6. WalkSurvives BY DEF CaptureInit, WalkSurvives
    <2> QED BY <2>3, <2>4, <2>5, <2>6 DEF CaptureInv
  <1>2. CaptureInv /\ [CaptureNext]_captureVars => CaptureInv'
    <2> SUFFICES ASSUME CaptureInv, [CaptureNext]_captureVars PROVE CaptureInv'
      OBVIOUS
    <2>1. CASE CaptureNext
      BY <2>1, TypesStep, UnwindStep, SurvivesStep, FramesStep DEF CaptureInv
    <2>2. CASE UNCHANGED captureVars
      BY <2>2 DEF captureVars, unwindVars, CaptureInv, CaptureTypes, UnwindInv, HolderInv,
                  ArmedInv, ActionInv, FramesInv, WalkSurvives, Stepwise
    <2> QED BY <2>1, <2>2
  <1> QED BY <1>1, <1>2, PTL DEF CaptureSpec

\* A fault in the unwinder under the handler never ends the process, whichever
\* threads unwind after and beside each other (unwind_libunwind.c:105-124),
\* unless the program sets its own action for SIGSEGV meanwhile.
THEOREM UnwindSurvives == CaptureSpec => []WalkSurvives
  <1>1. CaptureInv => WalkSurvives BY DEF CaptureInv
  <1> QED BY <1>1, CaptureInvariant, PTL

\* No record counts frames that its own capture did not write
\* (unwind_libunwind.c:211-226, tracker.c:436-532).
THEOREM FramesAreOwn == CaptureSpec => []FramesWritten
  <1>1. CaptureInv => FramesWritten BY DEF CaptureInv, FramesInv, FramesWritten
  <1> QED BY <1>1, CaptureInvariant, PTL

\* Once no thread unwinds, the program's action for SIGSEGV is in place
\* (unwind_libunwind.c:228-229).
THEOREM ActionComesBack == CaptureSpec => []ActionRestored
  <1>1. CaptureInv => ActionRestored BY DEF CaptureInv, UnwindInv, ActionInv, ActionRestored
  <1> QED BY <1>1, CaptureInvariant, PTL

-----------------------------------------------------------------------------
(* The search of the executable ranges.                                    *)

ReaderType ==
  [pc : {"idle", "probe", "done"}, a : Nat, n : 0 .. MaxRanges, lo : 0 .. MaxRanges,
   hi : -1 .. MaxRanges - 1, found : BOOLEAN]

RangesTypes ==
  /\ mapped \subseteq Libs /\ g_ranges \in [Slots -> Libs \cup {Unused}]
  /\ g_range_count \in 0 .. MaxRanges
  /\ writer \in [pc : {"idle", "copy"}, tmp : Seq(Libs), n : Nat]
  /\ Len(writer.tmp) <= MaxRanges /\ writer.n <= Len(writer.tmp)
  /\ reader \in [Readers -> ReaderType] /\ stable \in [Readers -> BOOLEAN]

\* The first n ranges are in the order of their addresses.
SortedUpTo(n) ==
  \A i, j \in 0 .. n - 1 : i < j => g_ranges[i].hi <= g_ranges[j].lo

\* The refresh copies ranges that are in order, from the front.
WriterInv ==
  /\ writer.pc = "idle" => SortedUpTo(g_range_count)
  /\ writer.pc = "copy" =>
       /\ \A i, j \in 1 .. Len(writer.tmp) : i < j => writer.tmp[i].hi <= writer.tmp[j].lo
       /\ \A i \in 0 .. writer.n - 1 : g_ranges[i] = writer.tmp[i + 1]

\* The interval that is left holds every range that covers the address.
SearchInv == \A t \in Readers :
  /\ reader[t].pc = "probe" => /\ reader[t].hi < reader[t].n /\ reader[t].lo <= reader[t].hi + 1
                               /\ ~reader[t].found
  /\ reader[t].pc # "idle" /\ stable[t] => SortedUpTo(reader[t].n)
  /\ reader[t].pc = "probe" /\ stable[t] =>
       \A i \in 0 .. reader[t].n - 1 :
         Covers(g_ranges[i], reader[t].a) => i \in reader[t].lo .. reader[t].hi

RangesInv == RangesTypes /\ WriterInv /\ SearchInv /\ SearchCorrect

\* A range, or an unused entry of g_ranges, does not end before it begins.
LEMMA RangeBounds ==
  ASSUME NEW r \in Libs \cup {Unused}
  PROVE  r.lo \in Nat /\ r.hi \in Nat /\ r.lo <= r.hi
  BY AddrValidateConstants DEF Unused

\* A range that begins later has more ranges before it.
LEMMA RankGrows ==
  ASSUME NEW R \in SUBSET Libs, NEW r \in R, NEW q \in R, r.lo < q.lo
  PROVE  Rank(R, r) \in Nat /\ Rank(R, q) \in Nat /\ Rank(R, r) < Rank(R, q)
  <1> DEFINE Before(x) == {y \in R : y.lo < x.lo}
  <1>1. IsFiniteSet(R) BY FiniteLibs, FS_Subset
  <1>2. Before(r) \subseteq R /\ Before(q) \subseteq R OBVIOUS
  <1>3. Before(r) \subseteq Before(q) BY RangeBounds
  <1>4. r \in Before(q) /\ r \notin Before(r) BY RangeBounds
  <1>5. IsFiniteSet(Before(r)) /\ IsFiniteSet(Before(q)) BY <1>1, <1>2, FS_Subset
  <1>6. Cardinality(Before(r)) \in Nat /\ Cardinality(Before(q)) \in Nat
    BY <1>5, FS_CardinalityType
  <1>7. Cardinality(Before(r)) <= Cardinality(Before(q)) BY <1>3, <1>5, FS_Subset
  <1>8. Cardinality(Before(r)) # Cardinality(Before(q))
    BY <1>3, <1>4, <1>5, FS_Subset
  <1> HIDE DEF Before
  <1>9. Cardinality(Before(r)) + 1 \in Nat /\ Cardinality(Before(q)) + 1 \in Nat
        /\ Cardinality(Before(r)) + 1 < Cardinality(Before(q)) + 1
    BY <1>6, <1>7, <1>8
  <1> QED BY <1>9 DEF Before, Rank

\* No range has more before it than there are others.
LEMMA RankBound ==
  ASSUME NEW R \in SUBSET Libs, NEW r \in R
  PROVE  Rank(R, r) \in 1 .. Cardinality(R)
  <1> DEFINE Before == {y \in R : y.lo < r.lo}
  <1>1. IsFiniteSet(R) BY FiniteLibs, FS_Subset
  <1>2. Before \subseteq R \ {r} BY RangeBounds
  <1>3. IsFiniteSet(R \ {r}) /\ Cardinality(R \ {r}) = Cardinality(R) - 1
    BY <1>1, FS_RemoveElement
  <1>4. IsFiniteSet(Before) /\ Cardinality(Before) <= Cardinality(R \ {r})
    BY <1>2, <1>3, FS_Subset
  <1>5. Cardinality(Before) \in Nat /\ Cardinality(R) \in Nat
    BY <1>1, <1>4, FS_CardinalityType
  <1> HIDE DEF Before
  <1>6. Cardinality(Before) + 1 \in 1 .. Cardinality(R) BY <1>3, <1>4, <1>5
  <1> QED BY <1>6 DEF Before, Rank

\* Of two ranges one begins earlier.
LEMMA OneIsFirst ==
  ASSUME NEW r \in Libs, NEW q \in Libs, r # q
  PROVE  (r.lo < q.lo /\ r.hi <= q.lo) \/ (q.lo < r.lo /\ q.hi <= r.lo)
  BY AddrValidateConstants

\* Each place of the list is some range's: the ranks of different ranges differ.
LEMMA EachRank ==
  ASSUME NEW R \in SUBSET Libs, NEW k \in 1 .. Cardinality(R)
  PROVE  \E r \in R : Rank(R, r) = k
  <1> DEFINE n == Cardinality(R)  f == [r \in R |-> Rank(R, r)]
  <1>1. IsFiniteSet(R) /\ n \in Nat BY FiniteLibs, FS_Subset, FS_CardinalityType
  <1>2. f \in [R -> 1 .. n] BY RankBound
  <1>3. ASSUME NEW r \in R, NEW q \in R, f[r] = f[q] PROVE r = q
    <2>1. CASE r.lo < q.lo BY <1>3, <2>1, RankGrows
    <2>2. CASE q.lo < r.lo BY <1>3, <2>2, RankGrows
    <2> QED BY <2>1, <2>2, OneIsFirst
  <1>4. f \in Injection(R, 1 .. n) BY <1>2, <1>3 DEF Injection, IsInjective
  <1>5. IsFiniteSet(1 .. n) /\ Cardinality(1 .. n) = n BY <1>1, FS_Interval
  <1>6. f \in Surjection(R, 1 .. n) BY <1>4, <1>5, FS_Injection
  <1> QED BY <1>6 DEF Surjection

\* What the refresh reads of /proc/self/maps: ranges in the order of their
\* addresses, not more than the array holds.
LEMMA ParsedMaps ==
  ASSUME NEW R \in SUBSET Libs
  PROVE  /\ ParseMaps(R) \in Seq(Libs) /\ Len(ParseMaps(R)) \in 0 .. MaxRanges
         /\ \A i, j \in 1 .. Len(ParseMaps(R)) : i < j => ParseMaps(R)[i].hi <= ParseMaps(R)[j].lo
  <1> DEFINE n == Min({Cardinality(R), MaxRanges})  p == ParseMaps(R)
  <1>1. Cardinality(R) \in Nat BY FiniteLibs, FS_Subset, FS_CardinalityType
  <1>2. n \in Nat /\ n <= Cardinality(R) /\ n <= MaxRanges
    <2> DEFINE S == {Cardinality(R), MaxRanges}
    <2>1. \E x \in S : \A y \in S : x <= y BY <1>1, AddrValidateConstants
    <2>2. n \in S /\ \A y \in S : n <= y BY <2>1 DEF Min
    <2> QED BY <1>1, <2>2, AddrValidateConstants
  <1>3. \A k \in 1 .. n : p[k] \in R /\ Rank(R, p[k]) = k
    <2> SUFFICES ASSUME NEW k \in 1 .. n PROVE p[k] \in R /\ Rank(R, p[k]) = k
      OBVIOUS
    <2>1. k \in 1 .. Cardinality(R) BY <1>1, <1>2
    <2>2. \E r \in R : Rank(R, r) = k BY <2>1, EachRank
    <2>3. p[k] = CHOOSE r \in R : Rank(R, r) = k BY DEF ParseMaps
    <2> QED BY <2>2, <2>3
  <1>4. p \in [1 .. n -> Libs] BY <1>3 DEF ParseMaps
  <1> HIDE DEF n, p
  <1>5. p \in Seq(Libs) /\ Len(p) = n BY <1>2, <1>4
  <1>6. ASSUME NEW i \in 1 .. n, NEW j \in 1 .. n, i < j PROVE p[i].hi <= p[j].lo
    <2>1. p[i] \in R /\ p[j] \in R /\ Rank(R, p[i]) = i /\ Rank(R, p[j]) = j BY <1>3
    <2>2. ~ p[j].lo < p[i].lo BY <2>1, <1>6, <1>2, RankGrows
    <2>3. p[i] # p[j] BY <2>1, <1>6, <1>2
    <2> QED BY <2>1, <2>2, <2>3, OneIsFirst
  <1> QED BY <1>2, <1>5, <1>6, AddrValidateConstants DEF p

\* The middle of a non-empty interval lies in it, without overflow of lo + hi.
LEMMA Middle ==
  ASSUME NEW lo \in Int, NEW hi \in Int, lo <= hi
  PROVE  lo + (hi - lo) \div 2 \in lo .. hi
  <1>1. (hi - lo) \div 2 \in Int /\ 0 <= (hi - lo) \div 2 /\ (hi - lo) \div 2 <= hi - lo
    OBVIOUS
  <1> QED BY <1>1

\* The cache has been filled once.
LEMMA RangesInit ==
  ASSUME Init
  PROVE  RangesInv
  <1> DEFINE p == ParseMaps(mapped)
  <1>1. /\ p \in Seq(Libs) /\ Len(p) \in 0 .. MaxRanges
        /\ \A i, j \in 1 .. Len(p) : i < j => p[i].hi <= p[j].lo
    BY ParsedMaps DEF Init
  <1> HIDE DEF p
  <1>2. /\ g_ranges = [i \in Slots |-> IF i < Len(p) THEN p[i + 1] ELSE Unused]
        /\ g_range_count = Len(p)
    BY DEF Init, Filled, p
  <1>3. \A i \in 0 .. Len(p) - 1 : g_ranges[i] = p[i + 1]
    BY <1>1, <1>2, AddrValidateConstants DEF Slots
  <1>4. SortedUpTo(g_range_count) BY <1>1, <1>2, <1>3 DEF SortedUpTo
  <1>5. NoSearch \in ReaderType BY AddrValidateConstants DEF NoSearch, ReaderType
  <1>6. \A t \in Readers : reader[t].pc = "idle" BY DEF Init, NoSearch
  <1>7. RangesTypes
    <2>1. g_ranges \in [Slots -> Libs \cup {Unused}]
      BY <1>1, <1>2, AddrValidateConstants DEF Slots
    <2>2. writer \in [pc : {"idle", "copy"}, tmp : Seq(Libs), n : Nat] /\ Len(writer.tmp) = 0
          /\ writer.n = 0
      BY DEF Init, NoWrite
    <2> QED BY <1>1, <1>2, <1>5, <2>1, <2>2, AddrValidateConstants DEF Init, RangesTypes
  <1>8. WriterInv BY <1>4 DEF Init, NoWrite, WriterInv
  <1> QED BY <1>6, <1>7, <1>8 DEF RangesInv, SearchInv, SearchCorrect

\* SearchInv and SearchCorrect for one search; ok: no refresh overlapped it.
SearchOf(s, ok) ==
  /\ s.pc = "probe" => s.hi < s.n /\ s.lo <= s.hi + 1 /\ ~s.found
  /\ s.pc # "idle" /\ ok => SortedUpTo(s.n)
  /\ s.pc = "probe" /\ ok =>
       \A i \in 0 .. s.n - 1 : Covers(g_ranges[i], s.a) => i \in s.lo .. s.hi
  /\ s.pc = "done" /\ ok => (s.found <=> \E i \in 0 .. s.n - 1 : Covers(g_ranges[i], s.a))

\* A step of the search of thread t, for whatever it becomes.
LEMMA OneSearch ==
  ASSUME RangesInv, NEW t \in Readers, NEW s \in ReaderType, NEW ok \in BOOLEAN, SearchOf(s, ok),
         reader' = [reader EXCEPT ![t] = s], stable' = [stable EXCEPT ![t] = ok],
         UNCHANGED <<mapped, g_ranges, g_range_count, writer>>
  PROVE  RangesInv'
  <1>1. RangesTypes' BY DEF RangesInv, RangesTypes
  <1>2. WriterInv' BY DEF RangesInv, WriterInv, SortedUpTo
  <1>3. \A u \in Readers : SearchOf(reader'[u], stable'[u])
    <2>1. ASSUME NEW u \in Readers, u # t PROVE SearchOf(reader[u], stable[u])
      BY DEF RangesInv, SearchInv, SearchCorrect, SearchOf
    <2>2. ASSUME NEW u \in Readers, u # t PROVE reader'[u] = reader[u] /\ stable'[u] = stable[u]
      BY <2>2 DEF RangesInv, RangesTypes
    <2>3. reader'[t] = s /\ stable'[t] = ok BY DEF RangesInv, RangesTypes
    <2> QED BY <2>1, <2>2, <2>3
  <1>4. SearchInv' /\ SearchCorrect'
    BY <1>3 DEF SearchOf, SearchInv, SearchCorrect, SortedUpTo
  <1> QED BY <1>1, <1>2, <1>4 DEF RangesInv

\* mtt_addr_is_executable begins with the whole array as it is counted then.
LEMMA SearchStep ==
  ASSUME RangesInv, NEW t \in Readers, NEW a \in Addrs, Search(t, a)
  PROVE  RangesInv'
  <1> DEFINE s == [pc |-> "probe", a |-> a, n |-> g_range_count, lo |-> 0,
                   hi |-> g_range_count - 1, found |-> FALSE]
  <1>1. g_range_count \in 0 .. MaxRanges /\ MaxRanges \in Nat
    BY AddrValidateConstants DEF RangesInv, RangesTypes
  <1>2. s \in ReaderType BY <1>1, AddrValidateConstants DEF ReaderType
  <1>3. writer.pc = "idle" => SortedUpTo(g_range_count) BY DEF RangesInv, WriterInv
  <1>4. SearchOf(s, writer.pc = "idle") BY <1>1, <1>3 DEF SearchOf
  <1>5. PICK d \in ReaderType : d = s BY <1>2
  <1>6. PICK ok \in BOOLEAN : ok = (writer.pc = "idle") OBVIOUS
  <1>7. SearchOf(d, ok) BY <1>4, <1>5, <1>6
  <1>8. /\ reader' = [reader EXCEPT ![t] = d] /\ stable' = [stable EXCEPT ![t] = ok]
        /\ UNCHANGED <<mapped, g_ranges, g_range_count, writer>>
    BY <1>5, <1>6 DEF Search
  <1> QED BY <1>7, <1>8, OneSearch

\* The search halves the interval without losing the range it looks for, as
\* long as the ranges are in order.
LEMMA ProbeStep ==
  ASSUME RangesInv, NEW t \in Readers, Probe(t)
  PROVE  RangesInv'
  <1>0. PICK s \in ReaderType : s = reader[t] BY DEF RangesInv, RangesTypes
  <1>b. PICK ok \in BOOLEAN : ok = stable[t] BY DEF RangesInv, RangesTypes
  <1>1. PICK mid \in Int : mid = s.lo + (s.hi - s.lo) \div 2
    BY <1>0, AddrValidateConstants DEF ReaderType
  <1>t. /\ s.lo \in 0 .. MaxRanges /\ s.hi \in -1 .. MaxRanges - 1 /\ s.n \in 0 .. MaxRanges
        /\ s.a \in Nat /\ MaxRanges \in Nat /\ s.found \in BOOLEAN
    BY <1>0, AddrValidateConstants DEF ReaderType
  <1>2. s.pc = "probe" /\ s.lo <= s.hi BY <1>0 DEF Probe
  <1>3. mid \in s.lo .. s.hi BY <1>t, <1>1, <1>2, Middle
  <1>4. SearchOf(s, ok) BY <1>0, <1>b DEF RangesInv, SearchInv, SearchCorrect, SearchOf
  <1>5. s.hi < s.n BY <1>2, <1>4 DEF SearchOf
  <1>6. \A i \in 0 .. s.n - 1 :
          /\ g_ranges[i].lo \in Nat /\ g_ranges[i].hi \in Nat
          /\ g_ranges[i].lo <= g_ranges[i].hi
    BY <1>t, RangeBounds DEF RangesInv, RangesTypes, Slots
  <1>7. mid \in 0 .. s.n - 1 BY <1>t, <1>3, <1>5
  <1>8. stable' = [stable EXCEPT ![t] = ok] BY <1>b DEF Probe, RangesInv, RangesTypes
  <1>9. UNCHANGED <<mapped, g_ranges, g_range_count, writer>> BY DEF Probe
  <1>w. ASSUME NEW d \in ReaderType, SearchOf(d, ok), reader' = [reader EXCEPT ![t] = d]
        PROVE  RangesInv'
    BY <1>w, <1>8, <1>9, OneSearch
  <1>10. CASE s.a < g_ranges[mid].lo
    <2> DEFINE d == [s EXCEPT !.hi = mid - 1]
    <2>1. d \in ReaderType /\ d.pc = "probe" /\ d.hi = mid - 1 /\ d.lo = s.lo /\ d.n = s.n
          /\ d.a = s.a /\ d.found = s.found
      BY <1>t, <1>2, <1>3 DEF ReaderType
    <2>2. ok => \A i \in 0 .. s.n - 1 : Covers(g_ranges[i], s.a) => i \in s.lo .. mid - 1
      <3> SUFFICES ASSUME ok, NEW i \in 0 .. s.n - 1, Covers(g_ranges[i], s.a), i >= mid
                   PROVE  FALSE
        BY <1>t, <1>2, <1>4 DEF SearchOf
      <3>1. g_ranges[i].lo <= s.a BY DEF Covers
      <3>2. i # mid BY <1>6, <1>7, <1>10, <3>1, <1>t
      <3>3. mid < i BY <3>2, <1>7
      <3>4. g_ranges[mid].hi <= g_ranges[i].lo BY <1>2, <1>4, <1>7, <3>3 DEF SearchOf, SortedUpTo
      <3>5. /\ g_ranges[mid].lo \in Nat /\ g_ranges[mid].hi \in Nat
            /\ g_ranges[mid].lo <= g_ranges[mid].hi /\ g_ranges[i].lo \in Nat
        BY <1>6, <1>7
      <3> QED BY <1>10, <1>t, <3>1, <3>4, <3>5
    <2>3. SearchOf(d, ok)
      <3> HIDE DEF d
      <3> QED BY <1>t, <1>2, <1>3, <1>4, <1>5, <2>1, <2>2 DEF SearchOf
    <2>4. reader' = [reader EXCEPT ![t] = d] BY <1>0, <1>1, <1>10 DEF Probe
    <2> QED BY <1>w, <2>1, <2>3, <2>4
  <1>11. CASE ~(s.a < g_ranges[mid].lo) /\ s.a >= g_ranges[mid].hi
    <2> DEFINE d == [s EXCEPT !.lo = mid + 1]
    <2>1. d \in ReaderType /\ d.pc = "probe" /\ d.hi = s.hi /\ d.lo = mid + 1 /\ d.n = s.n
          /\ d.a = s.a /\ d.found = s.found
      BY <1>t, <1>2, <1>3 DEF ReaderType
    <2>2. ok => \A i \in 0 .. s.n - 1 : Covers(g_ranges[i], s.a) => i \in mid + 1 .. s.hi
      <3> SUFFICES ASSUME ok, NEW i \in 0 .. s.n - 1, Covers(g_ranges[i], s.a), i <= mid
                   PROVE  FALSE
        BY <1>t, <1>2, <1>4 DEF SearchOf
      <3>1. s.a < g_ranges[i].hi BY DEF Covers
      <3>2. i # mid BY <1>6, <1>7, <1>11, <3>1, <1>t
      <3>3. i < mid BY <3>2, <1>7
      <3>4. g_ranges[i].hi <= g_ranges[mid].lo BY <1>2, <1>4, <1>7, <3>3 DEF SearchOf, SortedUpTo
      <3>5. /\ g_ranges[mid].lo \in Nat /\ g_ranges[mid].hi \in Nat
            /\ g_ranges[mid].lo <= g_ranges[mid].hi /\ g_ranges[i].hi \in Nat
        BY <1>6, <1>7
      <3> QED BY <1>11, <1>t, <3>1, <3>4, <3>5
    <2>3. SearchOf(d, ok)
      <3> HIDE DEF d
      <3> QED BY <1>t, <1>2, <1>3, <1>4, <1>5, <2>1, <2>2 DEF SearchOf
    <2>4. reader' = [reader EXCEPT ![t] = d] BY <1>0, <1>1, <1>11 DEF Probe
    <2> QED BY <1>w, <2>1, <2>3, <2>4
  <1>12. CASE ~(s.a < g_ranges[mid].lo) /\ ~(s.a >= g_ranges[mid].hi)
    <2> DEFINE d == [s EXCEPT !.pc = "done", !.found = TRUE]
    <2>1. d \in ReaderType /\ d.pc = "done" /\ d.n = s.n /\ d.a = s.a /\ d.found = TRUE
      BY <1>t, <1>2 DEF ReaderType
    <2>2. Covers(g_ranges[mid], s.a) BY <1>6, <1>7, <1>12, <1>t DEF Covers
    <2>3. SearchOf(d, ok)
      <3> HIDE DEF d
      <3> QED BY <1>2, <1>4, <1>7, <2>1, <2>2 DEF SearchOf
    <2>4. reader' = [reader EXCEPT ![t] = d] BY <1>0, <1>1, <1>12 DEF Probe
    <2> QED BY <1>w, <2>1, <2>3, <2>4
  <1> QED BY <1>10, <1>11, <1>12

\* An empty interval: no range covers the address.
LEMMA NotFoundStep ==
  ASSUME RangesInv, NEW t \in Readers, NotFound(t)
  PROVE  RangesInv'
  <1>0. PICK s \in ReaderType : s = reader[t] BY DEF RangesInv, RangesTypes
  <1>b. PICK ok \in BOOLEAN : ok = stable[t] BY DEF RangesInv, RangesTypes
  <1>1. PICK d : d = [s EXCEPT !.pc = "done"] OBVIOUS
  <1>2. /\ d \in ReaderType /\ d.pc = "done" /\ d.n = s.n /\ d.a = s.a /\ d.found = s.found
        /\ s.lo \in Int /\ s.hi \in Int
    BY <1>0, <1>1, AddrValidateConstants DEF ReaderType
  <1>3. SearchOf(s, ok) BY <1>0, <1>b DEF RangesInv, SearchInv, SearchCorrect, SearchOf
  <1>4. s.pc = "probe" /\ s.lo > s.hi BY <1>0 DEF NotFound
  <1>5. SearchOf(d, ok) BY <1>2, <1>3, <1>4 DEF SearchOf
  <1>6. stable' = [stable EXCEPT ![t] = ok] BY <1>b DEF NotFound, RangesInv, RangesTypes
  <1>7. /\ reader' = [reader EXCEPT ![t] = d]
        /\ UNCHANGED <<mapped, g_ranges, g_range_count, writer>>
    BY <1>0, <1>1 DEF NotFound, RangesInv, RangesTypes
  <1> QED BY <1>2, <1>5, <1>6, <1>7, OneSearch

\* The end of a step of the walk along the frame pointers.
LEMMA TakeStep ==
  ASSUME RangesInv, NEW t \in Readers, NEW up \in BOOLEAN, FpTake(t, up)
  PROVE  RangesInv'
  <1>b. PICK ok \in BOOLEAN : ok = stable[t] BY DEF RangesInv, RangesTypes
  <1>1. NoSearch \in ReaderType BY AddrValidateConstants DEF NoSearch, ReaderType
  <1>2. SearchOf(NoSearch, ok) BY DEF SearchOf, NoSearch
  <1>3. stable' = [stable EXCEPT ![t] = ok] BY <1>b DEF FpTake, RangesInv, RangesTypes
  <1>4. /\ reader' = [reader EXCEPT ![t] = NoSearch]
        /\ UNCHANGED <<mapped, g_ranges, g_range_count, writer>>
    BY DEF FpTake
  <1>5. PICK d : d = NoSearch OBVIOUS
  <1> QED BY <1>1, <1>2, <1>3, <1>4, <1>5, OneSearch

\* A refresh that has not yet begun to copy disturbs no search.
LEMMA ParseStep ==
  ASSUME RangesInv, Parse
  PROVE  RangesInv'
  <1>1. PICK p : p = ParseMaps(mapped) OBVIOUS
  <1>2. /\ p \in Seq(Libs) /\ Len(p) \in 0 .. MaxRanges
        /\ \A i, j \in 1 .. Len(p) : i < j => p[i].hi <= p[j].lo
    BY <1>1, ParsedMaps DEF RangesInv, RangesTypes
  <1>3. /\ writer' = [pc |-> "copy", tmp |-> p, n |-> 0]
        /\ UNCHANGED <<mapped, g_ranges, g_range_count, reader, stable>>
    BY <1>1 DEF Parse
  <1>4. RangesTypes' BY <1>2, <1>3, AddrValidateConstants DEF RangesInv, RangesTypes
  <1>5. WriterInv' BY <1>2, <1>3 DEF WriterInv
  <1>6. (SearchInv /\ SearchCorrect)'
    BY <1>3 DEF RangesInv, SearchInv, SearchCorrect, SortedUpTo
  <1> QED BY <1>4, <1>5, <1>6 DEF RangesInv

\* Copying ends what is promised to the searches under way; where they may probe
\* stays inside the array.
LEMMA CopyStep ==
  ASSUME RangesInv, Copy
  PROVE  RangesInv'
  <1>1. PICK w : w = writer OBVIOUS
  <1>2. /\ w \in [pc : {"idle", "copy"}, tmp : Seq(Libs), n : Nat]
        /\ Len(w.tmp) <= MaxRanges /\ w.n < Len(w.tmp) /\ w.pc = "copy"
        /\ Len(w.tmp) \in Nat
    BY <1>1 DEF RangesInv, RangesTypes, Copy
  <1>3. /\ g_ranges' = [g_ranges EXCEPT ![w.n] = w.tmp[w.n + 1]]
        /\ writer' = [w EXCEPT !.n = w.n + 1]
        /\ stable' = [t \in Readers |-> FALSE]
        /\ UNCHANGED <<mapped, g_range_count, reader>>
    BY <1>1 DEF Copy
  <1>4. w.tmp[w.n + 1] \in Libs BY <1>2
  <1>5. w.n \in Slots BY <1>2, AddrValidateConstants DEF Slots
  <1>g. /\ DOMAIN g_ranges = Slots /\ g_ranges'[w.n] = w.tmp[w.n + 1]
        /\ \A i \in Slots : i # w.n => g_ranges'[i] = g_ranges[i]
        /\ g_ranges' \in [Slots -> Libs \cup {Unused}]
    <2>1. g_ranges \in [Slots -> Libs \cup {Unused}] BY DEF RangesInv, RangesTypes
    <2>2. g_ranges' = [g_ranges EXCEPT ![w.n] = w.tmp[w.n + 1]] BY <1>3
    <2> QED BY <1>4, <1>5, <2>1, <2>2
  <1>6. RangesTypes'
    <2>1. /\ writer' \in [pc : {"idle", "copy"}, tmp : Seq(Libs), n : Nat]
          /\ writer'.tmp = w.tmp /\ writer'.n = w.n + 1
      BY <1>2, <1>3
    <2>2. Len(writer'.tmp) <= MaxRanges /\ writer'.n <= Len(writer'.tmp) BY <1>2, <2>1
    <2> QED BY <1>3, <1>g, <2>1, <2>2 DEF RangesInv, RangesTypes
  <1>7. WriterInv'
    <2>1. writer'.tmp = w.tmp /\ writer'.n = w.n + 1 /\ writer'.pc = "copy" BY <1>2, <1>3
    <2>2. \A i \in 0 .. w.n - 1 : g_ranges[i] = w.tmp[i + 1]
      BY <1>1, <1>2 DEF RangesInv, WriterInv
    <2>3. \A i, j \in 1 .. Len(w.tmp) : i < j => w.tmp[i].hi <= w.tmp[j].lo
      BY <1>1, <1>2 DEF RangesInv, WriterInv
    <2>4. \A i \in 0 .. w.n : g_ranges'[i] = w.tmp[i + 1]
      <3> SUFFICES ASSUME NEW i \in 0 .. w.n PROVE g_ranges'[i] = w.tmp[i + 1]
        OBVIOUS
      <3>1. i \in Slots BY <1>2, <1>5, AddrValidateConstants DEF Slots
      <3>2. CASE i = w.n BY <1>g, <3>2
      <3>3. CASE i # w.n
        <4>1. i \in 0 .. w.n - 1 BY <1>2, <3>3
        <4> QED BY <1>g, <2>2, <3>1, <3>3, <4>1
      <3> QED BY <3>2, <3>3
    <2>5. (w.n + 1) - 1 = w.n BY <1>2
    <2> QED BY <2>1, <2>3, <2>4, <2>5 DEF WriterInv
  <1>8. (SearchInv /\ SearchCorrect)'
    BY <1>3 DEF RangesInv, SearchInv, SearchCorrect
  <1> QED BY <1>6, <1>7, <1>8 DEF RangesInv

\* The count is published when all that it counts has been copied.
LEMMA PublishStep ==
  ASSUME RangesInv, PublishCount
  PROVE  RangesInv'
  <1>1. PICK w : w = writer OBVIOUS
  <1>2. /\ w \in [pc : {"idle", "copy"}, tmp : Seq(Libs), n : Nat]
        /\ Len(w.tmp) <= MaxRanges /\ w.n = Len(w.tmp) /\ w.pc = "copy"
    BY <1>1 DEF RangesInv, RangesTypes, PublishCount
  <1>3. /\ g_range_count' = w.n /\ writer' = NoWrite
        /\ UNCHANGED <<mapped, g_ranges, reader, stable>>
    BY <1>1 DEF PublishCount
  <1>4. NoWrite \in [pc : {"idle", "copy"}, tmp : Seq(Libs), n : Nat] /\ Len(NoWrite.tmp) = 0
        /\ NoWrite.n = 0 /\ NoWrite.pc = "idle"
    BY DEF NoWrite
  <1>5. RangesTypes'
    BY <1>2, <1>3, <1>4, AddrValidateConstants DEF RangesInv, RangesTypes
  <1>6. SortedUpTo(w.n)
    BY <1>1, <1>2 DEF RangesInv, WriterInv, SortedUpTo
  <1>7. WriterInv' BY <1>3, <1>4, <1>6 DEF WriterInv, SortedUpTo
  <1>8. (SearchInv /\ SearchCorrect)'
    BY <1>3 DEF RangesInv, SearchInv, SearchCorrect, SortedUpTo
  <1> QED BY <1>5, <1>7, <1>8 DEF RangesInv

\* Steps that leave the cache and its searches alone.
LEMMA RangesKept ==
  ASSUME RangesInv, mapped' \subseteq Libs,
         UNCHANGED <<g_ranges, g_range_count, writer, reader, stable>>
  PROVE  RangesInv'
  BY DEF RangesInv, RangesTypes, WriterInv, SearchInv, SearchCorrect, SortedUpTo

\* The steps of mtt_capture_stack use the cache only through its search.
LEMMA RangesStep ==
  ASSUME RangesInv, CaptureTypes, CaptureNext
  PROVE  RangesInv'
  <1>m. mode.threads \subseteq Readers BY CaptureConstants DEF CaptureTypes
  <1>k. mapped \subseteq Libs BY DEF RangesInv, RangesTypes
  <1>u. ASSUME UNCHANGED vars PROVE RangesInv'
    BY <1>k, <1>u, RangesKept DEF vars
  <1>1. ASSUME NEW t \in Readers, ThreadStep(t) PROVE RangesInv'
    <2>1. CASE AskRanges(t)
      BY <2>1, ProbeStep, NotFoundStep DEF AskRanges, LookupStep
    <2>2. ASSUME NEW lr \in Addrs, FpRead(t, lr) PROVE RangesInv'
      BY <2>2, SearchStep DEF FpRead
    <2>3. ASSUME NEW up \in BOOLEAN, FpTake(t, up) PROVE RangesInv'
      BY <2>3, TakeStep
    <2>4. ASSUME NEW j \in 0 .. Depth, RawReturns(t, j) \/ WalkReturns(t, j)
          PROVE  UNCHANGED vars
      BY <2>4 DEF RawReturns, WalkReturns
    <2>5. CASE Lock(t) \/ Arm(t) \/ UnwStep(t) \/ Disarm(t) \/ Restore(t) \/ Unlock(t) \/ Done(t)
               \/ FpEnd(t) \/ Enter(t) \/ Reenter(t) \/ Fault(t)
      BY <1>u, <2>5 DEF Lock, Arm, UnwStep, Disarm, Restore, Unlock, Done, FpEnd, Enter, Reenter,
                        Fault
    <2> QED BY <1>u, <1>1, <2>1, <2>2, <2>3, <2>4, <2>5 DEF ThreadStep, CaptureStep
  <1>2. CASE SetAction BY <1>u, <1>2 DEF SetAction
  <1>3. CASE Refresh
    <2>1. ASSUME NEW r \in Libs, Load(r) PROVE RangesInv'
      BY <1>k, <2>1, RangesKept DEF Load
    <2> QED BY <1>3, <2>1, ParseStep, CopyStep, PublishStep DEF Refresh, RefreshStep
  <1> QED BY <1>m, <1>1, <1>2, <1>3 DEF CaptureNext, ThreadStep

\* The invariant of the cache of executable ranges holds in every state, while
\* stacks are captured and refreshes overlap the searches.
THEOREM RangesInvariant == CaptureSpec => [](CaptureInv /\ RangesInv)
  <1>1. CaptureInit => RangesInv BY RangesInit DEF CaptureInit
  <1>2. RangesInv /\ CaptureInv /\ [CaptureNext]_captureVars => RangesInv'
    <2> SUFFICES ASSUME RangesInv, CaptureInv, [CaptureNext]_captureVars PROVE RangesInv'
      OBVIOUS
    <2>1. CASE CaptureNext BY <2>1, RangesStep DEF CaptureInv
    <2>2. CASE UNCHANGED captureVars
      BY <2>2, RangesKept DEF captureVars, vars, RangesInv, RangesTypes
    <2> QED BY <2>1, <2>2
  <1> QED BY <1>1, <1>2, CaptureInvariant, PTL DEF CaptureSpec

\* Every probe is inside the array, whatever a refresh does meanwhile
\* (addr_validate.c:156-177).
THEOREM ProbesInside == CaptureSpec => []TypeOK
  <1>1. RangesInv => TypeOK
    BY DEF RangesInv, RangesTypes, ReaderType, TypeOK
  <1> QED BY <1>1, RangesInvariant, PTL

\* A search that no refresh overlapped answers right
\* (addr_validate.c:163-174), for any number of ranges.
THEOREM SearchIsRight == CaptureSpec => []SearchCorrect
  <1>1. RangesInv => SearchCorrect BY DEF RangesInv
  <1> QED BY <1>1, RangesInvariant, PTL

=============================================================================
