------------------------------ MODULE Capture ------------------------------
(***************************************************************************)
(* mtt_capture_stack (tracker.c) and the unwinders it tries               *)
(* (unwind_libunwind.c): libunwind and glibc's backtrace, which may fault  *)
(* on damaged unwind tables, and the walk along the frame pointers, which  *)
(* asks AddrValidate whether a return address is code.  A fault is caught: *)
(* under one mutex a thread installs a handler for the whole process, sets *)
(* a flag, saves its context and unwinds; the handler jumps back to the    *)
(* saved context.  A stack is known by its number of frames.               *)
(***************************************************************************)
EXTENDS AddrValidate

CONSTANTS
  Modes,        \* configurations of the process, see mode
  Depth,        \* g_max_stack_frames
  FpDepth,      \* MTT_STACK_DEPTH, which g_max_stack_frames does not exceed
  MaxCaptures   \* bound: calls of mtt_capture_stack

ASSUME CaptureConstants ==
  /\ FpDepth \in Nat \ {0} /\ Depth \in Nat \ {0, 1} /\ MaxCaptures \in Nat
  /\ "none" \notin Readers
  /\ Modes \subseteq [lib : {"static", "dlopen", "none"}, bt : BOOLEAN,
                       threads : SUBSET Readers, scans : BOOLEAN]

VARIABLES
  mode,       \* lib: how libunwind is linked, "none" if it is not available or
              \* MTT_UNWINDER excludes it; bt: MTT_HAS_BACKTRACE; threads: those
              \* that allocate; scans: libraries come and go and scans refresh
              \* the ranges
  mutex,      \* g_unwind_mutex: its holder, or "none"
  action,     \* the process's action for SIGSEGV: the program's ("app0" or
              \* "app1"), "tool" or "default"
  flag,       \* g_in_unwind_call
  jmp,        \* g_unwind_jmp: the thread whose context it holds
  safe,       \* g_unwind_safe_frames
  disabled,   \* threads that libunwind crashed on
  call,       \* thread -> its call: [pc, via, old, n, written, frames, crashed]
  process,    \* "up", or how it ended: [end, by]
  program,    \* history: the action the program set last
  late,       \* history: the program set it while a thread was unwinding
  captures

unwindVars == <<mode, mutex, action, flag, jmp, safe, disabled, call, process, program, late,
                captures>>
captureVars == <<vars, unwindVars>>

\* via: what is unwinding, "lib" or "safe" (backtrace under the handler);
\* written: entries of entry->stack that this call has filled from the bottom;
\* frames: entry->stack_frames, which mtt_entry_new has set to 0.
NoCall == [pc |-> "idle", via |-> "none", old |-> "none", n |-> 0, written |-> 0,
           frames |-> 0, crashed |-> FALSE]

CaptureInit ==
  /\ Init
  /\ mode \in Modes /\ (mode.scans \/ mapped = Libs)
  /\ mutex = "none" /\ action = "app0" /\ flag = FALSE /\ jmp = "none" /\ safe = 0
  /\ disabled = {} /\ call = [t \in Readers |-> NoCall]
  /\ process = [end |-> "up", by |-> "none"] /\ program = "app0" /\ late = FALSE
  /\ captures = 0

Goto(t, label) == call' = [call EXCEPT ![t].pc = label]

-----------------------------------------------------------------------------
(* mtt_capture_stack.                                                      *)

\* What follows if libunwind is not used or has found less than two frames:
\* backtrace, unless the C library has none.  It is called as it is, or under
\* the handler on a thread that libunwind crashed on.
Fallback(c, off) ==
  [c EXCEPT !.pc = IF ~mode.bt THEN "fp" ELSE IF off THEN "lock" ELSE "raw",
            !.via = IF mode.bt /\ off THEN "safe" ELSE "none",
            !.n = 0, !.crashed = FALSE]

Enter(t) ==
  /\ call[t].pc = "idle" /\ captures < MaxCaptures /\ captures' = captures + 1
  /\ call' = [call EXCEPT ![t] =
       IF mode.lib # "none" /\ t \notin disabled
       THEN [NoCall EXCEPT !.pc = "lock", !.via = "lib"]
       ELSE Fallback(NoCall, t \in disabled)]
  /\ UNCHANGED <<vars, mode, mutex, action, flag, jmp, safe, disabled, process, program, late>>

\* Mutant of Reenter: in_capture is not looked at.
Reenter_Locks(t) ==
  /\ call[t].pc = "walk" /\ captures < MaxCaptures /\ captures' = captures + 1
  /\ Goto(t, "lock")
  /\ UNCHANGED <<vars, mode, mutex, action, flag, jmp, safe, disabled, process, program, late>>

\* The unwinder allocates, and the hook captures a stack on the same thread:
\* in_capture is set, so this record gets no frames.
Reenter(t) ==
  /\ call[t].pc = "walk" /\ captures < MaxCaptures /\ captures' = captures + 1
  /\ UNCHANGED <<vars, mode, mutex, action, flag, jmp, safe, disabled, call, process, program,
                 late>>

\* backtrace without protection returns k frames.
RawReturns(t, k) ==
  /\ call[t].pc = "raw"
  /\ call' = [call EXCEPT ![t].pc = IF k = 0 THEN "fp" ELSE "done",
                          ![t].written = k, ![t].frames = k]
  /\ UNCHANGED <<vars, mode, mutex, action, flag, jmp, safe, disabled, process, program, late,
                 captures>>

Done(t) ==
  /\ call[t].pc = "done"
  /\ call' = [call EXCEPT ![t] = NoCall]
  /\ UNCHANGED <<vars, mode, mutex, action, flag, jmp, safe, disabled, process, program, late,
                 captures>>

-----------------------------------------------------------------------------
(* mtt_libunwind_capture and mtt_safe_backtrace.                           *)

\* The mutex, then sigaction for SIGSEGV and SIGBUS.
Lock(t) ==
  /\ call[t].pc = "lock" /\ mutex = "none"
  /\ mutex' = t /\ action' = "tool"
  /\ call' = [call EXCEPT ![t].pc = "arm", ![t].old = action]
  /\ UNCHANGED <<vars, mode, flag, jmp, safe, disabled, process, program, late, captures>>

\* The unwinder is the loop of unw_step, which counts its frames as it goes.
Stepwise(t) == call[t].via = "lib" /\ mode.lib = "static"

\* Mutants of Arm: the number of frames is not reset; mtt_safe_backtrace does not
\* set the flag.
Arm_KeepsFrames(t) ==
  /\ call[t].pc = "arm"
  /\ flag' = TRUE /\ jmp' = t /\ Goto(t, "walk")
  /\ UNCHANGED <<vars, mode, mutex, action, safe, disabled, process, program, late, captures>>

Arm_LibOnly(t) ==
  /\ call[t].pc = "arm"
  /\ flag' = (call[t].via = "lib") /\ jmp' = t
  /\ safe' = IF Stepwise(t) THEN 0 ELSE safe
  /\ Goto(t, "walk")
  /\ UNCHANGED <<vars, mode, mutex, action, disabled, process, program, late, captures>>

\* The flag, then sigsetjmp.
Arm(t) ==
  /\ call[t].pc = "arm"
  /\ flag' = TRUE /\ jmp' = t
  /\ safe' = IF Stepwise(t) THEN 0 ELSE safe
  /\ Goto(t, "walk")
  /\ UNCHANGED <<vars, mode, mutex, action, disabled, process, program, late, captures>>

\* mtt_unwind_step_loop: one frame.
UnwStep(t) ==
  /\ call[t].pc = "walk" /\ Stepwise(t) /\ call[t].n < Depth
  /\ call' = [call EXCEPT ![t].n = @ + 1, ![t].written = @ + 1]
  /\ safe' = call[t].n + 1
  /\ UNCHANGED <<vars, mode, mutex, action, flag, jmp, disabled, process, program, late, captures>>

\* The loop ends, or unw_backtrace or backtrace returns k frames.
WalkReturns(t, k) ==
  /\ call[t].pc = "walk"
  /\ Stepwise(t) => k = call[t].n
  /\ call' = [call EXCEPT ![t].pc = "disarm", ![t].n = k, ![t].written = k]
  /\ UNCHANGED <<vars, mode, mutex, action, flag, jmp, safe, disabled, process, program, late,
                 captures>>

Disarm(t) ==
  /\ call[t].pc = "disarm"
  /\ flag' = FALSE /\ Goto(t, "restore")
  /\ UNCHANGED <<vars, mode, mutex, action, jmp, safe, disabled, process, program, late, captures>>

\* Mutant of Restore: the way back from a crash leaves the handler in place.
Restore_IfReturned(t) ==
  /\ call[t].pc = "restore"
  /\ action' = IF call[t].crashed THEN action ELSE call[t].old
  /\ Goto(t, "unlock")
  /\ UNCHANGED <<vars, mode, mutex, flag, jmp, safe, disabled, process, program, late, captures>>

Restore(t) ==
  /\ call[t].pc = "restore"
  /\ action' = call[t].old /\ Goto(t, "unlock")
  /\ UNCHANGED <<vars, mode, mutex, flag, jmp, safe, disabled, process, program, late, captures>>

\* A thread that libunwind crashed on never uses it again; the frames found
\* before the crash are kept if they are two or more.  A crash of backtrace
\* leaves no frames.
Unlock(t) ==
  LET c == call[t]
      off == t \in disabled \/ (c.via = "lib" /\ c.crashed)
  IN /\ c.pc = "unlock" /\ mutex' = "none"
     /\ disabled' = IF off THEN disabled \cup {t} ELSE disabled
     /\ call' = [call EXCEPT ![t] =
          IF c.via = "lib" /\ c.n < 2 THEN Fallback(c, off)
          ELSE [c EXCEPT !.pc = IF c.n = 0 THEN "fp" ELSE "done", !.frames = c.n]]
     /\ UNCHANGED <<vars, mode, action, flag, jmp, safe, process, program, late, captures>>

-----------------------------------------------------------------------------
(* Faults and mtt_unwind_crash_handler.                                    *)

\* sigsetjmp returns for the second time, to the thread that had called it.
Land(t) ==
  call' = [call EXCEPT ![t].pc = "disarm", ![t].crashed = TRUE,
                       ![t].n = IF Stepwise(t) THEN safe ELSE 0]

\* A fault of thread t, in the unwinder ("walk"), in an unprotected backtrace
\* ("raw") or in the program ("idle"), comes to the tool's handler, which does
\* not ask whose fault it is.
Handle(t) ==
  /\ action = "tool"
  /\ \/ /\ flag /\ flag' = FALSE /\ UNCHANGED action
        /\ IF jmp = t /\ call[t].pc = "walk"
           THEN Land(t) /\ UNCHANGED process
           ELSE process' = [end |-> "astray", by |-> call[t].pc] /\ UNCHANGED call
     \/ /\ ~flag /\ action' = "default" /\ UNCHANGED <<flag, call>>
        /\ process' = [end |-> "killed", by |-> call[t].pc]

\* The program's own action: a fault of the tool's code ends the process.
Unhandled(t) ==
  /\ action # "tool" /\ call[t].pc # "idle"
  /\ process' = [end |-> "killed", by |-> call[t].pc]
  /\ UNCHANGED <<action, flag, call>>

Fault(t) ==
  /\ call[t].pc \in {"walk", "raw", "idle"}
  /\ Handle(t) \/ Unhandled(t)
  /\ UNCHANGED <<vars, mode, mutex, jmp, safe, disabled, program, late, captures>>

\* The program sets another action for SIGSEGV, once.
SetAction ==
  /\ program = "app0" /\ program' = "app1" /\ action' = "app1"
  /\ late' = (action = "tool")
  /\ UNCHANGED <<vars, mode, mutex, flag, jmp, safe, disabled, call, process, captures>>

-----------------------------------------------------------------------------
(* The walk along the frame pointers, if there are no frames at all.       *)

\* One pair of saved frame pointer and return address: the address is looked
\* up.  A pair with a NULL in it, or the end of the array, ends the walk.
FpRead(t, lr) ==
  /\ call[t].pc = "fp" /\ call[t].frames < FpDepth
  /\ Search(t, lr) /\ Goto(t, "lookup")
  /\ UNCHANGED <<mode, mutex, action, flag, jmp, safe, disabled, process, program, late, captures>>

FpEnd(t) ==
  /\ call[t].pc = "fp" /\ Goto(t, "done")
  /\ UNCHANGED <<vars, mode, mutex, action, flag, jmp, safe, disabled, process, program, late,
                 captures>>

\* The frame counts if its address is code and the saved frame pointer leads
\* upwards, not too far.
FpTake(t, upwards) ==
  /\ call[t].pc = "lookup" /\ reader[t].pc = "done"
  /\ call' = IF reader[t].found /\ upwards
             THEN [call EXCEPT ![t].pc = "fp", ![t].frames = @ + 1,
                               ![t].written = Max({@, call[t].frames + 1})]
             ELSE [call EXCEPT ![t].pc = "done"]
  /\ reader' = [reader EXCEPT ![t] = NoSearch]
  /\ UNCHANGED <<mapped, g_ranges, g_range_count, writer, stable, loads, mode, mutex, action,
                 flag, jmp, safe, disabled, process, program, late, captures>>

-----------------------------------------------------------------------------
CaptureStep(t) ==
  \/ \E k \in 0 .. Depth : RawReturns(t, k) \/ WalkReturns(t, k)
  \/ Lock(t) \/ Arm(t) \/ UnwStep(t) \/ Disarm(t) \/ Restore(t) \/ Unlock(t) \/ Done(t)
  \/ (\E lr \in Addrs : FpRead(t, lr)) \/ FpEnd(t) \/ \E up \in BOOLEAN : FpTake(t, up)

\* The search of mtt_addr_is_executable, and the scans.
AskRanges(t) == LookupStep(t) /\ UNCHANGED unwindVars
Refresh == mode.scans /\ RefreshStep /\ UNCHANGED unwindVars

CaptureNext ==
  /\ process.end = "up"
  /\ \/ \E t \in mode.threads : Enter(t) \/ Reenter(t) \/ CaptureStep(t) \/ AskRanges(t) \/ Fault(t)
     \/ SetAction \/ Refresh

CaptureSpec == CaptureInit /\ [][CaptureNext]_captureVars

\* A thread inside the tool goes on, and gets the mutex once it stays free.
CaptureFair ==
  CaptureSpec /\ \A t \in Readers :
    WF_captureVars(process.end = "up" /\ (CaptureStep(t) \/ AskRanges(t)))

-----------------------------------------------------------------------------
\* A fault in the unwinder under the handler never ends the process, whichever
\* threads unwind after and beside each other: the thread comes back to its own
\* context (unwind_libunwind.c:105-124), unless the program sets its own action
\* for SIGSEGV while a thread unwinds.
WalkSurvives == process.end # "up" => process.by # "walk" \/ late

\* A record never counts frames that its own capture did not write, whichever
\* unwinder crashed before (unwind_libunwind.c:211-226, tracker.c:436-532).
FramesWritten == \A t \in Readers : call[t].pc = "done" => call[t].frames <= call[t].written

\* When no thread unwinds, the process has the program's action for SIGSEGV, as
\* the program set it last (unwind_libunwind.c:228-229), unless it was set while
\* a thread unwound: restoring undoes it.
ActionRestored == mutex = "none" /\ process.end = "up" => action = program \/ late

\* Every capture comes to an end, also after a crash, when the unwinder
\* allocates, and while a refresh changes the ranges that the walk along the
\* frame pointers searches (tracker.c:405-410, 496-532).
CaptureEnds ==
  \A t \in Readers : call[t].pc # "idle" ~> (call[t].pc = "idle" \/ process.end # "up")
=============================================================================
