------------------------------- MODULE RtAlloc -------------------------------
(***************************************************************************)
(* platform/rt_alloc.cpp as it is built for tests: every allocation is     *)
(* noted against the guards its thread has open, and the failpoint makes   *)
(* one allocation of the whole process fail.  What the memory is and the   *)
(* log of failures are left out.                                           *)
(***************************************************************************)
EXTENDS Integers, Sequences, SequencesExt

CONSTANTS
  Threads,
  MaxArm,        \* bound: the count the failpoint is armed with
  MaxGuards,     \* bound: guards nested in a thread
  MaxArmings     \* bound: calls of armOomFailpoint and disarmOomFailpoint

VARIABLES
  failpoint,             \* oom_failpoint
  pc, remaining,         \* where each thread is in operator new; its remaining
  inCallback, violation, \* the thread's in_audio_callback and violation
  guards,                \* its open guards: what each found, whether the thread has
                         \* allocated while it was innermost, and under one inside it
                         \* that is closed since
  armed, taken, failed,  \* since the last arming: its count, the allocations that were
                         \* counted and those made to fail
  lost,                  \* whether an arming was overwritten by the one before it
  armings

vars == <<failpoint, pc, remaining, inCallback, violation, guards, armed, taken,
          failed, lost, armings>>
failVars == <<failpoint, armed, taken, failed, lost, armings>>
threadVars == <<inCallback, violation, guards>>

Init ==
  /\ failpoint = 0 /\ armed = 0 /\ taken = 0 /\ failed = 0 /\ lost = FALSE /\ armings = 0
  /\ pc = [t \in Threads |-> "run"] /\ remaining = [t \in Threads |-> 0]
  /\ inCallback = [t \in Threads |-> FALSE] /\ violation = [t \in Threads |-> FALSE]
  /\ guards = [t \in Threads |-> << >>]

-----------------------------------------------------------------------------
(***************************************************************************)
(* operator new: record_allocation and shouldFailAllocation, one access to *)
(* the failpoint at a time.                                                *)
(***************************************************************************)
Noted(stack) ==
  IF stack = << >> THEN stack ELSE [stack EXCEPT ![Len(stack)].seen = TRUE]
New(t) ==
  /\ pc[t] = "run"
  /\ violation' = [violation EXCEPT ![t] = @ \/ inCallback[t]]
  /\ guards' = [guards EXCEPT ![t] = Noted(@)]
  /\ remaining' = [remaining EXCEPT ![t] = failpoint]
  /\ pc' = [pc EXCEPT ![t] = IF failpoint = 0 THEN "run" ELSE "take"]
  /\ UNCHANGED inCallback /\ UNCHANGED failVars

\* The exchange succeeds, or (also for no reason) fails and reads again.
TakeBlindly(t) ==        \* deviation: stores without comparing
  /\ pc[t] = "take"
  /\ failpoint' = remaining[t] - 1 /\ taken' = taken + 1
  /\ failed' = IF remaining[t] = 1 THEN failed + 1 ELSE failed
  /\ pc' = [pc EXCEPT ![t] = IF remaining[t] = 1 THEN "disarm" ELSE "run"]
  /\ UNCHANGED <<remaining, armed, lost, armings>> /\ UNCHANGED threadVars
Take(t) ==
  /\ pc[t] = "take" /\ failpoint = remaining[t]
  /\ failpoint' = failpoint - 1 /\ taken' = taken + 1
  /\ failed' = IF failpoint = 1 THEN failed + 1 ELSE failed
  /\ pc' = [pc EXCEPT ![t] = IF failpoint = 1 THEN "disarm" ELSE "run"]
  /\ UNCHANGED <<remaining, armed, lost, armings>> /\ UNCHANGED threadVars
TakeFails(t) ==
  /\ pc[t] = "take"
  /\ remaining' = [remaining EXCEPT ![t] = failpoint]
  /\ pc' = [pc EXCEPT ![t] = IF failpoint = 0 THEN "run" ELSE "take"]
  /\ UNCHANGED failVars /\ UNCHANGED threadVars

\* The allocation that fails disarms, which may meet a later arming.
DisarmAfterFailure(t) ==
  /\ pc[t] = "disarm"
  /\ failpoint' = 0 /\ lost' = (lost \/ failpoint # 0)
  /\ pc' = [pc EXCEPT ![t] = "run"]
  /\ UNCHANGED <<remaining, armed, taken, failed, armings>> /\ UNCHANGED threadVars

\* armOomFailpoint, and disarmOomFailpoint with 0.
Arm(t, afterN) ==
  /\ pc[t] = "run" /\ armings < MaxArmings
  /\ failpoint' = afterN /\ armed' = afterN /\ taken' = 0 /\ failed' = 0 /\ lost' = FALSE
  /\ armings' = armings + 1
  /\ UNCHANGED <<pc, remaining>> /\ UNCHANGED threadVars

-----------------------------------------------------------------------------
(***************************************************************************)
(* ScopedAllocGuard                                                        *)
(***************************************************************************)
Open(t) ==
  /\ pc[t] = "run" /\ Len(guards[t]) < MaxGuards
  /\ guards' = [guards EXCEPT ![t] =
       Append(@, [prevIn |-> inCallback[t], prevViolation |-> violation[t],
                  seen |-> FALSE, under |-> FALSE])]
  /\ inCallback' = [inCallback EXCEPT ![t] = TRUE]
  /\ UNCHANGED <<violation, pc, remaining>> /\ UNCHANGED failVars

\* The guards left open when the innermost is closed.
Closed(stack) ==
  LET outer == Front(stack)
  IN IF outer = << >> THEN outer
     ELSE [outer EXCEPT ![Len(outer)].under = @ \/ Last(stack).seen \/ Last(stack).under]
Close(t) ==
  /\ pc[t] = "run" /\ guards[t] # << >>
  /\ inCallback' = [inCallback EXCEPT ![t] = Last(guards[t]).prevIn]
  /\ violation' = [violation EXCEPT ![t] = Last(guards[t]).prevViolation]
  /\ guards' = [guards EXCEPT ![t] = Closed(@)]
  /\ UNCHANGED <<pc, remaining>> /\ UNCHANGED failVars

\* reset_violation, which is only called where no guard is open.
ResetViolation(t) ==
  /\ pc[t] = "run" /\ guards[t] = << >>
  /\ violation' = [violation EXCEPT ![t] = FALSE]
  /\ UNCHANGED <<inCallback, guards, pc, remaining>> /\ UNCHANGED failVars

violated(t, i) == violation[t] /\ ~guards[t][i].prevViolation

Next ==
  \E t \in Threads :
    \/ New(t) \/ Take(t) \/ TakeFails(t) \/ DisarmAfterFailure(t)
    \/ \E afterN \in 0 .. MaxArm : Arm(t, afterN)
    \/ Open(t) \/ Close(t) \/ ResetViolation(t)

Spec == Init /\ [][Next]_vars

-----------------------------------------------------------------------------
(***************************************************************************)
(* Properties                                                              *)
(***************************************************************************)
\* Of all threads' allocations since the failpoint was armed with N the one that
\* is counted N-th fails and no other, and no count is lost.  An arming that came
\* between the failure before it and the disarming after that failure is lost as a
\* whole: it fails nothing (shouldFailAllocation, armOomFailpoint).
OnlyTheNthFails ==
  /\ failed = IF armed > 0 /\ taken = armed THEN 1 ELSE 0
  /\ taken <= armed
  /\ failpoint = IF lost THEN 0 ELSE armed - taken
  /\ lost => taken < armed

\* What happened since the guard was opened, and why the guard may not say so: all of
\* it was under guards inside it that are closed, whose violations were put back; or
\* the thread had violated an outer guard before, and each guard reports the first only.
Allocated(stack, i) == \E j \in i .. Len(stack) : stack[j].seen \/ stack[j].under
PutBack(stack, i) == \A j \in i .. Len(stack) : ~stack[j].seen
Before(stack, i) == \E j \in 1 .. i - 1 : stack[j].seen

\* A guard that says it was violated is right: its own thread has allocated since it
\* was opened.  One that does not say so may be wrong, for two reasons and no other.
\* Outside every guard nothing is held against a thread, and what other threads
\* allocate never is (ScopedAllocGuard, record_allocation).
GuardsTellTheTruth ==
  \A t \in Threads :
    /\ inCallback[t] <=> guards[t] # << >>
    /\ guards[t] = << >> => ~violation[t]
    /\ \A i \in DOMAIN guards[t] :
         /\ violated(t, i) => Allocated(guards[t], i)
         /\ Allocated(guards[t], i) /\ ~violated(t, i)
              => PutBack(guards[t], i) \/ Before(guards[t], i)

\* What a test may conclude: from a failure, which allocation it was, and from a
\* guard, whether its own code allocates.
RtAllocInv == OnlyTheNthFails /\ GuardsTellTheTruth
=============================================================================
