---------------------------- MODULE ContextProofs ----------------------------
(***************************************************************************)
(* In a build without tail calls every load continues the function that    *)
(* saved, for any number of tasks, any depth of user code and stacks large *)
(* enough for it.                                                          *)
(*                                                                         *)
(* The properties speak of flows that wait or of user code only.  The      *)
(* invariant follows the executing flow through every place between them:  *)
(* where its stack pointer is, and what lies on its stack above.           *)
(***************************************************************************)
EXTENDS ContextSwitch, SeqFacts

USE FlowsDiffer, StackHoldsCalls, BuildKnown

\* The last word that the user code of flow f has pushed.
Top(f) == Base(f) - frames[f]

\* What user code has on its stack: its own calls, below the trampoline's.
UserFrames(f) ==
    /\ \A i \in Top(f) .. Base(f) - 1 : mem[f][i] = "user"
    /\ f # Main => mem[f][Base(f)] = "trampoline"

\* Below them, the frame of gt_runtime_run or of gt_runtime_yield.
CallFrame(f) ==
    UserFrames(f) /\ mem[f][Top(f) - 1] = "user" /\ mem[f][Top(f) - 2] = "regs"

\* A flow that has saved itself and called the scheduler.
Suspended(f) ==
    /\ CallFrame(f) /\ saved[f] = Top(f) - 3 /\ kept[f] = f
    /\ mem[f][saved[f]] = IF f = Main THEN "run.scheduled" ELSE "yield.scheduled"

\* A task that has not run yet.
Configured(t) ==
    /\ saved[t] = Depth - 2 /\ frames[t] = 0
    /\ mem[t][Depth - 2] = "gt_context_start" /\ mem[t][Depth - 1] = "entry"
    /\ mem[t][Depth] = t

Queued == ToSet(ready)

InUser == at = "user" => rsp = Top(cpu) /\ UserFrames(cpu) /\ callee = cpu
InSave ==
    at = "save" => /\ rsp = Top(cpu) - 3 /\ CallFrame(cpu) /\ callee = cpu
                   /\ mem[cpu][rsp] = IF cpu = Main THEN "run.saved" ELSE "yield.saved"
BehindSave ==
    at \in {"run.saved", "yield.saved"} =>
        /\ rsp = Top(cpu) - 2 /\ CallFrame(cpu) /\ callee = cpu /\ rax = 0
        /\ saved[cpu] = rsp - 1 /\ kept[cpu] = cpu /\ (at = "run.saved" <=> cpu = Main)
InSchedule ==
    at = "schedule" =>
        IF rdi = NULL /\ cpu # Main
        THEN rsp = Depth - 4 /\ frames[cpu] = 0
        ELSE /\ rsp = Top(cpu) - 3 /\ Suspended(cpu)
             /\ rdi = IF cpu = Main THEN NULL ELSE cpu
BehindSchedule ==
    at \in {"run.scheduled", "yield.scheduled"} =>
        /\ rsp = Top(cpu) - 2 /\ CallFrame(cpu) /\ callee = cpu
        /\ at = "run.scheduled" <=> cpu = Main
        /\ cpu = Main => ready = <<>>
InTrampoline ==
    at = "trampoline" => cpu # Main /\ rsp = Depth - 1 /\ frames[cpu] = 0
InStart ==
    at = "gt_context_start" =>
        /\ cpu # Main /\ rsp = Depth - 1 /\ frames[cpu] = 0
        /\ mem[cpu][Depth - 1] = "entry" /\ mem[cpu][Depth] = cpu

Places == {"user", "save", "run.saved", "yield.saved", "schedule", "run.scheduled",
           "yield.scheduled", "trampoline", "gt_context_start"}

ExecutingInv ==
    /\ at \in Places
    /\ InUser /\ InSave /\ BehindSave /\ InSchedule /\ BehindSchedule
    /\ InTrampoline /\ InStart

\* Who waits, and that it is ready to be loaded; a task that has ended left no
\* call behind, so its memory can serve another one.
WaitingInv ==
    /\ IsInjective(ready) /\ cpu \notin Queued
    /\ Queued \cup ({cpu} \ {Main}) \subseteq live
    /\ \A t \in Queued : Configured(t) \/ Suspended(t)
    /\ cpu # Main => Suspended(Main)
    /\ \A t \in Tasks \ (Queued \cup {cpu}) : frames[t] = 0

FlowInv == TypeOK /\ ExecutingInv /\ WaitingInv

-----------------------------------------------------------------------------
(* Stacks *)

\* What pushing words below top leaves in each slot.
LEMMA PushedFacts ==
    ASSUME NEW stack \in [Slots -> Words], NEW top \in Int, NEW words \in Seq(Words)
    PROVE  /\ Pushed(stack, top, words) \in [Slots -> Words]
           /\ \A i \in Slots :
                 Pushed(stack, top, words)[i] =
                     IF top - i \in 1 .. Len(words) THEN words[top - i] ELSE stack[i]
  <1>1. \A k \in 1 .. Len(words) : words[k] \in Words
    BY ElementOfSeq
  <1>. QED BY <1>1 DEF Pushed

\* The calls of the model push one word,
LEMMA PushOne ==
    ASSUME NEW stack \in [Slots -> Words], NEW top \in Int,
           NEW a \in Words
    PROVE  /\ Pushed(stack, top, <<a>>) \in [Slots -> Words]
           /\ \A i \in Slots : Pushed(stack, top, <<a>>)[i] =
                                IF i = top - 1 THEN a ELSE stack[i]
  <1> DEFINE words == <<a>>
  <1>1. words \in Seq(Words) /\ Len(words) = 1
    OBVIOUS
  <1>2. words[1] = a
    OBVIOUS
  <1> HIDE DEF words
  <1>3. /\ Pushed(stack, top, words) \in [Slots -> Words]
        /\ \A i \in Slots : Pushed(stack, top, words)[i] =
              IF top - i \in 1 .. Len(words) THEN words[top - i] ELSE stack[i]
    BY <1>1, PushedFacts
  <1>4. \A i \in Slots : Pushed(stack, top, words)[i] =
                                IF i = top - 1 THEN a ELSE stack[i]
    BY <1>1, <1>2, <1>3 DEF Slots
  <1>. QED BY <1>3, <1>4 DEF words

\* two words,
LEMMA PushTwo ==
    ASSUME NEW stack \in [Slots -> Words], NEW top \in Int,
           NEW a \in Words, NEW b \in Words
    PROVE  /\ Pushed(stack, top, <<a, b>>) \in [Slots -> Words]
           /\ \A i \in Slots : Pushed(stack, top, <<a, b>>)[i] =
                                IF i = top - 1 THEN a
                                ELSE IF i = top - 2 THEN b ELSE stack[i]
  <1> DEFINE words == <<a, b>>
  <1>1. words \in Seq(Words) /\ Len(words) = 2
    OBVIOUS
  <1>2. words[1] = a /\ words[2] = b
    OBVIOUS
  <1> HIDE DEF words
  <1>3. /\ Pushed(stack, top, words) \in [Slots -> Words]
        /\ \A i \in Slots : Pushed(stack, top, words)[i] =
              IF top - i \in 1 .. Len(words) THEN words[top - i] ELSE stack[i]
    BY <1>1, PushedFacts
  <1>4. \A i \in Slots : Pushed(stack, top, words)[i] =
                                IF i = top - 1 THEN a
                                ELSE IF i = top - 2 THEN b ELSE stack[i]
    BY <1>1, <1>2, <1>3 DEF Slots
  <1>. QED BY <1>3, <1>4 DEF words

\* or three.
LEMMA PushThree ==
    ASSUME NEW stack \in [Slots -> Words], NEW top \in Int,
           NEW words \in Seq(Words), Len(words) = 3
    PROVE  /\ Pushed(stack, top, words) \in [Slots -> Words]
           /\ \A i \in Slots : Pushed(stack, top, words)[i] =
                                IF i = top - 1 THEN words[1]
                                ELSE IF i = top - 2 THEN words[2]
                                ELSE IF i = top - 3 THEN words[3] ELSE stack[i]
  <1>1. /\ Pushed(stack, top, words) \in [Slots -> Words]
        /\ \A i \in Slots : Pushed(stack, top, words)[i] =
              IF top - i \in 1 .. Len(words) THEN words[top - i] ELSE stack[i]
    BY PushedFacts
  <1>2. \A i \in Slots : Pushed(stack, top, words)[i] =
                                IF i = top - 1 THEN words[1]
                                ELSE IF i = top - 2 THEN words[2]
                                ELSE IF i = top - 3 THEN words[3] ELSE stack[i]
    BY <1>1 DEF Slots
  <1>. QED BY <1>1, <1>2

\* gt_context_configure leaves the function to start with and its argument.
LEMMA InitialFrameFacts ==
    ASSUME NEW t \in Tasks
    PROVE  /\ Pushed(Zeroed, Depth + 1, InitialFrame(t)) \in [Slots -> Words]
           /\ Pushed(Zeroed, Depth + 1, InitialFrame(t))[Depth] = t
           /\ Pushed(Zeroed, Depth + 1, InitialFrame(t))[Depth - 1] = "entry"
           /\ Pushed(Zeroed, Depth + 1, InitialFrame(t))[Depth - 2] = "gt_context_start"
  <1> DEFINE words == InitialFrame(t)
  <1>1. t \in Words /\ "entry" \in Words /\ "gt_context_start" \in Words
    BY DEF Words, ReturnAddresses
  <1>2. words \in Seq(Words) /\ Len(words) = 3
    BY <1>1 DEF InitialFrame
  <1>3. words[1] = t /\ words[2] = "entry" /\ words[3] = "gt_context_start"
    BY DEF InitialFrame
  <1> HIDE DEF words
  <1>4. PICK stack \in [Slots -> Words] : stack = Zeroed
    BY DEF Zeroed, Words
  <1>5. PICK top \in Int : top = Depth + 1
    OBVIOUS
  <1>6. /\ Pushed(stack, top, words) \in [Slots -> Words]
        /\ \A i \in Slots :
              Pushed(stack, top, words)[i] =
                  IF top - i \in 1 .. Len(words) THEN words[top - i] ELSE stack[i]
    BY <1>2, PushedFacts
  <1>7. /\ Depth \in Slots /\ Depth - 1 \in Slots /\ Depth - 2 \in Slots
        /\ top - Depth = 1 /\ top - (Depth - 1) = 2 /\ top - (Depth - 2) = 3
        /\ 1 \in 1 .. Len(words) /\ 2 \in 1 .. Len(words) /\ 3 \in 1 .. Len(words)
    BY <1>2, <1>5 DEF Slots
  <1>8. /\ Pushed(stack, top, words)[Depth] = t
        /\ Pushed(stack, top, words)[Depth - 1] = "entry"
        /\ Pushed(stack, top, words)[Depth - 2] = "gt_context_start"
    BY <1>3, <1>6, <1>7
  <1>9. Pushed(stack, top, words) = Pushed(Zeroed, Depth + 1, InitialFrame(t))
    BY <1>4, <1>5 DEF words
  <1>. QED BY <1>6, <1>8, <1>9

\* User code is never so deep that a call of the runtime overruns the stack.
LEMMA TopBounds ==
    ASSUME TypeOK, NEW f \in Flows
    PROVE  /\ frames[f] \in 0 .. MaxFrames
           /\ Base(f) \in Int /\ Top(f) \in Int /\ Depth \in Int
           /\ Base(f) = IF f = Main THEN Depth + 1 ELSE Depth - 2
           /\ Top(f) = Base(f) - frames[f]
           /\ 5 < Top(f) /\ Top(f) <= Base(f) /\ Base(f) <= Depth + 1
  BY DEF TypeOK, Base, Top

\* A flow of which no word, register or context changes stays as it is.
LEMMA Untouched ==
    ASSUME NEW f, mem'[f] = mem[f], saved'[f] = saved[f], kept'[f] = kept[f],
           frames'[f] = frames[f]
    PROVE  /\ Top(f)' = Top(f)
           /\ Suspended(f) => Suspended(f)'
           /\ Configured(f) => Configured(f)'
  BY DEF Top, Base, Suspended, CallFrame, UserFrames, Configured

\* Those that wait are not disturbed by what happens on the executing stack.
LEMMA WaitingKept ==
    ASSUME TypeOK, WaitingInv, cpu' = cpu, ready' = ready, live' = live,
           \A f \in Flows \ {cpu} : /\ mem'[f] = mem[f] /\ saved'[f] = saved[f]
                                    /\ kept'[f] = kept[f] /\ frames'[f] = frames[f]
    PROVE  WaitingInv'
  <1>1. Queued' = Queued /\ Queued \subseteq Tasks /\ cpu \notin Queued
    BY DEF Queued, TypeOK, ToSet, WaitingInv
  <1>2. \A t \in Queued : Configured(t)' \/ Suspended(t)'
    BY <1>1, Untouched DEF WaitingInv, Flows
  <1>3. cpu # Main => Suspended(Main)'
    BY Untouched DEF WaitingInv, Flows
  <1>. QED BY <1>1, <1>2, <1>3 DEF WaitingInv, Flows

\* What the executing flow does below its frame leaves the frame alone.
LEMMA FramesStay ==
    ASSUME TypeOK, NEW f \in Flows, frames'[f] = frames[f],
           \A i \in Slots : i >= Top(f) - 2 => mem'[f][i] = mem[f][i]
    PROVE  /\ Base(f)' = Base(f) /\ Top(f)' = Top(f)
           /\ UserFrames(f) => UserFrames(f)'
           /\ CallFrame(f) => CallFrame(f)'
  <1>1. Base(f)' = Base(f) /\ Top(f)' = Top(f)
    BY DEF Base, Top
  <1>2. UserFrames(f) => UserFrames(f)'
    <2> SUFFICES ASSUME UserFrames(f) PROVE UserFrames(f)'
      OBVIOUS
    <2>1. \A i \in Top(f) .. Base(f) - 1 : mem'[f][i] = "user"
      BY TopBounds DEF UserFrames, Slots
    <2>2. f # Main => mem'[f][Base(f)] = "trampoline"
      BY TopBounds DEF UserFrames, Slots
    <2>. QED BY <1>1, <2>1, <2>2 DEF UserFrames
  <1>3. mem'[f][Top(f) - 1] = mem[f][Top(f) - 1] /\ mem'[f][Top(f) - 2] = mem[f][Top(f) - 2]
    BY TopBounds DEF Slots
  <1>. QED BY <1>1, <1>2, <1>3 DEF CallFrame

-----------------------------------------------------------------------------
(* The executing flow, action by action *)

LEMMA UserCallsKeeps ==
    ASSUME FlowInv, UserCalls, NEW f \in Flows, cpu = f PROVE FlowInv'
  <1>1. /\ TypeOK /\ WaitingInv /\ rsp = Top(f) /\ UserFrames(f) /\ callee = f
        /\ at = "user" /\ at' = "user" /\ cpu' = f /\ rsp' = rsp - 1 /\ callee' = f
        /\ mem' = [mem EXCEPT ![f] = Pushed(mem[f], rsp, <<"user">>)]
        /\ frames' = [frames EXCEPT ![f] = frames[f] + 1] /\ frames[f] < MaxFrames
        /\ UNCHANGED <<rax, rdi, callee, kept, saved, ready, live>>
    <2>1. Len(<<"user">>) = 1
      OBVIOUS
    <2>. QED BY <2>1 DEF UserCalls, Push, registers, FlowInv, ExecutingInv, InUser
  <1>2. mem[f] \in [Slots -> Words] /\ rsp \in Int /\ "user" \in Words
    BY <1>1 DEF TypeOK, Words, ReturnAddresses
  <1>3. /\ mem'[f] \in [Slots -> Words]
        /\ \A i \in Slots : mem'[f][i] = IF i = rsp - 1 THEN "user" ELSE mem[f][i]
    <2>1. mem'[f] = Pushed(mem[f], rsp, <<"user">>)
      BY <1>1 DEF TypeOK
    <2>. QED BY <1>2, <2>1, PushOne
  <1>4. TypeOK'
    <2>1. mem' \in [Flows -> [Slots -> Words]]
      BY <1>1, <1>3 DEF TypeOK
    <2>2. frames' \in [Flows -> 0 .. MaxFrames]
      BY <1>1 DEF TypeOK
    <2>. QED BY <1>1, <2>1, <2>2, TopBounds DEF TypeOK
  <1>5. WaitingInv'
    BY <1>1, WaitingKept DEF TypeOK
  <1>6. Base(f)' = Base(f) /\ Top(f)' = Top(f) - 1 /\ rsp' = Top(f)'
    <2>1. Base(f)' = Base(f) /\ frames'[f] = frames[f] + 1
      BY <1>1 DEF Base, TypeOK
    <2>2. Top(f)' = Base(f) - (frames[f] + 1)
      BY <2>1 DEF Top
    <2>. QED BY <1>1, <2>1, <2>2, TopBounds
  <1>7. UserFrames(f)'
    <2>1. \A i \in Top(f) .. Base(f) - 1 : i \in Slots /\ mem'[f][i] = "user"
      BY <1>1, <1>3, TopBounds DEF UserFrames, Slots
    <2>2. Top(f) - 1 \in Slots /\ mem'[f][Top(f) - 1] = "user"
      BY <1>1, <1>3, TopBounds DEF Slots
    <2>3. f # Main => Base(f) \in Slots /\ mem'[f][Base(f)] = "trampoline"
      BY <1>1, <1>3, TopBounds DEF UserFrames, Slots
    <2>4. \A i \in Top(f)' .. Base(f)' - 1 : mem'[f][i] = "user"
      BY <1>1, <1>6, <2>1, <2>2, TopBounds
    <2>. QED BY <1>6, <2>3, <2>4 DEF UserFrames
  <1>8. rsp' = Top(cpu)' /\ UserFrames(cpu)'
    BY <1>1, <1>6, <1>7 DEF UserFrames, Top, Base
  <1>9. ExecutingInv'
    BY <1>1, <1>8 DEF ExecutingInv, InUser, InSave, BehindSave, InSchedule, BehindSchedule,
       InTrampoline, InStart, Places
  <1>. QED BY <1>4, <1>5, <1>9 DEF FlowInv
LEMMA UserReturnsKeeps ==
    ASSUME FlowInv, UserReturns, NEW f \in Flows, cpu = f PROVE FlowInv'
  <1>1. /\ TypeOK /\ WaitingInv /\ rsp = Top(f) /\ UserFrames(f) /\ callee = f
        /\ cpu' = f /\ at' = mem[f][rsp] /\ rsp' = rsp + 1
        /\ frames' = [frames EXCEPT ![f] = IF frames[f] > 0 THEN frames[f] - 1 ELSE 0]
        /\ UNCHANGED <<mem, rax, rdi, callee, kept, saved, ready, live>>
        /\ frames[f] > 0 \/ f # Main
    BY DEF UserReturns, Ret, registers, FlowInv, ExecutingInv, InUser
  <1>2. frames'[f] = IF frames[f] > 0 THEN frames[f] - 1 ELSE 0
    BY <1>1 DEF TypeOK
  <1>3. frames' \in [Flows -> 0 .. MaxFrames]
    BY <1>1 DEF TypeOK
  <1>4. WaitingInv'
    BY <1>1, WaitingKept DEF TypeOK
  <1>5. Base(f)' = Base(f) /\ Top(f)' = Base(f) - frames'[f]
    BY <1>1 DEF Base, Top
  <1>6. CASE frames[f] > 0
    <2>1. at' = "user" /\ rsp' \in 1 .. Depth + 1
      BY <1>1, <1>6, TopBounds DEF UserFrames
    <2>2. Top(f)' = Top(f) + 1 /\ rsp' = Top(f)'
      BY <1>1, <1>2, <1>5, <1>6, TopBounds
    <2>3. UserFrames(f)'
      BY <1>1, <1>5, <2>2, TopBounds DEF UserFrames
    <2>4. TypeOK'
      BY <1>1, <1>3, <2>1 DEF TypeOK, Words, ReturnAddresses
    <2>5. rsp' = Top(cpu)' /\ UserFrames(cpu)'
      BY <1>1, <2>2, <2>3 DEF UserFrames, Top, Base
    <2>6. ExecutingInv'
      BY <1>1, <2>1, <2>5 DEF ExecutingInv, InUser, InSave, BehindSave, InSchedule,
         BehindSchedule, InTrampoline, InStart, Places
    <2>. QED BY <1>4, <2>4, <2>6 DEF FlowInv
  <1>7. CASE ~(frames[f] > 0)
    <2>1. f # Main /\ frames[f] = 0 /\ Top(f) = Depth - 2 /\ Base(f) = Depth - 2
      BY <1>1, <1>7, TopBounds
    <2>2. at' = "trampoline" /\ rsp' = Depth - 1 /\ frames'[f] = 0 /\ rsp' \in 1 .. Depth + 1
      BY <1>1, <1>2, <2>1, TopBounds DEF UserFrames
    <2>3. TypeOK'
      BY <1>1, <1>3, <2>2 DEF TypeOK, Words, ReturnAddresses
    <2>4. ExecutingInv'
      BY <1>1, <2>1, <2>2 DEF ExecutingInv, InUser, InSave, BehindSave, InSchedule,
         BehindSchedule, InTrampoline, InStart, Places
    <2>. QED BY <1>4, <2>3, <2>4 DEF FlowInv
  <1>. QED BY <1>6, <1>7

\* The calls of gt_run and gt_yield.
LEMMA CallsKeep ==
    ASSUME FlowInv, CallRun \/ CallYield, NEW f \in Flows, cpu = f PROVE FlowInv'
  <1> DEFINE back == IF f = Main THEN "run.saved" ELSE "yield.saved"
  <1>1. /\ TypeOK /\ WaitingInv /\ rsp = Top(f) /\ UserFrames(f) /\ callee = f
        /\ at' = "save" /\ cpu' = f /\ rsp' = rsp - 3
        /\ mem' = [mem EXCEPT ![f] = Pushed(mem[f], rsp, <<"user", "regs", back>>)]
        /\ UNCHANGED <<rax, rdi, callee, kept, saved, ready, live, frames>>
    <2>1. Len(<<"user", "regs", "run.saved">>) = 3 /\ Len(<<"user", "regs", "yield.saved">>) = 3
      OBVIOUS
    <2>. QED BY <2>1 DEF CallRun, CallYield, Push, registers, FlowInv, ExecutingInv, InUser
  <1>2. /\ mem[f] \in [Slots -> Words] /\ rsp \in Int /\ "user" \in Words /\ "regs" \in Words
        /\ back \in Words
    BY <1>1 DEF TypeOK, Words, ReturnAddresses
  <1> HIDE DEF back
  <1>3. /\ mem'[f] \in [Slots -> Words]
        /\ \A i \in Slots : mem'[f][i] = IF i = rsp - 1 THEN "user"
                                         ELSE IF i = rsp - 2 THEN "regs"
                                         ELSE IF i = rsp - 3 THEN back ELSE mem[f][i]
    <2> DEFINE words == <<"user", "regs", back>>
    <2>1. mem'[f] = Pushed(mem[f], rsp, words)
      BY <1>1 DEF TypeOK
    <2>2. words \in Seq(Words) /\ Len(words) = 3
      BY <1>2
    <2>3. words[1] = "user" /\ words[2] = "regs" /\ words[3] = back
      OBVIOUS
    <2> HIDE DEF words
    <2>4. PICK stack \in [Slots -> Words] : stack = mem[f]
      BY <1>2
    <2>5. PICK top \in Int : top = rsp
      BY <1>2
    <2>6. /\ Pushed(stack, top, words) \in [Slots -> Words]
          /\ \A i \in Slots : Pushed(stack, top, words)[i] =
                               IF i = top - 1 THEN words[1]
                               ELSE IF i = top - 2 THEN words[2]
                               ELSE IF i = top - 3 THEN words[3] ELSE stack[i]
      BY <2>2, PushThree
    <2>. QED BY <2>1, <2>3, <2>4, <2>5, <2>6
  <1>4. TypeOK'
    <2>1. mem' \in [Flows -> [Slots -> Words]]
      BY <1>1, <1>3 DEF TypeOK
    <2>2. rsp' \in 1 .. Depth + 1
      BY <1>1, TopBounds
    <2>. QED BY <1>1, <2>1, <2>2 DEF TypeOK
  <1>5. WaitingInv'
    BY <1>1, WaitingKept DEF TypeOK
  <1>6. /\ rsp - 1 \in Slots /\ rsp - 2 \in Slots /\ rsp - 3 \in Slots
        /\ mem'[f][rsp - 1] = "user" /\ mem'[f][rsp - 2] = "regs" /\ mem'[f][rsp - 3] = back
        /\ \A i \in Slots : i >= rsp => mem'[f][i] = mem[f][i]
    <2>1. rsp \in Int /\ rsp - 1 \in Slots /\ rsp - 2 \in Slots /\ rsp - 3 \in Slots
      BY <1>1, TopBounds DEF Slots
    <2>2. rsp - 2 # rsp - 1 /\ rsp - 3 # rsp - 1 /\ rsp - 3 # rsp - 2
      BY <2>1
    <2>3. \A i \in Slots : i >= rsp => i # rsp - 1 /\ i # rsp - 2 /\ i # rsp - 3
      BY <2>1 DEF Slots
    <2>. QED BY <1>3, <2>1, <2>2, <2>3
  <1>7. Base(f)' = Base(f) /\ Top(f)' = Top(f) /\ UserFrames(f)'
    <2>1. Base(f)' = Base(f) /\ Top(f)' = Top(f)
      BY <1>1 DEF Base, Top
    <2>2. \A i \in Top(f) .. Base(f) - 1 : i \in Slots /\ mem'[f][i] = "user"
      BY <1>1, <1>6, TopBounds DEF UserFrames, Slots
    <2>3. f # Main => Base(f) \in Slots /\ mem'[f][Base(f)] = "trampoline"
      BY <1>1, <1>6, TopBounds DEF UserFrames, Slots
    <2>. QED BY <2>1, <2>2, <2>3 DEF UserFrames
  <1>8. CallFrame(f)'
    BY <1>1, <1>6, <1>7 DEF CallFrame
  <1>9. rsp' = Top(cpu)' - 3 /\ CallFrame(cpu)' /\ mem'[cpu'][rsp'] = back
    BY <1>1, <1>6, <1>7, <1>8 DEF CallFrame, UserFrames, Top, Base
  <1>10. ExecutingInv'
    BY <1>1, <1>9 DEF ExecutingInv, InUser, InSave, BehindSave, InSchedule, BehindSchedule,
       InTrampoline, InStart, Places, back
  <1>. QED BY <1>4, <1>5, <1>10 DEF FlowInv

LEMMA SaveKeeps ==
    ASSUME FlowInv, Save, NEW f \in Flows, cpu = f PROVE FlowInv'
  <1> DEFINE back == IF f = Main THEN "run.saved" ELSE "yield.saved"
  <1>1. /\ TypeOK /\ WaitingInv /\ rsp = Top(f) - 3 /\ CallFrame(f) /\ callee = f
        /\ mem[f][rsp] = back /\ at' = back /\ cpu' = f /\ rsp' = rsp + 1 /\ rax' = 0
        /\ saved' = [saved EXCEPT ![f] = rsp] /\ kept' = [kept EXCEPT ![f] = f]
        /\ UNCHANGED <<mem, rdi, callee, ready, live, frames>>
    BY DEF Save, Ret, FlowInv, ExecutingInv, InSave
  <1>2. saved'[f] = rsp /\ kept'[f] = f
    BY <1>1 DEF TypeOK
  <1>3. TypeOK'
    <2>1. rsp \in 0 .. Depth + 1 /\ rsp' \in 1 .. Depth + 1 /\ at' \in Words
      BY <1>1, TopBounds DEF Words, ReturnAddresses
    <2>2. saved' \in [Flows -> 0 .. Depth + 1]
      BY <1>1, <2>1 DEF TypeOK
    <2>3. kept' \in [Flows -> Flows \cup {NULL}]
      BY <1>1 DEF TypeOK
    <2>. QED BY <1>1, <2>1, <2>2, <2>3 DEF TypeOK
  <1>4. WaitingInv'
    BY <1>1, WaitingKept DEF TypeOK
  <1>5. rsp' = Top(cpu)' - 2 /\ CallFrame(cpu)' /\ saved'[cpu'] = rsp' - 1 /\ kept'[cpu'] = cpu'
    BY <1>1, <1>2, TopBounds, FramesStay DEF CallFrame, UserFrames, Top, Base
  <1>6. ExecutingInv'
    BY <1>1, <1>5 DEF ExecutingInv, InUser, InSave, BehindSave, InSchedule, BehindSchedule,
       InTrampoline, InStart, Places
  <1>. QED BY <1>3, <1>4, <1>6 DEF FlowInv

\* This is the step a tail call breaks: the word it would leave at the saved
\* stack pointer is the one that gt_context_save returned to.
LEMMA SaveReturnsZeroKeeps ==
    ASSUME FlowInv, SaveReturnsZero, ~TailCall, NEW f \in Flows, cpu = f PROVE FlowInv'
  <1> DEFINE back == IF f = Main THEN "run.scheduled" ELSE "yield.scheduled"
  <1>1. /\ TypeOK /\ WaitingInv /\ rsp = Top(f) - 2 /\ CallFrame(f) /\ callee = f
        /\ saved[f] = rsp - 1 /\ kept[f] = f
        /\ at' = "schedule" /\ cpu' = f /\ rsp' = rsp - 1
        /\ rdi' = IF f = Main THEN NULL ELSE f
        /\ mem' = [mem EXCEPT ![f] = Pushed(mem[f], rsp, <<back>>)]
        /\ UNCHANGED <<rax, callee, kept, saved, ready, live, frames>>
    <2>1. Len(<<"run.scheduled">>) = 1 /\ Len(<<"yield.scheduled">>) = 1
      OBVIOUS
    <2>2. at = "run.saved" <=> f = Main
      BY DEF SaveReturnsZero, FlowInv, ExecutingInv, BehindSave
    <2>. QED BY <2>1, <2>2 DEF SaveReturnsZero, Push, registers, FlowInv, ExecutingInv, BehindSave
  <1>2. mem[f] \in [Slots -> Words] /\ rsp \in Int /\ back \in Words
    BY <1>1 DEF TypeOK, Words, ReturnAddresses
  <1> HIDE DEF back
  <1>3. /\ mem'[f] \in [Slots -> Words]
        /\ \A i \in Slots : mem'[f][i] = IF i = rsp - 1 THEN back ELSE mem[f][i]
    <2> DEFINE p == Pushed(mem[f], rsp, <<back>>)
    <2>1. /\ p \in [Slots -> Words]
          /\ \A i \in Slots : p[i] = IF i = rsp - 1 THEN back ELSE mem[f][i]
      BY <1>2, PushOne
    <2> HIDE DEF p
    <2>2. mem'[f] = p
      BY <1>1 DEF TypeOK, p
    <2>. QED BY <2>1, <2>2
  <1>4. TypeOK'
    <2>1. mem' \in [Flows -> [Slots -> Words]]
      BY <1>1, <1>3 DEF TypeOK
    <2>2. rdi' \in Words \cup {NULL}
      BY <1>1 DEF Flows, Words
    <2>3. rsp' \in 1 .. Depth + 1 /\ at' \in Words \cup {"save", "schedule"}
      <3>1. TypeOK /\ rsp = Top(f) - 2
        BY <1>1
      <3>. QED BY <1>1, <3>1, TopBounds
    <2>. QED BY <1>1, <2>1, <2>2, <2>3 DEF TypeOK
  <1>5. WaitingInv'
    BY <1>1, WaitingKept DEF TypeOK
  <1>6. Top(f)' = Top(f) /\ CallFrame(f)' /\ rsp - 1 \in Slots /\ mem'[f][rsp - 1] = back
    <2>1. \A i \in Slots : i >= Top(f) - 2 => mem'[f][i] = mem[f][i]
      <3>1. \A i \in Slots : i >= Top(f) - 2 => i # rsp - 1
        BY <1>1, TopBounds DEF Slots
      <3>. QED BY <1>3, <3>1
    <2>2. rsp - 1 \in Slots
      BY <1>1, TopBounds DEF Slots
    <2>. QED BY <1>1, <1>3, <2>1, <2>2, FramesStay
  <1>7. Suspended(f)'
    BY <1>1, <1>6, TopBounds DEF Suspended, back
  <1>8. rsp' = Top(cpu)' - 3 /\ Suspended(cpu)'
    BY <1>1, <1>6, <1>7, TopBounds DEF Suspended, CallFrame, UserFrames, Top, Base
  <1>9. InSchedule'
    BY <1>1, <1>8 DEF InSchedule, Flows
  <1>10. ExecutingInv'
    BY <1>1, <1>9 DEF ExecutingInv, InUser, InSave, BehindSave, BehindSchedule,
       InTrampoline, InStart, Places
  <1>. QED BY <1>4, <1>5, <1>10 DEF FlowInv

LEMMA YieldReturnsKeeps ==
    ASSUME FlowInv, YieldReturns, NEW f \in Flows, cpu = f PROVE FlowInv'
  <1>1. /\ TypeOK /\ WaitingInv /\ rsp = Top(f) - 2 /\ CallFrame(f) /\ callee = f
        /\ at' = mem[f][rsp + 1] /\ rsp' = rsp + 2 /\ cpu' = f
        /\ UNCHANGED <<mem, rax, rdi, callee, kept, saved, ready, live, frames>>
    <2>1. rsp + 1 + 1 = rsp + 2
      BY DEF FlowInv, TypeOK
    <2>. QED BY <2>1 DEF YieldReturns, Ret, registers, FlowInv, ExecutingInv, BehindSave,
                BehindSchedule
  <1>2. at' = "user" /\ rsp' = Top(f) /\ UserFrames(f) /\ rsp' \in 1 .. Depth + 1
    <2>1. rsp + 1 = Top(f) - 1
      BY <1>1, TopBounds
    <2>. QED BY <1>1, <2>1, TopBounds DEF CallFrame
  <1>3. TypeOK'
    BY <1>1, <1>2 DEF TypeOK, Words, ReturnAddresses
  <1>4. WaitingInv'
    BY <1>1, WaitingKept DEF TypeOK
  <1>5. rsp' = Top(cpu)' /\ UserFrames(cpu)'
    BY <1>1, <1>2, FramesStay DEF UserFrames, Top, Base
  <1>6. ExecutingInv'
    BY <1>1, <1>2, <1>5 DEF ExecutingInv, InUser, InSave, BehindSave, InSchedule,
       BehindSchedule, InTrampoline, InStart, Places
  <1>. QED BY <1>3, <1>4, <1>6 DEF FlowInv

\* gt_run returns only with nobody waiting: every task has ended.
LEMMA RunReturnsKeeps ==
    ASSUME FlowInv, RunReturns PROVE FlowInv'
  <1>1. /\ TypeOK /\ WaitingInv /\ cpu = Main /\ rsp = Top(Main) - 2 /\ CallFrame(Main)
        /\ callee = Main /\ ready = <<>>
        /\ at' = mem[Main][rsp + 1] /\ rsp' = rsp + 2 /\ live' = {}
        /\ mem' = [f \in Flows |-> IF f = Main THEN mem[f] ELSE Zeroed]
        /\ saved' = [f \in Flows |-> IF f = Main THEN saved[f] ELSE 0]
        /\ kept' = [f \in Flows |-> IF f = Main THEN kept[f] ELSE NULL]
        /\ UNCHANGED <<cpu, rax, rdi, callee, ready, frames>>
    <2>1. rsp + 1 + 1 = rsp + 2
      BY DEF FlowInv, TypeOK
    <2>2. at = "run.scheduled"
      BY DEF RunReturns, FlowInv, ExecutingInv, BehindSave
    <2>. QED BY <2>1, <2>2 DEF RunReturns, Ret, FlowInv, ExecutingInv, BehindSchedule
  <1>2. Main \in Flows /\ mem'[Main] = mem[Main] /\ frames'[Main] = frames[Main]
    BY <1>1 DEF Flows
  <1>3. /\ at' = "user" /\ rsp' = Top(Main) /\ UserFrames(Main) /\ rsp' \in 1 .. Depth + 1
    <2>1. rsp + 1 = Top(Main) - 1
      BY <1>1, <1>2, TopBounds
    <2>. QED BY <1>1, <1>2, <2>1, TopBounds DEF CallFrame
  <1>4. TypeOK'
    <2>1. Zeroed \in [Slots -> Words]
      BY DEF Zeroed, Words
    <2>2. mem' \in [Flows -> [Slots -> Words]]
      BY <1>1, <2>1 DEF TypeOK
    <2>3. saved' \in [Flows -> 0 .. Depth + 1]
      BY <1>1 DEF TypeOK
    <2>4. kept' \in [Flows -> Flows \cup {NULL}]
      BY <1>1 DEF TypeOK
    <2>. QED BY <1>1, <1>3, <2>2, <2>3, <2>4 DEF TypeOK, Words, ReturnAddresses
  <1>5. WaitingInv'
    <2>1. Queued = {} /\ Queued' = {}
      BY <1>1 DEF Queued, ToSet
    <2>. QED BY <1>1, <2>1 DEF WaitingInv
  <1>6. rsp' = Top(cpu)' /\ UserFrames(cpu)'
    BY <1>1, <1>2, <1>3, FramesStay DEF UserFrames, Top, Base
  <1>7. ExecutingInv'
    BY <1>1, <1>3, <1>6 DEF ExecutingInv, InUser, InSave, BehindSave, InSchedule,
       BehindSchedule, InTrampoline, InStart, Places
  <1>. QED BY <1>4, <1>5, <1>7 DEF FlowInv

LEMMA TaskExitKeeps ==
    ASSUME FlowInv, TaskExit, NEW f \in Flows, cpu = f PROVE FlowInv'
  <1>1. /\ TypeOK /\ WaitingInv /\ f # Main /\ rsp = Depth - 1 /\ frames[f] = 0
        /\ at' = "schedule" /\ rdi' = NULL /\ cpu' = f /\ rsp' = Depth - 4
        /\ mem' = [mem EXCEPT ![f] = Pushed(mem[f], rsp, <<"exit.called", "regs", "exit.scheduled">>)]
        /\ UNCHANGED <<rax, callee, kept, saved, ready, live, frames>>
    <2>1. Len(<<"exit.called", "regs", "exit.scheduled">>) = 3
      OBVIOUS
    <2>. QED BY <2>1 DEF TaskExit, Push, registers, FlowInv, ExecutingInv, InTrampoline
  <1>2. mem'[f] \in [Slots -> Words]
    <2>1. /\ mem[f] \in [Slots -> Words] /\ rsp \in Int
          /\ "exit.called" \in Words /\ "regs" \in Words /\ "exit.scheduled" \in Words
      BY <1>1 DEF TypeOK, Words, ReturnAddresses
    <2> DEFINE words == <<"exit.called", "regs", "exit.scheduled">>
    <2>2. mem'[f] = Pushed(mem[f], rsp, words)
      BY <1>1 DEF TypeOK
    <2>3. words \in Seq(Words) /\ Len(words) = 3
      BY <2>1
    <2> HIDE DEF words
    <2>4. PICK stack \in [Slots -> Words] : stack = mem[f]
      BY <2>1
    <2>5. PICK top \in Int : top = rsp
      BY <2>1
    <2>6. Pushed(stack, top, words) \in [Slots -> Words]
      BY <2>3, PushThree
    <2>. QED BY <2>2, <2>4, <2>5, <2>6
  <1>3. TypeOK'
    <2>1. mem' \in [Flows -> [Slots -> Words]]
      BY <1>1, <1>2 DEF TypeOK
    <2>2. rsp' \in 1 .. Depth + 1
      BY <1>1
    <2>. QED BY <1>1, <2>1, <2>2 DEF TypeOK
  <1>4. WaitingInv'
    BY <1>1, WaitingKept DEF TypeOK
  <1>5. ExecutingInv'
    BY <1>1 DEF ExecutingInv, InUser, InSave, BehindSave, InSchedule,
       BehindSchedule, InTrampoline, InStart, Places
  <1>. QED BY <1>3, <1>4, <1>5 DEF FlowInv

LEMMA ContextStartKeeps ==
    ASSUME FlowInv, ContextStart, NEW f \in Flows, cpu = f PROVE FlowInv'
  <1>1. /\ TypeOK /\ WaitingInv /\ f # Main /\ rsp = Depth - 1 /\ frames[f] = 0
        /\ at' = "user" /\ rdi' = mem[f][Depth] /\ cpu' = f /\ rsp' = Depth - 2
        /\ callee' = f
        /\ mem' = [mem EXCEPT ![f] =
                      Pushed(mem[f], Depth + 1, <<"context_start.called", "regs", "trampoline">>)]
        /\ UNCHANGED <<rax, kept, saved, ready, live, frames>>
    <2>1. /\ TypeOK /\ WaitingInv /\ f # Main /\ rsp = Depth - 1 /\ frames[f] = 0
      BY DEF ContextStart, FlowInv, ExecutingInv, InStart
    <2>2. rsp + 1 = Depth /\ rsp + 2 = Depth + 1
      BY <2>1
    <2>. QED BY <2>1, <2>2 DEF ContextStart
  <1>2. /\ mem'[f] \in [Slots -> Words]
        /\ Depth - 2 \in Slots /\ mem'[f][Depth - 2] = "trampoline"
    <2>1. /\ mem[f] \in [Slots -> Words] /\ Depth + 1 \in Int
          /\ "context_start.called" \in Words /\ "regs" \in Words /\ "trampoline" \in Words
      BY <1>1 DEF TypeOK, Words, ReturnAddresses
    <2> DEFINE words == <<"context_start.called", "regs", "trampoline">>
    <2>2. mem'[f] = Pushed(mem[f], Depth + 1, words)
      BY <1>1 DEF TypeOK
    <2>3. words \in Seq(Words) /\ Len(words) = 3
      BY <2>1
    <2>4. words[3] = "trampoline"
      OBVIOUS
    <2> HIDE DEF words
    <2>5. /\ Depth - 2 \in Slots /\ Depth - 2 # Depth + 1 - 1 /\ Depth - 2 # Depth + 1 - 2
          /\ Depth - 2 = Depth + 1 - 3
      BY DEF Slots
    <2>6. PICK stack \in [Slots -> Words] : stack = mem[f]
      BY <2>1
    <2>7. PICK top \in Int : top = Depth + 1
      BY <2>1
    <2>8. /\ Pushed(stack, top, words) \in [Slots -> Words]
          /\ Pushed(stack, top, words)[Depth - 2] = words[3]
      BY <2>3, <2>5, <2>7, PushThree
    <2>. QED BY <2>2, <2>4, <2>5, <2>6, <2>7, <2>8
  <1>3. TypeOK'
    <2>1. mem' \in [Flows -> [Slots -> Words]]
      BY <1>1, <1>2 DEF TypeOK
    <2>2. rsp' \in 1 .. Depth + 1 /\ rdi' \in Words
      BY <1>1 DEF TypeOK, Slots
    <2>3. at' \in Words /\ callee' \in Flows
      BY <1>1 DEF Words, ReturnAddresses
    <2>. QED BY <1>1, <2>1, <2>2, <2>3 DEF TypeOK
  <1>4. WaitingInv'
    BY <1>1, WaitingKept DEF TypeOK
  <1>5. Top(f)' = Depth - 2 /\ Base(f)' = Depth - 2
    BY <1>1 DEF Top, Base
  <1>6. rsp' = Top(cpu)' /\ UserFrames(cpu)'
    BY <1>1, <1>2, <1>5 DEF UserFrames, Top, Base
  <1>7. ExecutingInv'
    BY <1>1, <1>6 DEF ExecutingInv, InUser, InSave, BehindSave, InSchedule,
       BehindSchedule, InTrampoline, InStart, Places
  <1>. QED BY <1>3, <1>4, <1>7 DEF FlowInv

\* A new task gets a stack that no call uses.
LEMMA ConfigureTaskKeeps ==
    ASSUME FlowInv, NEW t \in Tasks, ConfigureTask(t), NEW f \in Flows, cpu = f
    PROVE  FlowInv'
  <1>1. /\ TypeOK /\ WaitingInv /\ rsp = Top(f) /\ UserFrames(f) /\ callee = f
        /\ at = "user" /\ at' = "user" /\ t \notin live
        /\ mem' = [mem EXCEPT ![t] = Pushed(Zeroed, Depth + 1, InitialFrame(t))]
        /\ saved' = [saved EXCEPT ![t] = Depth - 2]
        /\ kept' = [kept EXCEPT ![t] = NULL]
        /\ live' = live \cup {t} /\ ready' = Append(ready, t) /\ cpu' = f
        /\ UNCHANGED <<rsp, at, rax, rdi, callee, frames>>
    BY DEF ConfigureTask, FlowInv, ExecutingInv, InUser
  <1>2. t \in Flows /\ t # f /\ t # Main /\ t \notin Queued
    BY <1>1 DEF WaitingInv, Flows
  <1>3. frames[t] = 0
    BY <1>1, <1>2 DEF WaitingInv
  <1>4. /\ mem'[t] \in [Slots -> Words]
        /\ mem'[t][Depth] = t /\ mem'[t][Depth - 1] = "entry"
        /\ mem'[t][Depth - 2] = "gt_context_start"
    <2>1. mem'[t] = Pushed(Zeroed, Depth + 1, InitialFrame(t))
      BY <1>1, <1>2 DEF TypeOK
    <2>. QED BY <2>1, InitialFrameFacts
  <1>5. /\ ready' \in Seq(Tasks) /\ Queued' = Queued \cup {t} /\ IsInjective(ready')
    BY <1>1, <1>2, AppendFacts DEF TypeOK, WaitingInv, Queued
  <1>6. TypeOK'
    <2>1. mem' \in [Flows -> [Slots -> Words]]
      BY <1>1, <1>4 DEF TypeOK
    <2>2. saved' \in [Flows -> 0 .. Depth + 1]
      <3>1. Depth - 2 \in 0 .. Depth + 1
        OBVIOUS
      <3>. QED BY <1>1, <3>1 DEF TypeOK
    <2>3. kept' \in [Flows -> Flows \cup {NULL}]
      BY <1>1 DEF TypeOK
    <2>. QED BY <1>1, <1>5, <2>1, <2>2, <2>3 DEF TypeOK
  <1>7. \A g \in Flows \ {t} : /\ mem'[g] = mem[g] /\ saved'[g] = saved[g]
                               /\ kept'[g] = kept[g] /\ frames'[g] = frames[g]
    BY <1>1, <1>2 DEF TypeOK
  <1>8. WaitingInv'
    <2>1. Configured(t)'
      <3>1. saved'[t] = Depth - 2 /\ frames'[t] = 0
        BY <1>1, <1>2, <1>3 DEF TypeOK
      <3>. QED BY <1>4, <3>1 DEF Configured
    <2>2. Queued \subseteq Flows /\ Main \in Flows
      BY <1>1 DEF Queued, ToSet, TypeOK, Flows
    <2>3. \A g \in Queued : Configured(g)' \/ Suspended(g)'
      BY <1>1, <1>2, <1>7, <2>2, Untouched DEF WaitingInv
    <2>4. cpu' # Main => Suspended(Main)'
      BY <1>1, <1>2, <1>7, <2>2, Untouched DEF WaitingInv
    <2>. QED BY <1>1, <1>2, <1>5, <2>1, <2>3, <2>4 DEF WaitingInv
  <1>9. rsp' = Top(cpu)' /\ UserFrames(cpu)'
    BY <1>1, <1>2, <1>7, FramesStay DEF UserFrames, Top, Base
  <1>10. ExecutingInv'
    BY <1>1, <1>9 DEF ExecutingInv, InUser, InSave, BehindSave, InSchedule,
       BehindSchedule, InTrampoline, InStart, Places
  <1>. QED BY <1>6, <1>8, <1>10 DEF FlowInv

\* The flow that the scheduler takes is suspended or fresh, even when it is the
\* one that has just called, on whose stack the scheduler itself runs.
LEMMA ScheduleKeeps ==
    ASSUME FlowInv, Schedule, NEW f \in Flows, cpu = f PROVE FlowInv'
  <1> DEFINE queue == IF rdi = NULL THEN ready ELSE Append(ready, rdi)
             next == IF queue = <<>> THEN Main ELSE Head(queue)
  <1>1. /\ TypeOK /\ WaitingInv /\ at = "schedule"
        /\ ready' = IF queue = <<>> THEN <<>> ELSE Tail(queue)
        /\ mem' = [mem EXCEPT ![f] = Pushed(mem[f], rsp, <<"regs", "schedule.loaded">>)]
        /\ cpu' = next /\ rsp' = saved[next] + 1 /\ at' = mem'[next][saved[next]]
        /\ rax' = 1 /\ callee' = kept[next]
        /\ UNCHANGED <<rdi, kept, saved, live, frames>>
    BY DEF Schedule, Load, ScheduleFrame, FlowInv
  <1>2. \/ rdi = NULL /\ f # Main /\ frames[f] = 0
        \/ rdi = NULL /\ f = Main /\ Suspended(f) /\ rsp = Top(f) - 3
        \/ rdi = f /\ f \in Tasks /\ Suspended(f) /\ rsp = Top(f) - 3
    BY <1>1 DEF FlowInv, ExecutingInv, InSchedule, Flows
  <1>3. /\ queue \in Seq(Tasks) /\ IsInjective(queue)
        /\ ToSet(queue) = IF rdi = NULL THEN Queued ELSE Queued \cup {f}
    <2>1. ready \in Seq(Tasks) /\ IsInjective(ready) /\ f \notin Queued
      BY <1>1 DEF TypeOK, WaitingInv
    <2>2. CASE rdi = NULL
      BY <2>1, <2>2 DEF Queued
    <2>3. CASE rdi # NULL
      <3>1. rdi = f /\ f \in Tasks /\ queue = Append(ready, f)
        BY <1>2, <2>3
      <3>2. f \notin ToSet(ready)
        BY <2>1 DEF Queued
      <3> HIDE DEF queue
      <3>. QED BY <2>1, <2>3, <3>1, <3>2, AppendFacts DEF Queued
    <2>. QED BY <2>2, <2>3
  <1> HIDE DEF queue
  <1>4. /\ mem'[f] \in [Slots -> Words]
        /\ \A i \in Slots : i >= rsp => mem'[f][i] = mem[f][i]
    <2> DEFINE p == Pushed(mem[f], rsp, <<"regs", "schedule.loaded">>)
    <2>1. /\ mem[f] \in [Slots -> Words] /\ rsp \in Int
          /\ "regs" \in Words /\ "schedule.loaded" \in Words
      BY <1>1 DEF TypeOK, Words, ReturnAddresses
    <2>2. /\ p \in [Slots -> Words]
          /\ \A i \in Slots : p[i] = IF i = rsp - 1 THEN "regs"
                                     ELSE IF i = rsp - 2 THEN "schedule.loaded" ELSE mem[f][i]
      BY <2>1, PushTwo
    <2>3. mem'[f] = p
      BY <1>1 DEF TypeOK
    <2>4. \A i \in Slots : i >= rsp => i # rsp - 1 /\ i # rsp - 2
      BY <2>1 DEF Slots
    <2>. QED BY <2>2, <2>3, <2>4
  <1>5. \A g \in Flows \ {f} : mem'[g] = mem[g]
    BY <1>1 DEF TypeOK
  <1>6. Suspended(f) /\ rsp = Top(f) - 3 => Suspended(f)'
    <2> SUFFICES ASSUME Suspended(f), rsp = Top(f) - 3 PROVE Suspended(f)'
      OBVIOUS
    <2>1. rsp \in Slots /\ \A i \in Slots : i >= Top(f) - 2 => i >= rsp
      BY <1>1, TopBounds DEF Slots
    <2>2. Top(f)' = Top(f) /\ (CallFrame(f) => CallFrame(f)')
      BY <1>1, <1>4, <2>1, FramesStay
    <2>3. mem'[f][saved[f]] = mem[f][saved[f]] /\ saved[f] = rsp
      BY <1>1, <1>4, <2>1, TopBounds DEF Suspended, Slots
    <2>. QED BY <1>1, <2>2, <2>3 DEF Suspended
  <1>7. \A g \in Flows \ {f} : /\ Suspended(g) => Suspended(g)'
                               /\ Configured(g) => Configured(g)'
    BY <1>1, <1>5, Untouched
  <1>8. \A g \in ToSet(queue) : Configured(g)' \/ Suspended(g)'
    <2>1. f \notin Queued /\ Queued \subseteq Flows
      BY <1>1 DEF WaitingInv, Queued, ToSet, TypeOK, Flows
    <2>. QED BY <1>1, <1>2, <1>3, <1>6, <1>7, <2>1 DEF WaitingInv
  <1>9. Main \in Flows /\ Suspended(Main)'
    BY <1>1, <1>2, <1>6, <1>7 DEF WaitingInv, Flows
  <1>10. /\ next \in Flows /\ next \notin ToSet(ready') /\ IsInjective(ready')
         /\ ready' \in Seq(Tasks)
         /\ ToSet(queue) = ToSet(ready') \cup ({next} \ {Main})
         /\ next = Main => ready' = <<>>
         /\ next # Main => next \in Tasks /\ next \in ToSet(queue)
    <2>1. CASE queue = <<>>
      <3>1. next = Main /\ ready' = <<>> /\ ToSet(queue) = {} /\ ToSet(ready') = {}
        BY <1>1, <2>1 DEF ToSet
      <3>. QED BY <1>3, <2>1, <3>1, <1>9
    <2>2. CASE queue # <<>>
      <3>1. next = Head(queue) /\ ready' = Tail(queue)
        BY <1>1, <2>2
      <3>2. /\ next \in Tasks /\ ready' \in Seq(Tasks) /\ next \in ToSet(queue)
            /\ ToSet(queue) = {next} \cup ToSet(ready')
            /\ next \notin ToSet(ready') /\ IsInjective(ready')
        BY <1>3, <2>2, <3>1, HeadTailFacts
      <3>. QED BY <3>2 DEF Flows
    <2>. QED BY <2>1, <2>2
  <1> HIDE DEF next
  <1>11. PICK n \in Flows : n = next
    BY <1>10
  <1>12. \A g \in Flows : /\ frames[g] \in 0 .. MaxFrames /\ saved[g] \in 0 .. Depth + 1
                          /\ kept[g] \in Flows \cup {NULL}
    BY <1>1 DEF TypeOK
  <1>13. mem' \in [Flows -> [Slots -> Words]]
    BY <1>1, <1>4 DEF TypeOK
  <1>14. Configured(n)' \/ Suspended(n)'
    <2>1. CASE n = Main
      BY <1>9, <2>1
    <2>2. CASE n # Main
      BY <1>8, <1>10, <1>11, <2>2
    <2>. QED BY <2>1, <2>2
  <1>15. WaitingInv'
    <2>1. Queued' = ToSet(ready')
      BY DEF Queued
    <2>2. ToSet(queue) \subseteq live
      BY <1>1, <1>2, <1>3 DEF WaitingInv
    <2>3. \A g \in Tasks \ (ToSet(ready') \cup {next}) : frames[g] = 0
      BY <1>1, <1>2, <1>3, <1>10 DEF WaitingInv
    <2>. QED BY <1>1, <1>8, <1>9, <1>10, <2>1, <2>2, <2>3 DEF WaitingInv
  <1>16. CASE Suspended(n)'
    <2>1. /\ CallFrame(n)' /\ saved[n] = Top(n)' - 3 /\ kept[n] = n
          /\ mem'[n][saved[n]] = IF n = Main THEN "run.scheduled" ELSE "yield.scheduled"
      BY <1>1, <1>16 DEF Suspended
    <2>2. /\ at' = IF n = Main THEN "run.scheduled" ELSE "yield.scheduled"
          /\ rsp' = Top(n)' - 2 /\ callee' = n /\ cpu' = n
          /\ rsp' \in 1 .. Depth + 1
      <3>1. Top(n)' = Top(n)
        BY <1>1 DEF Top, Base
      <3>. QED BY <1>1, <1>11, <2>1, <3>1, TopBounds
    <2>3. TypeOK'
      BY <1>1, <1>10, <1>13, <2>2 DEF TypeOK, Words, ReturnAddresses
    <2>4. rsp' = Top(cpu)' - 2 /\ CallFrame(cpu)'
      BY <2>1, <2>2 DEF CallFrame, UserFrames, Top, Base
    <2>5. ExecutingInv'
      BY <1>10, <1>11, <2>2, <2>4 DEF ExecutingInv, InUser, InSave, BehindSave, InSchedule,
         BehindSchedule, InTrampoline, InStart, Places
    <2>. QED BY <1>15, <2>3, <2>5 DEF FlowInv
  <1>17. CASE Configured(n)' /\ ~Suspended(n)'
    <2>1. /\ n # Main /\ saved[n] = Depth - 2 /\ frames'[n] = 0
          /\ mem'[n][Depth - 2] = "gt_context_start" /\ mem'[n][Depth - 1] = "entry"
          /\ mem'[n][Depth] = n
      BY <1>1, <1>9, <1>17 DEF Configured
    <2>2. at' = "gt_context_start" /\ rsp' = Depth - 1 /\ cpu' = n /\ callee' = kept[n]
      BY <1>1, <1>11, <2>1
    <2>3. TypeOK'
      <3>1. rsp' \in 1 .. Depth + 1 /\ callee' \in Flows \cup {NULL}
        BY <1>12, <2>2
      <3>. QED BY <1>1, <1>10, <1>13, <2>2, <3>1 DEF TypeOK, Words, ReturnAddresses
    <2>4. ExecutingInv'
      BY <2>1, <2>2 DEF ExecutingInv, InUser, InSave, BehindSave, InSchedule,
         BehindSchedule, InTrampoline, InStart, Places
    <2>. QED BY <1>15, <2>3, <2>4 DEF FlowInv
  <1>. QED BY <1>14, <1>16, <1>17

-----------------------------------------------------------------------------
(* Every reachable state *)

LEMMA FlowInvInit == Init => FlowInv
  <1> SUFFICES ASSUME Init PROVE FlowInv
    OBVIOUS
  <1>1. Main \in Flows /\ Zeroed \in [Slots -> Words]
    BY DEF Flows, Zeroed, Words
  <1>2. TypeOK
    BY <1>1 DEF Init, TypeOK, Words, ReturnAddresses
  <1>3. Queued = {} /\ IsInjective(ready)
    BY DEF Init, Queued, ToSet, IsInjective
  <1>4. WaitingInv
    BY <1>3 DEF Init, WaitingInv, Flows
  <1>5. InUser
    BY <1>1 DEF Init, InUser, Top, Base, UserFrames
  <1>6. ExecutingInv
    BY <1>5 DEF Init, ExecutingInv, InSave, BehindSave, InSchedule, BehindSchedule,
       InTrampoline, InStart, Places
  <1>. QED BY <1>2, <1>4, <1>6 DEF FlowInv

LEMMA FlowInvStep ==
    ASSUME TailCall = FALSE, FlowInv, [Next]_vars PROVE FlowInv'
  <1>1. PICK f \in Flows : cpu = f
    BY DEF FlowInv, TypeOK
  <1>2. CASE \E t \in Tasks : ConfigureTask(t)
    BY <1>1, <1>2, ConfigureTaskKeeps
  <1>3. CASE UserCalls
    BY <1>1, <1>3, UserCallsKeeps
  <1>4. CASE UserReturns
    BY <1>1, <1>4, UserReturnsKeeps
  <1>5. CASE CallRun \/ CallYield
    BY <1>1, <1>5, CallsKeep
  <1>6. CASE Save
    BY <1>1, <1>6, SaveKeeps
  <1>7. CASE SaveReturnsZero
    BY <1>1, <1>7, SaveReturnsZeroKeeps
  <1>8. CASE YieldReturns
    BY <1>1, <1>8, YieldReturnsKeeps
  <1>9. CASE RunReturns
    BY <1>9, RunReturnsKeeps
  <1>10. CASE Schedule
    BY <1>1, <1>10, ScheduleKeeps
  <1>11. CASE ContextStart
    BY <1>1, <1>11, ContextStartKeeps
  <1>12. CASE TaskExit
    BY <1>1, <1>12, TaskExitKeeps
  <1>13. CASE UNCHANGED vars
    BY <1>13 DEF vars, registers, FlowInv, TypeOK, ExecutingInv, WaitingInv, InUser, InSave,
       BehindSave, InSchedule, BehindSchedule, InTrampoline, InStart, Queued, Suspended,
       Configured, CallFrame, UserFrames, Top, Base
  <1>. QED BY <1>2, <1>3, <1>4, <1>5, <1>6, <1>7, <1>8, <1>9, <1>10, <1>11, <1>12, <1>13
          DEF Next

LEMMA FlowInvariant == ASSUME TailCall = FALSE PROVE Spec => []FlowInv
  <1>1. FlowInv /\ [Next]_vars => FlowInv'
    BY FlowInvStep
  <1>. QED BY <1>1, FlowInvInit, PTL DEF Spec

\* Registers and memory hold words and the stack pointer stays in the stack,
\* however deep user code is when it calls gt_yield or gt_run.
THEOREM ContextTypes == ASSUME TailCall = FALSE PROVE Spec => []TypeOK
  <1>1. FlowInv => TypeOK
    BY DEF FlowInv
  <1>. QED BY <1>1, FlowInvariant, PTL

\* gt_yield and gt_run return to user code with its stack as it was at the call.
THEOREM StacksBalanced == ASSUME TailCall = FALSE PROVE Spec => []StackBalanced
  <1>1. FlowInv => StackBalanced
    BY DEF FlowInv, ExecutingInv, InUser, UserFrames, Top, StackBalanced
  <1>. QED BY <1>1, FlowInvariant, PTL

\* The word and the frame that a waiting flow is continued with are intact,
\* whatever ran on its stack after gt_context_save returned.
THEOREM WaitingStaysIntact == ASSUME TailCall = FALSE PROVE Spec => []WaitingIntact
  <1>1. ASSUME FlowInv, NEW f \in Flows, Suspended(f)
        PROVE  /\ Continues(f) = IF f = Main THEN "run.scheduled" ELSE "yield.scheduled"
               /\ mem[f][saved[f] + 1] = "regs" /\ mem[f][saved[f] + 2] = "user"
               /\ saved[f] + 3 = Base(f) - frames[f]
    <2>1. TypeOK
      BY <1>1 DEF FlowInv
    <2>2. /\ saved[f] = Top(f) - 3 /\ saved[f] + 1 = Top(f) - 2 /\ saved[f] + 2 = Top(f) - 1
          /\ saved[f] + 3 = Top(f) /\ Top(f) = Base(f) - frames[f]
      BY <1>1, <2>1, TopBounds DEF Suspended
    <2>. QED BY <1>1, <2>2 DEF Suspended, CallFrame, Continues
  <1>2. ASSUME FlowInv PROVE WaitingIntact
    <2>1. cpu # Main => Main \in Flows /\ Suspended(Main)
      BY <1>2 DEF FlowInv, WaitingInv, Flows
    <2>2. ASSUME NEW t \in Tasks, \E i \in DOMAIN ready : ready[i] = t
          PROVE  t \in Flows /\ t # Main /\ (Configured(t) \/ Suspended(t))
      BY <1>2, <2>2 DEF FlowInv, WaitingInv, Queued, ToSet, Flows
    <2>3. ASSUME NEW t \in Tasks, \E i \in DOMAIN ready : ready[i] = t
          PROVE  \/ Continues(t) = "gt_context_start" /\ saved[t] = Depth - 2
                 \/ /\ Continues(t) \in {"yield.saved", "yield.scheduled"}
                    /\ mem[t][saved[t] + 1] = "regs" /\ mem[t][saved[t] + 2] = "user"
                    /\ saved[t] + 3 = Base(t) - frames[t]
      <3>1. CASE Configured(t)
        BY <3>1 DEF Configured, Continues
      <3>2. CASE Suspended(t)
        BY <1>1, <1>2, <2>2, <2>3, <3>2
      <3>. QED BY <2>2, <2>3, <3>1, <3>2
    <2>. QED BY <1>1, <1>2, <2>1, <2>3 DEF WaitingIntact
  <1>. QED BY <1>2, FlowInvariant, PTL

\* gt_yield and gt_run give the callee-saved registers back as they were.
THEOREM RegistersAreKept == ASSUME TailCall = FALSE PROVE Spec => []RegistersKept
  <1>1. FlowInv => RegistersKept
    BY DEF FlowInv, ExecutingInv, InUser, RegistersKept
  <1>. QED BY <1>1, FlowInvariant, PTL

\* gt_context_load never returns to the scheduler that called it and no task
\* comes back to gt_context_start: the GT_UNREACHABLE there is unreachable.
THEOREM LoadsNeverReturn == ASSUME TailCall = FALSE PROVE Spec => []LoadNeverReturns
  <1>1. FlowInv => LoadNeverReturns
    BY DEF FlowInv, ExecutingInv, Places, LoadNeverReturns, Lost
  <1>. QED BY <1>1, FlowInvariant, PTL

=============================================================================
