-------------------------- MODULE InterruptsProofs --------------------------
(***************************************************************************)
(* Interrupt entry, dispatch and return for every set of lines, every set  *)
(* of exceptions and any number of interrupts.                             *)
(***************************************************************************)
EXTENDS Interrupts, SequenceTheorems, TLAPS

LevelOf(f) == level(f.vec - IRQ_HANDLER_BASE)

(* Before intr_init interrupts are off and nothing is interrupted, however *)
(* many lines are raised.                                                  *)
BootQuiet == thread = "boot" => frames = <<>> /\ ~iflag

(* Behind the stub's cli interrupts are off.                               *)
PastCli == frames # <<>> /\ top.pc # "gate" => ~iflag

(* The common stub finds the vector in rdi.                                *)
AtPush == frames # <<>> /\ top.pc = "push" => regs.rdi = top.vec

(* Which vectors reach which handler.                                      *)
StubTaken ==
    \A n \in DOMAIN frames :
        /\ frames[n].pc \in {"irq", "handler", "return"} => stub(frames[n].vec) = "irq"
        /\ frames[n].pc = "isr" => stub(frames[n].vec) = "isr"

(* Only the topmost frame is past its cli.                                 *)
LowerAtGate == \A m \in 1 .. Len(frames) - 1 : frames[m].pc = "gate"

(* Only the lowest frame can be an exception; of the others each has a     *)
(* level below that of every frame under it, whether its EOI was sent or   *)
(* not.                                                                    *)
LevelsFall ==
    \A n \in DOMAIN frames :
        /\ n > 1 => frames[n].vec >= IRQ_HANDLER_BASE
        /\ frames[n].vec >= IRQ_HANDLER_BASE =>
              /\ LevelOf(frames[n]) + n <= 9
              /\ \A m \in 1 .. n - 1 : frames[m].vec >= IRQ_HANDLER_BASE =>
                    LevelOf(frames[n]) < LevelOf(frames[m])

(* The inductive invariant.                                                *)
IInv ==
    /\ TypeOK
    /\ BootQuiet
    /\ PastCli
    /\ AtPush
    /\ StubTaken
    /\ RightHandler
    /\ LevelsMatchFrames
    /\ LowerAtGate
    /\ LevelsFall
-----------------------------------------------------------------------------
(* What entering an interrupt does to the stack of frames.                 *)
LEMMA PushFrame ==
    ASSUME NEW s \in Seq(Frame), NEW f \in Frame
    PROVE  LET t == Append(s, f) IN
           /\ t \in Seq(Frame) /\ t # <<>>
           /\ Len(t) = Len(s) + 1 /\ DOMAIN t = 1 .. Len(s) + 1 /\ DOMAIN s = 1 .. Len(s)
           /\ Len(s) \in Nat
           /\ \A k \in 1 .. Len(s) : t[k] = s[k]
           /\ t[Len(s) + 1] = f
  OBVIOUS

(* What a step of the running context does to it.                          *)
LEMMA ReplaceTop ==
    ASSUME NEW s \in Seq(Frame), s # <<>>, NEW g \in Frame
    PROVE  LET t == [s EXCEPT ![Len(s)] = g] IN
           /\ t \in Seq(Frame) /\ t # <<>>
           /\ Len(s) \in Nat \ {0} /\ Len(t) = Len(s)
           /\ DOMAIN t = 1 .. Len(s) /\ DOMAIN s = 1 .. Len(s)
           /\ \A k \in 1 .. Len(s) - 1 : t[k] = s[k]
           /\ t[Len(s)] = g
  OBVIOUS

(* What iretq does to it.                                                  *)
LEMMA PopFrame ==
    ASSUME NEW s \in Seq(Frame), s # <<>>
    PROVE  LET t == SubSeq(s, 1, Len(s) - 1) IN
           /\ t \in Seq(Frame)
           /\ Len(s) \in Nat \ {0} /\ Len(t) = Len(s) - 1
           /\ DOMAIN t = 1 .. Len(s) - 1 /\ DOMAIN s = 1 .. Len(s)
           /\ \A k \in 1 .. Len(s) - 1 : t[k] = s[k]
  <1> DEFINE t == SubSeq(s, 1, Len(s) - 1)
  <1>1. Len(s) \in Nat \ {0} /\ DOMAIN s = 1 .. Len(s)
    OBVIOUS
  <1>2. 1 \in 1 .. Len(s) + 1 /\ Len(s) - 1 \in 0 .. Len(s)
    BY <1>1
  <1>3. t \in Seq(Frame) /\ Len(t) = Len(s) - 1 /\ \A k \in 1 .. Len(s) - 1 : t[k] = s[k]
    BY <1>1, <1>2, SubSeqProperties
  <1> QED
    BY <1>1, <1>3

(* Levels of the controller.                                               *)
LEMMA LevelType == \A v \in Vectors : v >= IRQ_HANDLER_BASE => level(v - IRQ_HANDLER_BASE) \in 0 .. 7
  BY IntrAssumption DEF Vectors, IRQ_HANDLER_BASE, level
-----------------------------------------------------------------------------
(* A frame, as the sequence of frames holds it.                            *)
LEMMA TopIsFrame ==
    ASSUME TypeOK, frames # <<>>
    PROVE  /\ Len(frames) \in Nat \ {0} /\ DOMAIN frames = 1 .. Len(frames)
           /\ top \in Frame /\ top = frames[Len(frames)]
  BY DEF TypeOK, top

(* The nesting of the levels in service follows from that of all levels.   *)
LEMMA LevelsNest == IInv => NestingBounded
  <1> SUFFICES ASSUME IInv, NEW m \in DOMAIN frames, NEW n \in DOMAIN frames, m < n,
                      Pending(frames[m]), Pending(frames[n])
               PROVE  LevelOf(frames[n]) < LevelOf(frames[m])
    BY DEF NestingBounded, LevelOf, IInv, LowerAtGate
  <1>1. m \in 1 .. n - 1
    BY DEF IInv, TypeOK
  <1> QED
    BY <1>1 DEF IInv, LevelsFall, Pending

(* A step of the running context that keeps its vector: the stack is as it *)
(* was below the top, and so are the levels.                               *)
LEMMA TopStep ==
    ASSUME IInv, frames # <<>>, NEW g \in Frame, g.vec = top.vec,
           frames' = [frames EXCEPT ![Len(frames)] = g]
    PROVE  /\ frames' \in Seq(Frame) /\ frames' # <<>>
           /\ Len(frames) \in Nat \ {0} /\ Len(frames') = Len(frames)
           /\ DOMAIN frames' = 1 .. Len(frames) /\ DOMAIN frames = 1 .. Len(frames)
           /\ \A k \in 1 .. Len(frames) - 1 : frames'[k] = frames[k]
           /\ frames'[Len(frames)] = g /\ top' = g
           /\ LevelsFall' /\ LowerAtGate'
  <1>1. frames \in Seq(Frame)
    BY DEF IInv, TypeOK
  <1>2. /\ frames' \in Seq(Frame) /\ frames' # <<>>
        /\ Len(frames) \in Nat \ {0} /\ Len(frames') = Len(frames)
        /\ DOMAIN frames' = 1 .. Len(frames) /\ DOMAIN frames = 1 .. Len(frames)
        /\ \A k \in 1 .. Len(frames) - 1 : frames'[k] = frames[k]
        /\ frames'[Len(frames)] = g /\ top' = g
    BY <1>1, ReplaceTop DEF top
  <1>3. \A k \in DOMAIN frames' : frames'[k].vec = frames[k].vec
    BY <1>2 DEF top
  <1>4. LevelsFall'
    <2> SUFFICES ASSUME NEW n \in DOMAIN frames'
                 PROVE  /\ n > 1 => frames'[n].vec >= IRQ_HANDLER_BASE
                        /\ frames'[n].vec >= IRQ_HANDLER_BASE =>
                              /\ LevelOf(frames'[n]) + n <= 9
                              /\ \A m \in 1 .. n - 1 : frames'[m].vec >= IRQ_HANDLER_BASE =>
                                    LevelOf(frames'[n]) < LevelOf(frames'[m])
      BY DEF LevelsFall, LevelOf, IRQ_HANDLER_BASE, level
    <2>1. \A k \in DOMAIN frames' : LevelOf(frames'[k]) = LevelOf(frames[k])
      BY <1>3 DEF LevelOf
    <2>2. n \in 1 .. Len(frames) /\ Len(frames) \in Nat
      BY <1>2
    <2>3. \A m \in 1 .. n - 1 : m \in 1 .. Len(frames)
      BY <2>2
    <2>4. n \in DOMAIN frames /\ \A m \in 1 .. n - 1 : m \in DOMAIN frames'
      BY <1>2, <2>2, <2>3
    <2> QED
      BY <1>3, <2>1, <2>4 DEF IInv, LevelsFall
  <1>5. LowerAtGate'
    BY <1>2 DEF IInv, LowerAtGate
  <1> QED
    BY <1>2, <1>4, <1>5

(* The levels that are pending, as LevelsMatchFrames counts them.          *)
PendingLevels == {LevelOf(frames[n]) : n \in {m \in DOMAIN frames : Pending(frames[m])}}

(* Such a step does not change them if the frame waits for its EOI before  *)
(* and after it, or neither.                                               *)
LEMMA TopStepLevels ==
    ASSUME IInv, frames # <<>>, NEW g \in Frame, g.vec = top.vec,
           frames' = [frames EXCEPT ![Len(frames)] = g],
           Pending(g) <=> Pending(top), in_service' = in_service
    PROVE  LevelsMatchFrames'
  <1>1. /\ DOMAIN frames' = DOMAIN frames
        /\ \A k \in DOMAIN frames : /\ frames'[k].vec = frames[k].vec
                                    /\ Pending(frames'[k]) <=> Pending(frames[k])
    BY TopStep DEF top
  <1>2. PendingLevels' = PendingLevels
    BY <1>1 DEF PendingLevels, LevelOf
  <1> QED
    BY <1>2 DEF PendingLevels, LevelsMatchFrames, IInv, LevelOf

(* What is left to show for such a step: types, and what the new label     *)
(* promises.                                                               *)
LEMMA TopStepInv ==
    ASSUME IInv, frames # <<>>, NEW g \in Frame, g.vec = top.vec,
           frames' = [frames EXCEPT ![Len(frames)] = g],
           thread' = thread, want' = want, handlers' = handlers, irr' = irr,
           iflag' \in BOOLEAN, obf' \in BOOLEAN, lost' = lost, raised' = raised,
           regs' \in Regs, in_service' \subseteq 0 .. 7,
           g.pc # "gate", ~iflag',
           g.pc = "push" => regs'.rdi = g.vec,
           g.pc \in {"irq", "handler", "return"} => stub(g.vec) = "irq",
           g.pc = "isr" => stub(g.vec) = "isr",
           g.pc \in {"irq", "isr", "handler", "return"} => g.saved.rdi = g.vec,
           LevelsMatchFrames'
    PROVE  IInv'
  <1>1. /\ frames' \in Seq(Frame) /\ frames' # <<>>
        /\ Len(frames) \in Nat \ {0} /\ Len(frames') = Len(frames)
        /\ DOMAIN frames' = 1 .. Len(frames) /\ DOMAIN frames = 1 .. Len(frames)
        /\ \A k \in 1 .. Len(frames) - 1 : frames'[k] = frames[k]
        /\ frames'[Len(frames)] = g /\ top' = g
        /\ LevelsFall' /\ LowerAtGate'
    BY TopStep
  <1>2. TypeOK'
    BY <1>1 DEF IInv, TypeOK
  <1>3. BootQuiet'
    BY DEF IInv, BootQuiet
  <1>4. PastCli' /\ AtPush'
    BY <1>1 DEF PastCli, AtPush
  <1>5. \A k \in DOMAIN frames' : frames'[k] = frames[k] \/ frames'[k] = g
    BY <1>1
  <1>6. StubTaken'
    BY <1>1, <1>5 DEF StubTaken, IInv
  <1>7. RightHandler'
    BY <1>1, <1>5 DEF RightHandler, IInv
  <1> QED
    BY <1>1, <1>2, <1>3, <1>4, <1>6, <1>7 DEF IInv
-----------------------------------------------------------------------------
Labels == {"gate", "id", "push", "irq", "isr", "handler", "return", "halted"}

(* MoveTo changes the label of the topmost frame and nothing else.         *)
LEMMA MoveTop ==
    ASSUME TypeOK, frames # <<>>, NEW l \in Labels, MoveTo(l)
    PROVE  LET g == [top EXCEPT !.pc = l] IN
           /\ g \in Frame /\ g.vec = top.vec /\ g.pc = l /\ g.saved = top.saved
           /\ frames' = [frames EXCEPT ![Len(frames)] = g]
  <1>1. top \in Frame
    BY TopIsFrame
  <1>2. LET g == [top EXCEPT !.pc = l] IN
        g \in Frame /\ g.vec = top.vec /\ g.pc = l /\ g.saved = top.saved
    BY <1>1 DEF Frame, Labels
  <1>3. frames' = [frames EXCEPT ![Len(frames)] = [top EXCEPT !.pc = l]]
    BY DEF MoveTo, top
  <1> QED
    BY <1>2, <1>3

(* cli.                                                                    *)
LEMMA StubCliInv == IInv /\ stub_cli => IInv'
  <1> SUFFICES ASSUME IInv, stub_cli PROVE IInv'
    OBVIOUS
  <1> DEFINE g == [top EXCEPT !.pc = "id"]
  <1>1. frames # <<>> /\ top.pc = "gate" /\ MoveTo("id") /\ TypeOK
    BY DEF stub_cli, At, IInv
  <1>2. /\ g \in Frame /\ g.vec = top.vec /\ g.pc = "id"
        /\ frames' = [frames EXCEPT ![Len(frames)] = g]
    BY <1>1, MoveTop DEF Labels
  <1> HIDE DEF g
  <1>3. LevelsMatchFrames'
    BY <1>1, <1>2, TopStepLevels DEF Pending, Ended, stub_cli, pic
  <1> QED
    BY <1>1, <1>2, <1>3, TopStepInv DEF stub_cli, pic, device, TypeOK

(* mov rdi, vector.                                                        *)
LEMMA StubIdInv == IInv /\ stub_id => IInv'
  <1> SUFFICES ASSUME IInv, stub_id PROVE IInv'
    OBVIOUS
  <1> DEFINE g == [top EXCEPT !.pc = "push"]
  <1>1. frames # <<>> /\ top.pc = "id" /\ MoveTo("push") /\ TypeOK /\ top \in Frame
    BY TopIsFrame DEF stub_id, At, IInv
  <1>2. /\ g \in Frame /\ g.vec = top.vec /\ g.pc = "push"
        /\ frames' = [frames EXCEPT ![Len(frames)] = g]
    BY <1>1, MoveTop DEF Labels
  <1>3. regs' \in Regs /\ regs'.rdi = g.vec
    BY <1>1, <1>2 DEF stub_id, TypeOK, Regs, Frame
  <1> HIDE DEF g
  <1>4. LevelsMatchFrames'
    BY <1>1, <1>2, TopStepLevels DEF Pending, Ended, stub_id, pic
  <1>5. ~iflag'
    BY <1>1 DEF IInv, PastCli, stub_id
  <1> QED
    BY <1>1, <1>2, <1>3, <1>4, <1>5, TopStepInv DEF stub_id, pic, device, TypeOK

(* The registers are saved and the handler's label is chosen.              *)
LEMMA StubPushInv == IInv /\ stub_push => IInv'
  <1> SUFFICES ASSUME IInv, stub_push PROVE IInv'
    OBVIOUS
  <1> DEFINE g == [top EXCEPT !.pc = stub(top.vec), !.saved = regs]
  <1>1. frames # <<>> /\ top.pc = "push" /\ TypeOK /\ top \in Frame /\ regs \in Regs
    BY TopIsFrame DEF stub_push, At, IInv, TypeOK
  <1>2. /\ g \in Frame /\ g.vec = top.vec /\ g.pc = stub(g.vec) /\ g.saved = regs
    BY <1>1 DEF Frame, stub
  <1>3. frames' = [frames EXCEPT ![Len(frames)] = g]
    <2>1. /\ frames \in Seq(Frame) /\ Len(frames) \in DOMAIN frames
          /\ top = frames[Len(frames)]
      BY <1>1, TopIsFrame DEF TypeOK
    <2> QED
      BY <1>1, <2>1 DEF stub_push, top, Frame
  <1> HIDE DEF g
  <1>4. g.saved.rdi = g.vec
    BY <1>1, <1>2 DEF IInv, AtPush
  <1>5. g.pc \in {"irq", "isr"}
    BY <1>2 DEF stub
  <1>6. LevelsMatchFrames'
    BY <1>1, <1>2, <1>3, <1>5, TopStepLevels DEF Pending, Ended, stub_push, pic
  <1>7. ~iflag'
    BY <1>1 DEF IInv, PastCli, stub_push
  <1> QED
    BY <1>1, <1>2, <1>3, <1>4, <1>5, <1>6, <1>7, TopStepInv DEF stub_push, pic, device, TypeOK

(* An exception, or a line without a stub of its own, panics.              *)
LEMMA IsrHandlerInv == IInv /\ intr_isr_handler => IInv'
  <1> SUFFICES ASSUME IInv, intr_isr_handler PROVE IInv'
    OBVIOUS
  <1> DEFINE g == [top EXCEPT !.pc = "halted"]
  <1>1. frames # <<>> /\ top.pc = "isr" /\ MoveTo("halted") /\ TypeOK
    BY DEF intr_isr_handler, At, IInv
  <1>2. /\ g \in Frame /\ g.vec = top.vec /\ g.pc = "halted"
        /\ frames' = [frames EXCEPT ![Len(frames)] = g]
    BY <1>1, MoveTop DEF Labels
  <1> HIDE DEF g
  <1>3. stub(top.vec) = "isr"
    BY <1>1, TopIsFrame DEF IInv, StubTaken
  <1>4. LevelsMatchFrames'
    BY <1>1, <1>2, <1>3, TopStepLevels DEF Pending, Ended, intr_isr_handler, pic
  <1>5. ~iflag'
    BY <1>1 DEF IInv, PastCli, intr_isr_handler
  <1> QED
    BY <1>1, <1>2, <1>4, <1>5, TopStepInv DEF intr_isr_handler, pic, device, TypeOK

(* The registered callback.                                                *)
LEMMA HandlerInv == IInv /\ handler => IInv'
  <1> SUFFICES ASSUME IInv, handler PROVE IInv'
    OBVIOUS
  <1> DEFINE g == [top EXCEPT !.pc = "return"]
  <1>1. frames # <<>> /\ top.pc = "handler" /\ MoveTo("return") /\ TypeOK /\ top \in Frame
    BY TopIsFrame DEF handler, At, IInv
  <1>2. /\ g \in Frame /\ g.vec = top.vec /\ g.pc = "return" /\ g.saved = top.saved
        /\ frames' = [frames EXCEPT ![Len(frames)] = g]
    BY <1>1, MoveTop DEF Labels
  <1>3. regs' \in Regs
    BY <1>1 DEF handler, Regs, Frame
  <1> HIDE DEF g
  <1>4. stub(g.vec) = "irq" /\ g.saved.rdi = g.vec
    BY <1>1, <1>2, TopIsFrame DEF IInv, StubTaken, RightHandler
  <1>5. LevelsMatchFrames'
    BY <1>1, <1>2, TopStepLevels DEF Pending, Ended, handler, pic
  <1>6. ~iflag'
    BY <1>1 DEF IInv, PastCli, handler
  <1>7. obf' \in BOOLEAN
    BY <1>1 DEF handler, keyboard_read, TypeOK
  <1> QED
    BY <1>1, <1>2, <1>3, <1>4, <1>5, <1>6, <1>7, TopStepInv DEF handler, pic, TypeOK
-----------------------------------------------------------------------------
(* The end of interrupt.  The running frame is the one with the lowest     *)
(* level in service, so the non-specific EOI ends its level and no other.  *)
LEMMA EoiEndsOwnLevel ==
    ASSUME IInv, frames # <<>>, top.pc = "irq"
    PROVE  /\ LevelOf(top) \in in_service
           /\ eoi(top.saved.rdi) = in_service \ {LevelOf(top)}
           /\ \A n \in 1 .. Len(frames) - 1 : Pending(frames[n]) => LevelOf(frames[n]) # LevelOf(top)
  <1>1. /\ Len(frames) \in Nat \ {0} /\ DOMAIN frames = 1 .. Len(frames)
        /\ top \in Frame /\ top = frames[Len(frames)]
    BY TopIsFrame DEF IInv
  <1>2. stub(top.vec) = "irq"
    BY <1>1 DEF IInv, StubTaken
  <1>3. Pending(top) /\ top.vec >= IRQ_HANDLER_BASE
    BY <1>2 DEF Pending, Ended, stub, IRQ_HANDLER_BASE
  <1>4. in_service = {LevelOf(frames[n]) : n \in {m \in DOMAIN frames : Pending(frames[m])}}
    BY DEF IInv, LevelsMatchFrames, LevelOf
  <1>5. LevelOf(top) \in in_service
    BY <1>1, <1>3, <1>4
  <1>6. \A n \in 1 .. Len(frames) - 1 : Pending(frames[n]) => LevelOf(top) < LevelOf(frames[n])
    BY <1>1, <1>3 DEF IInv, LevelsFall, Pending
  <1>7. in_service \subseteq 0 .. 7
    BY DEF IInv, TypeOK
  <1>8. \A l \in in_service : l = LevelOf(top) \/ LevelOf(top) < l
    BY <1>1, <1>4, <1>6
  <1> DEFINE x == LevelOf(top)
  <1>9. x \in in_service /\ \A l \in in_service : l = x \/ x < l
    BY <1>5, <1>8
  <1> HIDE DEF x
  <1>10. \A l \in in_service : l \in 0 .. 7
    BY <1>7
  <1>11. x \in in_service /\ x \in Int /\ \A l \in in_service : l \in Int /\ (l = x \/ x < l)
    BY <1>9, <1>10
  <1>12. \A l \in in_service : (\A m \in in_service : l <= m) <=> l = x
    BY <1>11
  <1>13. eoi(top.saved.rdi) = in_service \ {LevelOf(top)}
    BY <1>12 DEF eoi, x
  <1>14. \A n \in 1 .. Len(frames) - 1 : Pending(frames[n]) => LevelOf(frames[n]) \in in_service
    BY <1>1, <1>4
  <1>15. \A n \in 1 .. Len(frames) - 1 : Pending(frames[n]) => LevelOf(frames[n]) # x
    BY <1>6, <1>14, <1>11 DEF x
  <1> QED
    BY <1>5, <1>13, <1>15 DEF x

(* intr_irq_handler.                                                       *)
LEMMA IrqHandlerInv == IInv /\ intr_irq_handler => IInv'
  <1> SUFFICES ASSUME IInv, intr_irq_handler PROVE IInv'
    OBVIOUS
  <1>1. /\ frames # <<>> /\ top.pc = "irq" /\ TypeOK /\ top \in Frame
        /\ in_service' = eoi(top.saved.rdi)
    BY TopIsFrame DEF intr_irq_handler, At, IInv
  <1>2. PICK l \in {"handler", "halted"} : MoveTo(l)
    BY DEF intr_irq_handler
  <1> DEFINE g == [top EXCEPT !.pc = l]
  <1>3. /\ g \in Frame /\ g.vec = top.vec /\ g.pc = l /\ g.saved = top.saved
        /\ frames' = [frames EXCEPT ![Len(frames)] = g]
    BY <1>1, <1>2, MoveTop DEF Labels
  <1> HIDE DEF g
  <1>4. stub(g.vec) = "irq" /\ g.saved.rdi = g.vec
    BY <1>1, <1>3, TopIsFrame DEF IInv, StubTaken, RightHandler
  <1>5. ~Pending(g) /\ Pending(top)
    BY <1>1, <1>3, <1>4 DEF Pending, Ended, stub, IRQ_HANDLER_BASE
  <1>6. LevelsMatchFrames'
    <2>1. in_service' = in_service \ {LevelOf(top)}
      BY <1>1, EoiEndsOwnLevel
    <2>2. \A n \in 1 .. Len(frames) - 1 : Pending(frames[n]) => LevelOf(frames[n]) # LevelOf(top)
      BY <1>1, EoiEndsOwnLevel
    <2>3. /\ Len(frames) \in Nat \ {0}
          /\ DOMAIN frames' = 1 .. Len(frames) /\ DOMAIN frames = 1 .. Len(frames)
          /\ \A k \in 1 .. Len(frames) - 1 : frames'[k] = frames[k]
          /\ frames'[Len(frames)] = g
      BY <1>1, <1>3, TopStep
    <2>4. in_service = {LevelOf(frames[n]) : n \in {m \in DOMAIN frames : Pending(frames[m])}}
      BY DEF IInv, LevelsMatchFrames, LevelOf
    <2> DEFINE Rest == {LevelOf(frames[n]) : n \in {m \in 1 .. Len(frames) - 1 : Pending(frames[m])}}
    <2>5. in_service = Rest \cup {LevelOf(top)} /\ LevelOf(top) \notin Rest
      BY <1>5, <2>2, <2>3, <2>4 DEF top
    <2>6. {LevelOf(frames'[n]) : n \in {m \in DOMAIN frames' : Pending(frames'[m])}} = Rest
      BY <1>5, <2>3
    <2> QED
      BY <2>1, <2>5, <2>6 DEF LevelsMatchFrames, LevelOf
  <1>7. ~iflag'
    BY <1>1 DEF IInv, PastCli, intr_irq_handler
  <1>8. in_service' \subseteq 0 .. 7
    BY <1>1, EoiEndsOwnLevel DEF TypeOK
  <1> QED
    BY <1>1, <1>3, <1>4, <1>6, <1>7, <1>8, TopStepInv DEF intr_irq_handler, device, TypeOK

(* Entering an interrupt or an exception.  The new frame is on top, at its *)
(* gate, and the frames below it are at theirs: a line because interrupts  *)
(* are on, an exception because it comes from the thread.                  *)
LEMMA EnterInv ==
    ASSUME IInv, NEW v \in Vectors, Enter(v), thread # "boot",
           frames = <<>> \/ (iflag /\ v >= IRQ_HANDLER_BASE),
           v >= IRQ_HANDLER_BASE =>
               /\ level(v - IRQ_HANDLER_BASE) \in 0 .. 7
               /\ \A l \in in_service : level(v - IRQ_HANDLER_BASE) < l,
           in_service' = in_service \cup
               (IF v >= IRQ_HANDLER_BASE THEN {level(v - IRQ_HANDLER_BASE)} ELSE {}),
           irr' \subseteq Irqs,
           UNCHANGED <<thread, want, regs, handlers, device>>
    PROVE  IInv'
  <1> DEFINE f == [vec |-> v, pc |-> "gate", flag |-> iflag, entry |-> regs, saved |-> regs]
  <1>1. /\ frames \in Seq(Frame) /\ iflag \in BOOLEAN /\ regs \in Regs
        /\ in_service \subseteq 0 .. 7
    BY DEF IInv, TypeOK
  <1>2. f \in Frame /\ f.vec = v /\ f.pc = "gate" /\ frames' = Append(frames, f)
    BY <1>1 DEF Frame, Enter
  <1> HIDE DEF f
  <1>3. /\ frames' \in Seq(Frame) /\ frames' # <<>> /\ Len(frames) \in Nat
        /\ Len(frames') = Len(frames) + 1
        /\ DOMAIN frames' = 1 .. Len(frames) + 1 /\ DOMAIN frames = 1 .. Len(frames)
        /\ \A k \in 1 .. Len(frames) : frames'[k] = frames[k]
        /\ frames'[Len(frames) + 1] = f /\ top' = f
    BY <1>1, <1>2, PushFrame DEF top
  <1>4. \A k \in 1 .. Len(frames) : frames[k].pc = "gate"
    BY <1>1, <1>3 DEF IInv, PastCli, LowerAtGate, top
  <1>5. TypeOK'
    BY <1>1, <1>3 DEF IInv, TypeOK, Enter, device
  <1>6. BootQuiet' /\ PastCli' /\ AtPush'
    BY <1>2, <1>3 DEF BootQuiet, PastCli, AtPush
  <1>7. StubTaken' /\ RightHandler'
    BY <1>2, <1>3, <1>4 DEF StubTaken, RightHandler
  <1>8. LowerAtGate'
    BY <1>3, <1>4 DEF LowerAtGate
  <1>9. Pending(f) <=> v >= IRQ_HANDLER_BASE
    BY <1>2 DEF Pending, Ended
  <1>10. in_service = {LevelOf(frames[n]) : n \in {m \in DOMAIN frames : Pending(frames[m])}}
    BY DEF IInv, LevelsMatchFrames, LevelOf
  <1>11. LevelsMatchFrames'
    <2>1. {LevelOf(frames'[n]) : n \in {m \in DOMAIN frames' : Pending(frames'[m])}}
          = {LevelOf(frames[n]) : n \in {m \in DOMAIN frames : Pending(frames[m])}}
            \cup (IF v >= IRQ_HANDLER_BASE THEN {LevelOf(f)} ELSE {})
      BY <1>3, <1>9
    <2> QED
      BY <2>1, <1>2, <1>10 DEF LevelsMatchFrames, LevelOf
  <1>12. LevelsFall'
    <2>1. \A k \in 1 .. Len(frames) : frames[k].vec >= IRQ_HANDLER_BASE =>
              Pending(frames[k]) /\ LevelOf(frames[k]) \in in_service
      BY <1>3, <1>4, <1>10 DEF Pending, Ended
    <2>2. v >= IRQ_HANDLER_BASE => LevelOf(f) \in 0 .. 7
      BY <1>2 DEF LevelOf
    <2>3. \A k \in 1 .. Len(frames) : v >= IRQ_HANDLER_BASE /\ frames[k].vec >= IRQ_HANDLER_BASE =>
              LevelOf(f) < LevelOf(frames[k])
      BY <1>2, <2>1 DEF LevelOf
    <2>4. v >= IRQ_HANDLER_BASE => LevelOf(f) + (Len(frames) + 1) <= 9
      <3>1. CASE Len(frames) <= 1
        BY <3>1, <1>3, <2>2
      <3>2. CASE Len(frames) > 1
        <4>1. Len(frames) \in DOMAIN frames /\ frames[Len(frames)].vec >= IRQ_HANDLER_BASE
          BY <3>2, <1>3 DEF IInv, LevelsFall
        <4>2. LevelOf(frames[Len(frames)]) + Len(frames) <= 9
          BY <4>1 DEF IInv, LevelsFall
        <4>3. LevelOf(frames[Len(frames)]) \in 0 .. 7
          BY <4>1, <1>1, <1>3, <2>1
        <4> QED
          BY <4>1, <4>2, <4>3, <2>2, <2>3, <1>3
      <3> QED
        BY <3>1, <3>2, <1>3
    <2> SUFFICES ASSUME NEW n \in DOMAIN frames'
                 PROVE  /\ n > 1 => frames'[n].vec >= IRQ_HANDLER_BASE
                        /\ frames'[n].vec >= IRQ_HANDLER_BASE =>
                              /\ LevelOf(frames'[n]) + n <= 9
                              /\ \A m \in 1 .. n - 1 : frames'[m].vec >= IRQ_HANDLER_BASE =>
                                    LevelOf(frames'[n]) < LevelOf(frames'[m])
      BY DEF LevelsFall, LevelOf, IRQ_HANDLER_BASE, level
    <2>5. CASE n \in 1 .. Len(frames)
      <3>1. n \in DOMAIN frames /\ frames'[n] = frames[n]
        BY <2>5, <1>3
      <3>2. \A m \in 1 .. n - 1 : m \in 1 .. Len(frames) /\ frames'[m] = frames[m]
        BY <2>5, <1>3
      <3> QED
        BY <3>1, <3>2 DEF IInv, LevelsFall
    <2>6. CASE n = Len(frames) + 1
      <3>1. frames'[n] = f /\ \A m \in 1 .. n - 1 : m \in 1 .. Len(frames) /\ frames'[m] = frames[m]
        BY <2>6, <1>3
      <3>2. n > 1 => v >= IRQ_HANDLER_BASE
        BY <2>6, <1>3
      <3> QED
        BY <3>1, <3>2, <2>3, <2>4, <2>6, <1>2
    <2> QED
      BY <2>5, <2>6, <1>3
  <1> QED
    BY <1>5, <1>6, <1>7, <1>8, <1>11, <1>12 DEF IInv

(* The CPU accepts a line.                                                 *)
LEMMA AcceptInv == ASSUME IInv, NEW i \in Irqs, accept(i) PROVE IInv'
  <1> DEFINE v == IRQ_HANDLER_BASE + i
  <1>1. i \in 0 .. 15 /\ v \in Vectors /\ v >= IRQ_HANDLER_BASE /\ v - IRQ_HANDLER_BASE = i
    BY IntrAssumption DEF Vectors, IRQ_HANDLER_BASE
  <1>2. /\ Enter(v) /\ i \in irr /\ iflag /\ \A l \in in_service : level(i) < l
        /\ in_service' = in_service \cup {level(i)}
        /\ irr' = irr \ {i}
        /\ UNCHANGED <<thread, want, regs, handlers, device>>
    BY DEF accept, Deliverable
  <1>3. level(i) \in 0 .. 7 /\ irr' \subseteq Irqs /\ thread # "boot"
    BY <1>1, <1>2, LevelType DEF IInv, TypeOK, BootQuiet
  <1> HIDE DEF v
  <1> QED
    BY <1>1, <1>2, <1>3, EnterInv

(* The thread raises an exception.                                         *)
LEMMA ExceptionInv == ASSUME IInv, NEW v \in Exceptions, exception(v) PROVE IInv'
  <1>1. v \in Vectors /\ v \in 0 .. 31 /\ ~(v >= IRQ_HANDLER_BASE)
    BY IntrAssumption DEF Vectors, IRQ_HANDLER_BASE
  <1>2. /\ Enter(v) /\ frames = <<>> /\ thread # "boot" /\ irr' \subseteq Irqs
        /\ in_service' = in_service \cup {}
        /\ UNCHANGED <<thread, want, regs, handlers, device>>
    BY DEF exception, Running, pic, IInv, TypeOK
  <1> QED
    BY <1>1, <1>2, EnterInv

(* Pops and iretq: the frame that returns has sent its EOI, and the one    *)
(* below it is at its gate.                                                *)
LEMMA ReturnInv == IInv /\ stub_return => IInv'
  <1> SUFFICES ASSUME IInv, stub_return PROVE IInv'
    OBVIOUS
  <1>1. /\ frames \in Seq(Frame) /\ frames # <<>> /\ top.pc = "return" /\ top \in Frame
        /\ top = frames[Len(frames)]
    BY TopIsFrame DEF IInv, TypeOK, stub_return, At
  <1>2. /\ frames' \in Seq(Frame) /\ Len(frames) \in Nat \ {0} /\ Len(frames') = Len(frames) - 1
        /\ DOMAIN frames' = 1 .. Len(frames) - 1 /\ DOMAIN frames = 1 .. Len(frames)
        /\ \A k \in 1 .. Len(frames) - 1 : frames'[k] = frames[k]
    BY <1>1, PopFrame DEF stub_return
  <1>3. \A k \in 1 .. Len(frames) - 1 : k \in DOMAIN frames /\ frames'[k].pc = "gate"
    BY <1>2 DEF IInv, LowerAtGate
  <1>4. TypeOK'
    BY <1>1, <1>2 DEF IInv, TypeOK, stub_return, pic, device, Frame
  <1>5. frames' # <<>> => top'.pc = "gate"
    BY <1>2, <1>3 DEF top
  <1>6. BootQuiet' /\ PastCli' /\ AtPush'
    BY <1>1, <1>5 DEF IInv, BootQuiet, PastCli, AtPush, stub_return, pic
  <1>7. StubTaken' /\ RightHandler'
    BY <1>2, <1>3 DEF StubTaken, RightHandler
  <1>8. LowerAtGate'
    BY <1>2, <1>3 DEF LowerAtGate
  <1>9. LevelsMatchFrames'
    <2>1. ~Pending(frames[Len(frames)])
      BY <1>1 DEF Pending, Ended
    <2>2. {LevelOf(frames'[n]) : n \in {m \in DOMAIN frames' : Pending(frames'[m])}}
          = {LevelOf(frames[n]) : n \in {m \in DOMAIN frames : Pending(frames[m])}}
      BY <1>2, <2>1
    <2> QED
      BY <2>2 DEF LevelsMatchFrames, LevelOf, IInv, stub_return, pic
  <1>10. LevelsFall'
    <2> SUFFICES ASSUME NEW n \in DOMAIN frames'
                 PROVE  /\ n > 1 => frames'[n].vec >= IRQ_HANDLER_BASE
                        /\ frames'[n].vec >= IRQ_HANDLER_BASE =>
                              /\ LevelOf(frames'[n]) + n <= 9
                              /\ \A m \in 1 .. n - 1 : frames'[m].vec >= IRQ_HANDLER_BASE =>
                                    LevelOf(frames'[n]) < LevelOf(frames'[m])
      BY DEF LevelsFall, LevelOf, IRQ_HANDLER_BASE, level
    <2>1. n \in 1 .. Len(frames) - 1 /\ n \in DOMAIN frames /\ frames'[n] = frames[n]
      BY <1>2
    <2>2. \A m \in 1 .. n - 1 : m \in 1 .. Len(frames) - 1 /\ frames'[m] = frames[m]
      BY <1>2, <2>1
    <2> QED
      BY <2>1, <2>2 DEF IInv, LevelsFall
  <1> QED
    BY <1>4, <1>6, <1>7, <1>8, <1>9, <1>10 DEF IInv

(* A step that leaves the frames, the registers, the levels in service and *)
(* the interrupt flag of a stack that is not empty alone.                  *)
LEMMA QuietInv ==
    ASSUME IInv, TypeOK', BootQuiet', frames = <<>> \/ iflag' = iflag,
           UNCHANGED <<frames, regs, in_service>>
    PROVE  IInv'
  <1>1. PastCli' /\ AtPush'
    BY DEF IInv, PastCli, AtPush, top
  <1>2. StubTaken' /\ RightHandler' /\ LowerAtGate' /\ LevelsFall'
    BY DEF IInv, StubTaken, RightHandler, LowerAtGate, LevelsFall
  <1>3. LevelsMatchFrames'
    BY DEF IInv, LevelsMatchFrames
  <1> QED
    BY <1>1, <1>2, <1>3 DEF IInv

(* intr_init, which also clears the levels in service; there were none.    *)
LEMMA InitStepInv == IInv /\ intr_init => IInv'
  <1> SUFFICES ASSUME IInv, intr_init PROVE IInv'
    OBVIOUS
  <1>1. frames = <<>>
    BY DEF IInv, BootQuiet, intr_init
  <1>2. in_service = {}
    BY <1>1 DEF IInv, LevelsMatchFrames
  <1>3. TypeOK' /\ BootQuiet'
    BY <1>1 DEF IInv, TypeOK, BootQuiet, intr_init, pic_init, Ids
  <1> QED
    BY <1>1, <1>2, <1>3, QuietInv DEF intr_init, pic_init

(* Every step keeps the invariant.                                         *)
LEMMA NextInv == IInv /\ [Next]_vars => IInv'
  <1> SUFFICES ASSUME IInv, [Next]_vars PROVE IInv'
    OBVIOUS
  <1>1. ASSUME NEW i \in Irqs, raise(i) PROVE IInv'
    <2>1. TypeOK' /\ BootQuiet'
      BY <1>1, IntrAssumption DEF IInv, TypeOK, BootQuiet, raise
    <2> QED
      BY <1>1, <2>1, QuietInv DEF raise
  <1>2. CASE key
    <2>1. obf' \in BOOLEAN
      BY <1>2, Zenon DEF key
    <2>2. /\ raised \in 0 .. MAX_RAISE /\ raised < MAX_RAISE /\ raised' = raised + 1
          /\ irr \subseteq Irqs
          /\ \E i \in Irqs : irr' = irr \cup {i}
      BY <1>2, Zenon DEF IInv, TypeOK, key
    <2>3. raised' \in 0 .. MAX_RAISE /\ irr' \subseteq Irqs
      BY <2>2, IntrAssumption
    <2>4. TypeOK' /\ BootQuiet'
      BY <1>2, <2>1, <2>3 DEF IInv, TypeOK, BootQuiet, key
    <2> QED
      BY <1>2, <2>4, QuietInv DEF key
  <1>3. ASSUME NEW id \in Vectors, intr_handler_register(id) PROVE IInv'
    <2>1. id < INTR_ID_MAX => id \in Ids
      BY <1>3, IntrAssumption DEF Vectors, IRQ_HANDLER_BASE, INTR_ID_MAX, Ids
    <2>2. handlers' \subseteq Ids /\ thread' \in {"run", "halted"} /\ frames = <<>>
      BY <1>3, <2>1, IntrAssumption
         DEF IInv, TypeOK, intr_handler_register, Running, INTR_ID_MAX, Vectors, IRQ_HANDLER_BASE
    <2>3. TypeOK' /\ BootQuiet'
      BY <1>3, <2>2 DEF IInv, TypeOK, BootQuiet, intr_handler_register, pic, device
    <2> QED
      BY <1>3, <2>2, <2>3, QuietInv DEF intr_handler_register, pic
  <1>4. CASE intr_irq_enable \/ intr_irq_disable
    <2>1. TypeOK' /\ BootQuiet' /\ frames = <<>>
      BY <1>4 DEF IInv, TypeOK, BootQuiet, intr_irq_enable, intr_irq_disable, Running, pic, device
    <2> QED
      BY <1>4, <2>1, QuietInv DEF intr_irq_enable, intr_irq_disable, pic
  <1>5. CASE kernel_panic
    <2>1. TypeOK' /\ BootQuiet'
      BY <1>5 DEF IInv, TypeOK, BootQuiet, kernel_panic, pic, device
    <2> QED
      BY <1>5, <2>1, QuietInv DEF kernel_panic, pic
  <1>6. CASE UNCHANGED vars \/ hlt
    <2>1. UNCHANGED vars
      BY <1>6 DEF hlt
    <2>2. TypeOK' /\ BootQuiet'
      BY <2>1 DEF vars, IInv, TypeOK, BootQuiet
    <2> QED
      BY <2>1, <2>2, QuietInv DEF vars
  <1> QED
    BY <1>1, <1>2, <1>3, <1>4, <1>5, <1>6, InitStepInv, AcceptInv, ExceptionInv, StubCliInv,
       StubIdInv, StubPushInv, IsrHandlerInv, IrqHandlerInv, HandlerInv, ReturnInv
       DEF Next, Cpu, ThreadStep
-----------------------------------------------------------------------------
(* The inductive invariant holds in every state.                           *)
THEOREM InductiveInvariant == Spec => []IInv
  <1>1. Init => IInv
    <2> SUFFICES ASSUME Init PROVE IInv
      OBVIOUS
    <2>1. frames = <<>> /\ DOMAIN frames = {} /\ Len(frames) = 0
      BY DEF Init
    <2>2. regs \in Regs /\ raised \in 0 .. MAX_RAISE
      BY IntrAssumption DEF Init, Regs
    <2>3. iflag \in BOOLEAN /\ want \in BOOLEAN /\ obf \in BOOLEAN /\ lost \in BOOLEAN
      BY Zenon DEF Init
    <2>4. frames \in Seq(Frame) /\ thread \in {"boot", "run", "halted"}
      BY DEF Init
    <2>5. TypeOK /\ BootQuiet
      BY <2>1, <2>2, <2>3, <2>4 DEF Init, TypeOK, BootQuiet
    <2>6. PastCli /\ AtPush /\ StubTaken /\ RightHandler /\ LowerAtGate /\ LevelsFall
      BY <2>1 DEF PastCli, AtPush, StubTaken, RightHandler, LowerAtGate, LevelsFall
    <2>7. LevelsMatchFrames
      BY <2>1 DEF Init, LevelsMatchFrames
    <2> QED
      BY <2>5, <2>6, <2>7 DEF IInv
  <1> QED
    BY <1>1, NextInv, PTL DEF Spec

(* Types: no frame and no register ever holds a value that the stubs and   *)
(* handlers cannot put there.                                              *)
THEOREM TypeCorrect == Spec => []TypeOK
  <1>1. IInv => TypeOK
    BY DEF IInv
  <1> QED
    BY <1>1, InductiveInvariant, PTL

(* A handler is called with the vector its frame was entered for, however  *)
(* many interrupts arrive between a gate and its stub's cli.               *)
THEOREM RightHandlerAlways == Spec => []RightHandler
  <1>1. IInv => RightHandler
    BY DEF IInv
  <1> QED
    BY <1>1, InductiveInvariant, PTL

(* Each end of interrupt ends the level of the frame that sends it: the    *)
(* controller never holds back a line that nobody serves, nor delivers one *)
(* whose handler has not come to its end of interrupt.                     *)
THEOREM LevelsAlwaysMatch == Spec => []LevelsMatchFrames
  <1>1. IInv => LevelsMatchFrames
    BY DEF IInv
  <1> QED
    BY <1>1, InductiveInvariant, PTL

(* Interrupts nest only between a gate and its cli, in falling levels.     *)
THEOREM NestingAlwaysBounded == Spec => []NestingBounded
  BY LevelsNest, InductiveInvariant, PTL

(* The stack the interrupts use is bounded, whatever the devices do: one   *)
(* frame for an exception and one for each of the eight levels.            *)
THEOREM StackBounded == Spec => [](Len(frames) <= 9)
  <1>1. IInv => Len(frames) <= 9
    <2> SUFFICES ASSUME IInv, frames # <<>> PROVE Len(frames) <= 9
      OBVIOUS
    <2>1. /\ Len(frames) \in Nat \ {0} /\ Len(frames) \in DOMAIN frames
          /\ frames[Len(frames)].vec \in Vectors
      BY TopIsFrame DEF IInv, Frame
    <2>2. CASE Len(frames) = 1
      BY <2>2
    <2>3. CASE Len(frames) > 1
      <3>1. frames[Len(frames)].vec >= IRQ_HANDLER_BASE
        BY <2>1, <2>3 DEF IInv, LevelsFall
      <3>2. LevelOf(frames[Len(frames)]) \in 0 .. 7
        BY <2>1, <3>1, LevelType DEF LevelOf
      <3> QED
        BY <2>1, <3>1, <3>2 DEF IInv, LevelsFall
    <2> QED
      BY <2>1, <2>2, <2>3
  <1> QED
    BY <1>1, InductiveInvariant, PTL
=============================================================================
