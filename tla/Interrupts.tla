----------------------------- MODULE Interrupts -----------------------------
(***************************************************************************)
(* Interrupt entry, dispatch and return: interrupts/interrupts.c, the      *)
(* stubs of interrupts_definations.asm, and the two drivers that register  *)
(* a handler (drivers_time.c, drivers_keyboard.c).                         *)
(*                                                                         *)
(* One CPU runs the kernel's thread and, on top of it, a stack of          *)
(* interrupt frames; only the topmost context executes.  The 8259 pair and *)
(* the keyboard controller are external.  The register file is seen as     *)
(* rdi, which carries the vector to the handler, and rest, all others; a   *)
(* register holds the name of who wrote it last.                           *)
(***************************************************************************)
EXTENDS Integers, Sequences, FiniteSets

CONSTANTS
    Irqs,        \* lines that may be raised, a subset of 0 .. 15
    Exceptions,  \* vectors the thread's own instructions may raise
    MAX_RAISE    \* bound: interrupts raised in a behaviour

ASSUME IntrAssumption ==
    /\ Irqs \subseteq 0 .. 15 /\ IsFiniteSet(Irqs)
    /\ Exceptions \subseteq 0 .. 31
    /\ MAX_RAISE \in Nat

IRQ_HANDLER_BASE == 32
INTR_ID_IRQ_KEYBOARD == 33
INTR_ID_MAX == 40
Ids == 0 .. INTR_ID_MAX - 1
Thread == -1                  \* the thread as the last writer of a register
Vectors == Exceptions \cup {IRQ_HANDLER_BASE + i : i \in Irqs}

VARIABLES
    thread,      \* "boot", "run" or "halted"
    frames,      \* interrupt frames, the running one last
    iflag,       \* RFLAGS.IF
    want,        \* what the thread last asked for, intr_irq_enable or disable
    regs,        \* [rdi, rest]
    handlers,    \* handlers[]: identifiers with a handler
    irr,         \* master 8259: lines raised and not yet accepted
    in_service,  \* master 8259: levels accepted and not yet ended
    obf,         \* keyboard controller: a byte can be read
    lost,        \* history: the edge of the byte shown was dropped
    raised       \* interrupts raised so far

vars == <<thread, frames, iflag, want, regs, handlers, irr, in_service,
          obf, lost, raised>>
pic == <<irr, in_service>>
device == <<obf, lost, raised>>

(* A slave line arrives at level 2 of the master; the lowest level wins,   *)
(* and a level in service holds back itself and those above it.            *)
level(i) == IF i < 8 THEN i ELSE 2
Deliverable(i) ==
    /\ iflag /\ i \in irr
    /\ \A l \in in_service : level(i) < l
    /\ \A j \in irr : level(i) <= level(j)
Interrupted == \E i \in irr : Deliverable(i)

Init ==
    /\ thread = "boot" /\ frames = <<>> /\ iflag = FALSE /\ want = FALSE
    /\ regs = [rdi |-> Thread, rest |-> Thread]
    /\ handlers = {} /\ irr = {} /\ in_service = {}
    /\ obf = FALSE /\ lost = FALSE /\ raised = 0

(* All lines unmasked; the initialisation words drop what was pending.  A  *)
(* byte the keyboard controller shows stays there, without its edge: the   *)
(* controller shows no other one before it is read, and nothing but the    *)
(* handler reads (keyboard_init only registers).                           *)
pic_init ==
    /\ irr' = {} /\ in_service' = {}
    /\ lost' = obf /\ UNCHANGED <<obf, raised>>

(* intr_init.  Interrupts are off since boot, so nothing comes between     *)
(* its parts.                                                              *)
intr_init ==
    /\ thread = "boot"
    /\ thread' = "run" /\ handlers' = {} /\ pic_init
    /\ UNCHANGED <<frames, iflag, want, regs>>
-----------------------------------------------------------------------------
(* Devices.  They do not wait for the kernel: a line may be raised and a   *)
(* byte shown before intr_init, while interrupts are off.                  *)
raise(i) ==
    /\ raised < MAX_RAISE
    /\ IRQ_HANDLER_BASE + i # INTR_ID_IRQ_KEYBOARD
    /\ irr' = irr \cup {i} /\ raised' = raised + 1
    /\ UNCHANGED <<thread, frames, iflag, want, regs, handlers, in_service, obf, lost>>

(* The controller shows the next byte, with an edge on its line, when the  *)
(* one before was read.                                                    *)
key ==
    /\ raised < MAX_RAISE /\ ~obf
    /\ INTR_ID_IRQ_KEYBOARD - IRQ_HANDLER_BASE \in Irqs
    /\ irr' = irr \cup {INTR_ID_IRQ_KEYBOARD - IRQ_HANDLER_BASE}
    /\ obf' = TRUE /\ raised' = raised + 1
    /\ UNCHANGED <<thread, frames, iflag, want, regs, handlers, in_service, lost>>
-----------------------------------------------------------------------------
(* Gates and stubs.                                                        *)

(* The low bit of a gate's type: the CPU leaves IF alone if it is set.     *)
(* _intr_init_idt asks for INTERRUPT for each of the 256 gates.            *)
gate_bit(type) == IF type = "INTERRUPT" THEN 1 ELSE 0
stub(v) == IF v \in IRQ_HANDLER_BASE .. IRQ_HANDLER_BASE + 4 THEN "irq" ELSE "isr"

Enter(v) ==
    /\ frames' = Append(frames, [vec |-> v, pc |-> "gate", flag |-> iflag,
                                 entry |-> regs, saved |-> regs])
    /\ iflag' = (iflag /\ gate_bit("INTERRUPT") = 1)

accept(i) ==
    /\ Deliverable(i)
    /\ Enter(IRQ_HANDLER_BASE + i)
    /\ irr' = irr \ {i} /\ in_service' = in_service \cup {level(i)}
    /\ UNCHANGED <<thread, want, regs, handlers, device>>

top == frames[Len(frames)]
At(label) == frames # <<>> /\ ~Interrupted /\ top.pc = label
MoveTo(label) == frames' = [frames EXCEPT ![Len(frames)].pc = label]

stub_cli_dropped ==
    /\ At("gate") /\ MoveTo("id")
    /\ UNCHANGED <<thread, iflag, want, regs, handlers, pic, device>>
stub_cli ==
    /\ At("gate") /\ MoveTo("id")
    /\ iflag' = FALSE
    /\ UNCHANGED <<thread, want, regs, handlers, pic, device>>

(* mov rdi, vector                                                         *)
stub_id ==
    /\ At("id") /\ MoveTo("push")
    /\ regs' = [regs EXCEPT !.rdi = top.vec]
    /\ UNCHANGED <<thread, iflag, want, handlers, pic, device>>

(* The common stub saves all registers and calls its handler, for which    *)
(* rdi is the first argument.                                              *)
stub_push ==
    /\ At("push")
    /\ frames' = [frames EXCEPT ![Len(frames)].pc = stub(top.vec), ![Len(frames)].saved = regs]
    /\ UNCHANGED <<thread, iflag, want, regs, handlers, pic, device>>

(* Pops, then sti and iretq; the CPU takes no interrupt between the two,   *)
(* and iretq brings back the interrupted flag.                             *)
stub_return ==
    /\ At("return")
    /\ frames' = SubSeq(frames, 1, Len(frames) - 1) /\ iflag' = top.flag /\ regs' = top.saved
    /\ UNCHANGED <<thread, want, handlers, pic, device>>
-----------------------------------------------------------------------------
(* Dispatch.  A panic halts the context that meets it, whatever IF is.     *)

intr_isr_handler ==
    /\ At("isr") /\ MoveTo("halted")
    /\ UNCHANGED <<thread, iflag, want, regs, handlers, pic, device>>

(* End of interrupt, non-specific: ends the lowest level in service.       *)
eoi_for_slave_only(id) ==
    IF id >= 40 THEN in_service \ {l \in in_service : \A m \in in_service : l <= m}
    ELSE in_service
eoi(id) == in_service \ {l \in in_service : \A m \in in_service : l <= m}

intr_irq_handler ==
    LET id == top.saved.rdi
    IN  /\ At("irq")
        /\ in_service' = eoi(id)
        /\ MoveTo(IF id < INTR_ID_MAX /\ id \in handlers THEN "handler" ELSE "halted")
        /\ UNCHANGED <<thread, iflag, want, regs, handlers, irr, device>>

(* The registered callbacks.  The timer's does nothing; the keyboard's     *)
(* polls until a byte is there and reads it.                               *)
keyboard_read_nothing == UNCHANGED obf
keyboard_read == obf /\ obf' = FALSE
handler ==
    /\ At("handler") /\ MoveTo("return")
    /\ IF top.saved.rdi = INTR_ID_IRQ_KEYBOARD THEN keyboard_read ELSE UNCHANGED obf
    /\ regs' = [rdi |-> top.vec, rest |-> top.vec]
    /\ UNCHANGED <<thread, iflag, want, handlers, pic, lost, raised>>
-----------------------------------------------------------------------------
(* The thread.                                                             *)
Running == thread = "run" /\ frames = <<>> /\ ~Interrupted

(* intr_handler_register, with the timer's and the keyboard's init.        *)
intr_handler_register_any_id(id) ==
    /\ Running
    /\ IF id \in handlers THEN thread' = "halted" /\ UNCHANGED handlers
       ELSE handlers' = handlers \cup {id} /\ UNCHANGED thread
    /\ UNCHANGED <<frames, iflag, want, regs, pic, device>>
intr_handler_register(id) ==
    /\ Running
    /\ IF id >= INTR_ID_MAX \/ id \in handlers THEN thread' = "halted" /\ UNCHANGED handlers
       ELSE handlers' = handlers \cup {id} /\ UNCHANGED thread
    /\ UNCHANGED <<frames, iflag, want, regs, pic, device>>

intr_irq_enable ==
    /\ Running /\ iflag' = TRUE /\ want' = TRUE
    /\ UNCHANGED <<thread, frames, regs, handlers, pic, device>>

intr_irq_disable ==
    /\ Running /\ iflag' = FALSE /\ want' = FALSE
    /\ UNCHANGED <<thread, frames, regs, handlers, pic, device>>

exception(v) ==
    /\ Running /\ Enter(v)
    /\ UNCHANGED <<thread, want, regs, handlers, pic, device>>

(* _kernel_panic: hlt in a loop, with interrupts as they were.             *)
kernel_panic ==
    /\ Running /\ thread' = "halted"
    /\ UNCHANGED <<frames, iflag, want, regs, handlers, pic, device>>

hlt ==
    /\ ~Interrupted
    /\ At("halted") \/ (frames = <<>> /\ thread = "halted")
    /\ UNCHANGED vars

Cpu ==
    \/ intr_init \/ (\E i \in Irqs : accept(i))
    \/ stub_cli \/ stub_id \/ stub_push \/ intr_isr_handler \/ intr_irq_handler \/ handler
    \/ stub_return
ThreadStep ==
    \/ \E id \in Vectors : intr_handler_register(id)
    \/ intr_irq_enable \/ intr_irq_disable
    \/ (\E v \in Exceptions : exception(v)) \/ kernel_panic

Next == Cpu \/ ThreadStep \/ (\E i \in Irqs : raise(i)) \/ key \/ hlt

(* The CPU executes; the thread and the devices need not do anything.      *)
Spec == Init /\ [][Next]_vars /\ WF_vars(Cpu)
-----------------------------------------------------------------------------
Regs == [rdi : Vectors \cup {Thread}, rest : Vectors \cup {Thread}]
Frame == [vec : Vectors, flag : BOOLEAN, entry : Regs, saved : Regs,
          pc : {"gate", "id", "push", "irq", "isr", "handler", "return", "halted"}]
Ended(f) == f.pc \in {"handler", "return"} \/ (f.pc = "halted" /\ stub(f.vec) = "irq")
Pending(f) == f.vec >= IRQ_HANDLER_BASE /\ ~Ended(f)
Stopped == frames # <<>> /\ top.pc = "halted" /\ ~iflag

(* Types; no frame has a value outside what the stubs can put there.       *)
TypeOK ==
    /\ thread \in {"boot", "run", "halted"} /\ frames \in Seq(Frame)
    /\ iflag \in BOOLEAN /\ want \in BOOLEAN /\ regs \in Regs
    /\ handlers \subseteq Ids /\ irr \subseteq Irqs /\ in_service \subseteq 0 .. 7
    /\ obf \in BOOLEAN /\ lost \in BOOLEAN /\ raised \in 0 .. MAX_RAISE

(* A handler is called with the vector its frame was entered for, although *)
(* the gates leave interrupts on and a second one can arrive before the    *)
(* stub's cli, and return through the same registers.                      *)
RightHandler ==
    \A n \in DOMAIN frames :
        frames[n].pc \in {"irq", "isr", "handler", "return"} =>
            frames[n].saved.rdi = frames[n].vec

(* The levels in service are exactly those of the frames that have not yet *)
(* sent their end of interrupt: no EOI ends somebody else's level, and no  *)
(* level stays blocked.                                                    *)
LevelsMatchFrames ==
    in_service = {level(frames[n].vec - IRQ_HANDLER_BASE) :
                     n \in {m \in DOMAIN frames : Pending(frames[m])}}

(* Nesting is bounded by the levels of the controller: of two frames       *)
(* waiting for their EOI the upper one has the lower level, and only the   *)
(* topmost frame is past its cli.                                          *)
NestingBounded ==
    /\ \A m, n \in DOMAIN frames : m < n /\ Pending(frames[m]) /\ Pending(frames[n]) =>
          level(frames[n].vec - IRQ_HANDLER_BASE) < level(frames[m].vec - IRQ_HANDLER_BASE)
    /\ \A m \in 1 .. Len(frames) - 1 : frames[m].pc = "gate"

(* A raised line is accepted (one raised before intr_init is dropped), and *)
(* a key is read: the handler never polls for a byte that does not come.   *)
(* Both hold unless the thread turns interrupts off or an interrupt        *)
(* context panicked.  The one key that is never read is a byte shown       *)
(* before intr_init: its edge is lost and nothing drains the controller,   *)
(* so line 1 is silent from then on.                                       *)
IrqServed ==
    /\ \A i \in Irqs : (i \in irr) ~> (i \notin irr \/ ~want \/ Stopped)
    /\ obf ~> (~obf \/ ~want \/ Stopped \/ lost)

(* interrupts.h: all registers are pushed and restored later.              *)
RegistersRestored == [][Len(frames') < Len(frames) => regs' = top.entry]_vars

(* interrupts.c: IRQ 0..15 are mapped to handler index 32..32+15; a line   *)
(* whose handler is registered does not end in intr_isr_handler.           *)
RegisteredIrqHandled ==
    \A n \in DOMAIN frames :
        frames[n].vec >= IRQ_HANDLER_BASE /\ frames[n].vec \in handlers =>
            frames[n].pc # "isr"
=============================================================================
