------------------------- MODULE PriorityInterrupts --------------------------
(***************************************************************************)
(* The priority interrupts of the KA10 (src/PDP10/kx10_cpu.c): seven       *)
(* levels, of which 1 is the highest, for three devices: the processor     *)
(* itself (APR), its clock, and the paper tape reader (src/PDP10/kx10_pt.c)*)
(*                                                                         *)
(* A device asks for its level on the I/O bus.  The CPU looks before an    *)
(* instruction, but only if pi_pending says that there may be something to *)
(* see.  It then executes the instruction at 40 + 2n: a jump, which holds  *)
(* the level until JEN, or a block transfer, which does not, unless its    *)
(* count is used up and the jump at 41 + 2n follows.  Events, such as the  *)
(* end of a read, come before any instruction, the one of an interrupt     *)
(* included.                                                               *)
(***************************************************************************)
EXTENDS Integers, FiniteSets

CONSTANTS
  N,            \* the number of levels: 7
  BlockLevels,  \* the levels with a block transfer, from the reader
  PICommands,   \* what programs do with CONO PI: records [bits, levels]
  APRCommands   \* what programs do with CONO APR: sets of bits

Levels == 1 .. N
Devices == {"APR", "CLK", "PTR"}
PIBits == {"clear", "on", "off", "drop", "add", "request"}
APRBits == {"clear flag", "clear clock", "clock on", "clock off", "reset"}

\* A program makes a request of its own only on a level with a jump: a block
\* transfer does not take the request back.
ASSUME PIAssumption ==
  /\ N \in Nat
  /\ BlockLevels \subseteq Levels
  /\ PICommands \subseteq [bits : SUBSET PIBits, levels : SUBSET Levels]
  /\ \A c \in PICommands : "request" \in c.bits => c.levels \cap BlockLevels = {}
  /\ APRCommands \subseteq SUBSET APRBits

VARIABLES
  bus,          \* dev_irq, the level each device asks for or 0; IOB_PI, the
                \*   levels asked for; and pi_pending
  PIR, PIH, PIE,    \* levels requested by program, held, and enabled
  pi_enable,
  pi_cycle,     \* the instruction of an interrupt is executed: "no", the
                \*   "first" one, or after an overflow (pi_ov) the "second"
  pi_enc,       \* its level
  apr_irq,      \* the level of APR and clock (clk_irq is always the same)
  apr_flg,      \* an error flag of the processor, such as push_ovf
  clk_flg, clk_en,
  ptr,          \* the reader: its level, DONE_FLG, and whether it is reading
  clk_lvls      \* not in the code: the levels (0 for none) that the clock has had
                \*   since its flag is up and it is on, and {} while that is not so

pi == <<PIR, PIH, PIE, pi_enable>>
cycle == <<pi_cycle, pi_enc>>
apr == <<apr_irq, apr_flg, clk_flg, clk_en, clk_lvls>>
vars == <<bus, pi, cycle, apr, ptr>>

Init ==
  /\ bus = [dev_irq |-> [d \in Devices |-> 0], IOB_PI |-> {}, pi_pending |-> FALSE]
  /\ PIR = {} /\ PIH = {} /\ PIE = {} /\ pi_enable = FALSE
  /\ pi_cycle = "no" /\ pi_enc = 0
  /\ apr_irq = 0 /\ apr_flg = FALSE /\ clk_flg = FALSE /\ clk_en = FALSE
  /\ ptr = [pia |-> 0, done |-> FALSE, active |-> FALSE]
  /\ clk_lvls = {}

-----------------------------------------------------------------------------
(***************************************************************************)
(* The bus.                                                                *)
(***************************************************************************)
Asked(irq) == {irq[d] : d \in Devices} \ {0}

\* A mutant of set_interrupt: level 0 is not told apart.
set_interruptZero(b, dev, lvl) ==
  [dev_irq |-> [b.dev_irq EXCEPT ![dev] = lvl],
   IOB_PI |-> b.IOB_PI \cup {lvl}, pi_pending |-> TRUE]

set_interrupt(b, dev, lvl) ==
  IF lvl = 0 THEN b
  ELSE [dev_irq |-> [b.dev_irq EXCEPT ![dev] = lvl],
        IOB_PI |-> b.IOB_PI \cup {lvl}, pi_pending |-> TRUE]

\* A mutant of clr_interrupt: IOB_PI is not computed anew.
clr_interruptKept(b, dev) ==
  [b EXCEPT !.dev_irq = [@ EXCEPT ![dev] = 0]]

clr_interrupt(b, dev) ==
  LET irq == [b.dev_irq EXCEPT ![dev] = 0]
  IN  [dev_irq |-> irq, IOB_PI |-> Asked(irq), pi_pending |-> b.pi_pending]

check_apr_irq(b, enable, lvl, flg) ==
  IF enable /\ lvl # 0
  THEN LET c == clr_interrupt(b, "APR")
       IN  IF flg THEN set_interrupt(c, "APR", lvl) ELSE c
  ELSE b

-----------------------------------------------------------------------------
(***************************************************************************)
(* check_irq_level.  With the system off, requests of the program are      *)
(* served all the same.                                                    *)
(***************************************************************************)
Requests == PIR \cup IF pi_enable THEN bus.IOB_PI \cap PIE ELSE {}

\* A mutant of Blocked: only by itself.
BlockedBySelf(l) == l \in PIH

\* A level is blocked by itself and by those above it.
Blocked(l) == \E h \in PIH : h <= l

Unblocked == {l \in Requests : ~Blocked(l)}

Looks == pi_cycle = "no" /\ bus.pi_pending

\* A mutant of Looked: pi_pending is cleared by every look.
LookedOnce ==
  IF Looks /\ pi_enable THEN [bus EXCEPT !.pi_pending = FALSE] ELSE bus

\* The bus after the CPU has looked, if it has.
Looked ==
  IF Looks /\ pi_enable /\ bus.IOB_PI = {}
  THEN [bus EXCEPT !.pi_pending = FALSE] ELSE bus

Interrupt ==
  /\ Looks
  /\ \E l \in Unblocked :
       /\ \A k \in Unblocked : l <= k
       /\ pi_enc' = l
  /\ pi_cycle' = "first"
  /\ bus' = Looked
  /\ UNCHANGED <<pi, apr, ptr>>

-----------------------------------------------------------------------------
(***************************************************************************)
(* The instruction of an interrupt.                                        *)
(***************************************************************************)
\* A mutant of DATAI_PTR: the reader goes on asking.
DATAI_PTRAsking(b) ==
  /\ ptr' = IF ptr.done THEN [ptr EXCEPT !.done = FALSE, !.active = TRUE] ELSE ptr
  /\ bus' = b

DATAI_PTR(b) ==
  IF ptr.done
  THEN /\ ptr' = [ptr EXCEPT !.done = FALSE, !.active = TRUE]
       /\ bus' = clr_interrupt(b, "PTR")
  ELSE bus' = b /\ UNCHANGED ptr

Transfer(overflow) ==
  /\ pi_cycle = "first" /\ pi_enc \in BlockLevels
  /\ DATAI_PTR(bus)
  /\ pi_cycle' = IF overflow THEN "second" ELSE "no"
  /\ UNCHANGED <<pi, pi_enc, apr>>

set_pi_hold ==
  /\ PIR' = PIR \ {pi_enc}
  /\ PIH' = IF pi_enable THEN PIH \cup {pi_enc} ELSE PIH

Jump ==
  /\ pi_cycle = "second" \/ (pi_cycle = "first" /\ pi_enc \notin BlockLevels)
  /\ set_pi_hold
  /\ pi_cycle' = "no"
  /\ UNCHANGED <<bus, PIE, pi_enable, pi_enc, apr, ptr>>

-----------------------------------------------------------------------------
(***************************************************************************)
(* Other instructions, when there is no interrupt.                         *)
(***************************************************************************)
Instruction ==
  /\ pi_cycle = "no" /\ ~(Looks /\ Unblocked # {})
  /\ UNCHANGED cycle

\* No input or output; perhaps the processor raises its flag.
Execute ==
  /\ Instruction
  /\ \/ bus' = Looked /\ UNCHANGED apr_flg
     \/ /\ apr_flg' = TRUE
        /\ bus' = check_apr_irq(Looked, pi_enable, apr_irq, apr_flg')
  /\ UNCHANGED <<pi, apr_irq, clk_flg, clk_en, clk_lvls, ptr>>

\* A mutant of restore_pi_hold: pi_pending is not set.
restore_pi_holdUnseen ==
  /\ bus' = Looked
  /\ IF pi_enable /\ PIH # {}
     THEN \E h \in PIH : /\ \A k \in PIH : h <= k
                         /\ PIR' = PIR \ {h} /\ PIH' = PIH \ {h}
     ELSE UNCHANGED <<PIR, PIH>>

\* restore_pi_hold also takes back a request of the program for the level that
\* ends, even one that was made since it began.
restore_pi_hold ==
  IF pi_enable
  THEN /\ \/ PIH = {} /\ UNCHANGED <<PIR, PIH>>
          \/ \E h \in PIH : /\ \A k \in PIH : h <= k
                            /\ PIR' = PIR \ {h} /\ PIH' = PIH \ {h}
       /\ bus' = [Looked EXCEPT !.pi_pending = TRUE]
  ELSE bus' = Looked /\ UNCHANGED <<PIR, PIH>>

JEN ==
  /\ Instruction
  /\ restore_pi_hold
  /\ UNCHANGED <<PIE, pi_enable, apr, ptr>>

CONO_PI(bits, levels) ==
  /\ Instruction
  /\ PIH' = IF "clear" \in bits THEN {} ELSE PIH
  /\ PIR' = (IF "clear" \in bits THEN {} ELSE PIR)
              \cup IF "request" \in bits THEN levels ELSE {}
  /\ PIE' = ((IF "clear" \in bits THEN {} ELSE PIE)
               \ IF "drop" \in bits THEN levels ELSE {})
              \cup IF "add" \in bits THEN levels ELSE {}
  /\ pi_enable' = /\ "off" \notin bits
                  /\ "on" \in bits \/ (pi_enable /\ "clear" \notin bits)
  /\ LET b == [Looked EXCEPT !.pi_pending = @ \/ "request" \in bits]
     IN  bus' = check_apr_irq(b, pi_enable', apr_irq, apr_flg)
  /\ UNCHANGED <<apr, ptr>>

ClockLevelsNoted ==
  clk_lvls' = IF clk_flg' /\ clk_en' THEN clk_lvls \cup {apr_irq'} ELSE {}

\* Bit by bit.  The reset reaches the reader.
CONO_APR(bits, l) ==
  /\ Instruction
  /\ apr_irq' = l
  /\ apr_flg' = (apr_flg /\ "clear flag" \notin bits)
  /\ clk_flg' = (clk_flg /\ "clear clock" \notin bits)
  /\ clk_en' = ("clock off" \notin bits /\ (clk_en \/ "clock on" \in bits))
  /\ ptr' = IF "reset" \in bits THEN [pia |-> 0, done |-> FALSE, active |-> FALSE]
            ELSE ptr
  /\ LET b0 == clr_interrupt(Looked, "APR")
         b1 == IF "clear clock" \in bits THEN clr_interrupt(b0, "CLK") ELSE b0
         b2 == IF "clock on" \in bits /\ clk_flg'
               THEN set_interrupt(b1, "CLK", l) ELSE b1
         b3 == IF "clock off" \in bits THEN clr_interrupt(b2, "CLK") ELSE b2
         b4 == IF "reset" \in bits THEN clr_interrupt(b3, "PTR") ELSE b3
     IN  bus' = check_apr_irq(b4, pi_enable, l, apr_flg')
  /\ ClockLevelsNoted
  /\ UNCHANGED pi

CONO_PTR(pia, done, busy) ==
  /\ Instruction
  /\ ptr' = [pia |-> pia, done |-> done, active |-> ptr.active \/ busy]
  /\ LET b == clr_interrupt(Looked, "PTR")
     IN  bus' = IF done THEN set_interrupt(b, "PTR", pia) ELSE b
  /\ UNCHANGED <<pi, apr>>

Read ==
  /\ Instruction
  /\ DATAI_PTR(Looked)
  /\ UNCHANGED <<pi, apr>>

-----------------------------------------------------------------------------
(***************************************************************************)
(* Events.                                                                 *)
(***************************************************************************)
ptr_svc ==
  /\ ptr.active
  /\ ptr' = [ptr EXCEPT !.done = TRUE, !.active = FALSE]
  /\ bus' = set_interrupt(bus, "PTR", ptr.pia)
  /\ UNCHANGED <<pi, cycle, apr>>

rtc_srv ==
  /\ clk_flg' = TRUE
  /\ bus' = IF clk_en THEN set_interrupt(bus, "CLK", apr_irq) ELSE bus
  /\ UNCHANGED <<pi, cycle, apr_irq, apr_flg, clk_en, ptr>>
  /\ ClockLevelsNoted

-----------------------------------------------------------------------------
Cycle == Interrupt \/ Jump \/ \E overflow \in BOOLEAN : Transfer(overflow)

Next ==
  \/ Interrupt \/ Jump
  \/ \E overflow \in BOOLEAN : Transfer(overflow)
  \/ Execute \/ JEN \/ Read
  \/ \E c \in PICommands : CONO_PI(c.bits, c.levels)
  \/ \E bits \in APRCommands, l \in Levels \cup {0} : CONO_APR(bits, l)
  \/ \E pia \in Levels \cup {0}, done, busy \in BOOLEAN : CONO_PTR(pia, done, busy)
  \/ ptr_svc \/ rtc_srv

\* The CPU goes on, and the routines of the interrupts come to their end.
Spec == Init /\ [][Next]_vars /\ WF_vars(Cycle) /\ SF_vars(PIH # {} /\ JEN)

-----------------------------------------------------------------------------
Bus == [dev_irq : [Devices -> Levels \cup {0}], IOB_PI : SUBSET Levels,
        pi_pending : BOOLEAN]

\* The types.
TypeOK ==
  /\ bus \in Bus
  /\ PIR \subseteq Levels /\ PIH \subseteq Levels /\ PIE \subseteq Levels
  /\ pi_enable \in BOOLEAN
  /\ pi_cycle \in {"no", "first", "second"} /\ pi_enc \in Levels \cup {0}
  /\ pi_cycle # "no" => pi_enc \in Levels
  /\ apr_irq \in Levels \cup {0}
  /\ apr_flg \in BOOLEAN /\ clk_flg \in BOOLEAN /\ clk_en \in BOOLEAN
  /\ ptr \in [pia : Levels \cup {0}, done : BOOLEAN, active : BOOLEAN]
  /\ clk_lvls \subseteq Levels \cup {0}

\* pi_pending is cleared when no device asks, also while the program's own
\* requests wait, and is not set when a level is enabled or the system turned
\* on: the CPU still never passes over a request that it should serve.
RequestIsSeen == pi_cycle = "no" /\ Unblocked # {} => bus.pi_pending

\* The reader asks for its level exactly while it has a character, and the processor,
\* while the system is on, exactly while its flag is up, whatever is turned on and off,
\* given another level or reset meanwhile.  The clock asks exactly while its flag is up
\* and it is on, but a new level alone does not move its request: it asks for one of
\* those that it has had meanwhile, which is its level unless that has changed.
RequestsAreCurrent ==
  /\ bus.dev_irq["PTR"] = IF ptr.done THEN ptr.pia ELSE 0
  /\ pi_enable => bus.dev_irq["APR"] = IF apr_flg THEN apr_irq ELSE 0
  /\ bus.dev_irq["CLK"] \in IF clk_flg /\ clk_en THEN clk_lvls ELSE {0}
  /\ \A d \in Devices : bus.dev_irq[d] # 0 => bus.dev_irq[d] \in bus.IOB_PI

\* An interrupt has a cause, the program or a device that asks, or else it is at a level
\* that the clock has had since its flag is up: the one that set_interrupt leaves
\* in IOB_PI when the clock begins to ask for another.
InterruptHasCause ==
  [][Interrupt => pi_enc' \in PIR \cup Asked(bus.dev_irq) \cup clk_lvls]_vars

\* An interrupt comes only above all levels that are held, and only the highest
\* one ends, so that the routines nest; nothing that happens between the look
\* and the jump changes this.
HeldLevelsNest ==
  [][PIH' # PIH /\ PIH' # {} =>
       \/ \E l \in Levels : PIH' = PIH \cup {l} /\ \A h \in PIH : l < h
       \/ \E l \in Levels : PIH = PIH' \cup {l} /\ \A h \in PIH' : l < h]_vars

\* A level that is asked for and enabled, and stays so, is interrupted, or one
\* above it is, again and again.
StandingRequestInterrupts ==
  \A l \in Levels :
    <>[](pi_enable /\ l \in Requests) => []<>(pi_cycle # "no" /\ pi_enc <= l)
=============================================================================
