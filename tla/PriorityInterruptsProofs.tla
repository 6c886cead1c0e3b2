---------------------- MODULE PriorityInterruptsProofs -----------------------
(***************************************************************************)
(* Proofs about PriorityInterrupts, for any number of levels, any levels   *)
(* with block transfers and any program.                                   *)
(***************************************************************************)
EXTENDS PriorityInterrupts, TLAPS

\* The bus: a device that asks is accounted for, and when the CPU does not have
\* to look no level is asked for.
Sound(b) ==
  /\ b \in Bus
  /\ \A d \in Devices : b.dev_irq[d] # 0 => b.dev_irq[d] \in b.IOB_PI
  /\ ~b.pi_pending => b.IOB_PI = {}

\* set_interrupt changes the request of one device, and makes the CPU look.
LEMMA SetKeeps ==
  ASSUME NEW b, Sound(b), NEW dev \in Devices, NEW lvl \in Levels \cup {0}
  PROVE  LET c == set_interrupt(b, dev, lvl)
         IN  /\ Sound(c)
             /\ b.pi_pending => c.pi_pending
             /\ lvl = 0 => c = b
             /\ lvl # 0 => /\ c.dev_irq = [b.dev_irq EXCEPT ![dev] = lvl]
                           /\ c.IOB_PI = b.IOB_PI \cup {lvl}
<1>1. CASE lvl = 0
  BY <1>1 DEF set_interrupt
<1>2. CASE lvl # 0
  BY <1>2 DEF set_interrupt, Sound, Bus
<1> QED BY <1>1, <1>2

\* clr_interrupt changes the request of one device; IOB_PI is then exact.
LEMMA ClrKeeps ==
  ASSUME NEW b, Sound(b), NEW dev \in Devices
  PROVE  LET c == clr_interrupt(b, dev)
         IN  /\ Sound(c)
             /\ c.pi_pending = b.pi_pending
             /\ c.dev_irq = [b.dev_irq EXCEPT ![dev] = 0]
             /\ c.IOB_PI = Asked(c.dev_irq)
<1> DEFINE irq == [b.dev_irq EXCEPT ![dev] = 0]
<1>1. irq \in [Devices -> Levels \cup {0}]
  BY DEF Sound, Bus
<1>2. Asked(irq) \subseteq Levels
  BY <1>1 DEF Asked
<1>3. \A d \in Devices : irq[d] # 0 => irq[d] \in Asked(irq)
  BY DEF Asked
<1>4. ~b.pi_pending => Asked(irq) = {}
  <2> SUFFICES ASSUME ~b.pi_pending PROVE \A d \in Devices : irq[d] = 0
    BY DEF Asked
  <2> QED BY DEF Sound, Bus
<1>5. b.pi_pending \in BOOLEAN
  BY DEF Sound, Bus
<1> QED BY <1>1, <1>2, <1>3, <1>4, <1>5 DEF clr_interrupt, Sound, Bus

\* check_apr_irq, at the end of a step, makes the processor's request current.
LEMMA CheckKeeps ==
  ASSUME NEW b, Sound(b),
         pi_enable' \in BOOLEAN, apr_irq' \in Levels \cup {0}, apr_flg' \in BOOLEAN,
         bus' = check_apr_irq(b, pi_enable', apr_irq', apr_flg')
  PROVE  /\ Sound(bus')
         /\ b.pi_pending => bus'.pi_pending
         /\ \A d \in Devices \ {"APR"} : bus'.dev_irq[d] = b.dev_irq[d]
         /\ IF pi_enable' /\ apr_irq' # 0
            THEN bus'.dev_irq["APR"] = IF apr_flg' THEN apr_irq' ELSE 0
            ELSE bus'.dev_irq["APR"] = b.dev_irq["APR"]
         /\ bus' = b \/ bus'.IOB_PI \subseteq Asked(bus'.dev_irq)
<1> DEFINE c == clr_interrupt(b, "APR")
           s == set_interrupt(c, "APR", apr_irq')
<1>1. "APR" \in Devices
  BY DEF Devices
<1>2. /\ Sound(c) /\ c.pi_pending = b.pi_pending
      /\ c.dev_irq = [b.dev_irq EXCEPT !["APR"] = 0]
      /\ c.IOB_PI = Asked(c.dev_irq)
  BY <1>1, ClrKeeps
<1>3. /\ b.dev_irq \in [Devices -> Levels \cup {0}]
      /\ c.dev_irq \in [Devices -> Levels \cup {0}]
  BY <1>2 DEF Sound, Bus
<1> HIDE DEF c, s
<1>4. CASE ~(pi_enable' /\ apr_irq' # 0)
  <2>1. bus' = b
    BY <1>4 DEF check_apr_irq
  <2> QED BY <2>1, <1>4
<1>5. CASE pi_enable' /\ apr_irq' # 0 /\ ~apr_flg'
  <2>1. bus' = c
    BY <1>5 DEF check_apr_irq, c
  <2> QED BY <2>1, <1>1, <1>2, <1>3, <1>5
<1>6. CASE pi_enable' /\ apr_irq' # 0 /\ apr_flg'
  <2>1. bus' = s
    BY <1>6 DEF check_apr_irq, c, s
  <2>2. /\ Sound(s)
        /\ c.pi_pending => s.pi_pending
        /\ s.dev_irq = [c.dev_irq EXCEPT !["APR"] = apr_irq']
        /\ s.IOB_PI = c.IOB_PI \cup {apr_irq'}
    BY <1>1, <1>2, <1>6, SetKeeps DEF s
  <2>3. s.IOB_PI \subseteq Asked(s.dev_irq)
    BY <1>1, <1>2, <1>3, <1>6, <2>2 DEF Asked
  <2>4. /\ Sound(s)
        /\ b.pi_pending => s.pi_pending
        /\ \A d \in Devices \ {"APR"} : s.dev_irq[d] = b.dev_irq[d]
        /\ s.dev_irq["APR"] = apr_irq'
    BY <1>1, <1>2, <1>3, <2>2
  <2> QED BY <2>1, <2>3, <2>4, <1>6
<1> QED BY <1>4, <1>5, <1>6

-----------------------------------------------------------------------------
(***************************************************************************)
(* The inductive invariant.                                                *)
(***************************************************************************)

\* When the CPU does not have to look, the program's own requests are blocked,
\* or will be by the jump that is about to be executed.
ProgramSeen ==
  /\ PIR \cap BlockLevels = {}
  /\ ~bus.pi_pending =>
       IF pi_cycle = "no" THEN \A l \in PIR : Blocked(l)
       ELSE /\ pi_enable /\ pi_enc \in PIR
            /\ \A l \in PIR : Blocked(l) \/ pi_enc <= l

\* IOB_PI is exact but for what the clock may have asked for before.
CauseKnown == bus.IOB_PI \subseteq Asked(bus.dev_irq) \cup clk_lvls

\* Without a level the processor does not ask, whether the system is on or not.
AprOff == apr_irq = 0 => bus.dev_irq["APR"] = 0

\* The clock's levels are noted while it may ask.
NoLevels == ~(clk_flg /\ clk_en) => clk_lvls = {}

IInv ==
  /\ TypeOK
  /\ Sound(bus)
  /\ ProgramSeen
  /\ RequestsAreCurrent
  /\ CauseKnown
  /\ AprOff
  /\ NoLevels

\* A look leaves the requests as they are.
LEMMA LookedKeeps ==
  ASSUME Sound(bus), pi_enable \in BOOLEAN
  PROVE  /\ Sound(Looked)
         /\ Looked.dev_irq = bus.dev_irq /\ Looked.IOB_PI = bus.IOB_PI
         /\ ~Looked.pi_pending =>
              \/ ~bus.pi_pending
              \/ Looks /\ pi_enable /\ bus.IOB_PI = {}
<1>1. CASE Looks /\ pi_enable /\ bus.IOB_PI = {}
  BY <1>1 DEF Looked, Sound, Bus
<1>2. CASE ~(Looks /\ pi_enable /\ bus.IOB_PI = {})
  BY <1>2 DEF Looked
<1> QED BY <1>1, <1>2

\* When an instruction is executed and the CPU need not look again, the
\* program's requests are blocked.
LEMMA QuietInstruction ==
  ASSUME IInv, Instruction, ~Looked.pi_pending
  PROVE  \A l \in PIR : Blocked(l)
<1>1. pi_cycle = "no" /\ ~(Looks /\ Unblocked # {})
  BY DEF Instruction
<1>2. CASE ~bus.pi_pending
  BY <1>1, <1>2 DEF IInv, ProgramSeen
<1>3. CASE Looks
  BY <1>1, <1>3 DEF Unblocked, Requests
<1> QED BY <1>2, <1>3, LookedKeeps DEF IInv, TypeOK

LEMMA InitIInv == Init => IInv
<1> SUFFICES ASSUME Init PROVE IInv
  OBVIOUS
<1>1. bus \in Bus
  BY DEF Init, Bus
<1>2. TypeOK
  BY <1>1 DEF Init, TypeOK
<1>3. Sound(bus)
  BY <1>1 DEF Init, Sound
<1>4. ProgramSeen
  BY DEF Init, ProgramSeen
<1>5. RequestsAreCurrent
  BY DEF Init, RequestsAreCurrent, Devices
<1>6. CauseKnown /\ AprOff /\ NoLevels
  BY DEF Init, CauseKnown, AprOff, NoLevels, Devices
<1> QED BY <1>2, <1>3, <1>4, <1>5, <1>6 DEF IInv

-----------------------------------------------------------------------------
(***************************************************************************)
(* Each action keeps the invariant.                                        *)
(***************************************************************************)
LEMMA InterruptKeeps == ASSUME IInv, Interrupt PROVE IInv'
<1>1. PICK l \in Unblocked : pi_enc' = l /\ \A k \in Unblocked : l <= k
  BY DEF Interrupt
<1>2. /\ Looks /\ pi_cycle' = "first" /\ bus' = Looked
      /\ UNCHANGED <<PIR, PIH, PIE, pi_enable, apr, ptr>>
  BY DEF Interrupt, pi
<1>3. /\ Sound(bus')
      /\ bus'.dev_irq = bus.dev_irq /\ bus'.IOB_PI = bus.IOB_PI
      /\ ~bus'.pi_pending => pi_enable /\ bus.IOB_PI = {}
  BY <1>2, LookedKeeps DEF IInv, TypeOK, Looks
<1>4. l \in Levels
  BY DEF Unblocked, Requests, IInv, TypeOK, Sound, Bus
<1>5. TypeOK'
  BY <1>1, <1>2, <1>3, <1>4 DEF IInv, TypeOK, Sound, apr
<1>6. ProgramSeen'
  <2> SUFFICES ASSUME ~bus'.pi_pending
               PROVE  l \in PIR /\ \A k \in PIR : Blocked(k) \/ l <= k
    BY <1>1, <1>2, <1>3 DEF ProgramSeen, IInv, Blocked
  <2>1. Requests = PIR
    BY <1>3 DEF Requests
  <2> QED BY <1>1, <2>1 DEF Unblocked
<1>7. RequestsAreCurrent' /\ CauseKnown' /\ AprOff' /\ NoLevels'
  BY <1>2, <1>3 DEF IInv, RequestsAreCurrent, CauseKnown, AprOff, NoLevels, apr
<1> QED BY <1>3, <1>5, <1>6, <1>7 DEF IInv

LEMMA JumpKeeps == ASSUME IInv, Jump PROVE IInv'
<1>1. /\ PIR' = PIR \ {pi_enc} /\ pi_cycle # "no" /\ pi_cycle' = "no"
      /\ PIH' = IF pi_enable THEN PIH \cup {pi_enc} ELSE PIH
      /\ UNCHANGED <<bus, PIE, pi_enable, pi_enc, apr, ptr>>
  BY DEF Jump, set_pi_hold
<1>2. TypeOK'
  BY <1>1 DEF IInv, TypeOK, apr
<1>3. ProgramSeen'
  BY <1>1 DEF IInv, ProgramSeen, TypeOK, Blocked
<1>4. Sound(bus)' /\ RequestsAreCurrent' /\ CauseKnown' /\ AprOff' /\ NoLevels'
  BY <1>1 DEF IInv, RequestsAreCurrent, CauseKnown, AprOff, NoLevels, apr
<1> QED BY <1>2, <1>3, <1>4 DEF IInv

\* DATAI for the reader, on a bus with the same requests.
LEMMA DataiKeeps ==
  ASSUME IInv, NEW b, Sound(b), b.dev_irq = bus.dev_irq, b.IOB_PI = bus.IOB_PI,
         DATAI_PTR(b), UNCHANGED <<pi, apr>>
  PROVE  /\ Sound(bus') /\ bus'.pi_pending = b.pi_pending
         /\ ptr' \in [pia : Levels \cup {0}, done : BOOLEAN, active : BOOLEAN]
         /\ RequestsAreCurrent' /\ CauseKnown' /\ AprOff' /\ NoLevels'
<1> USE DEF IInv, pi, apr
<1>1. CASE ~ptr.done
  BY <1>1 DEF DATAI_PTR, RequestsAreCurrent, CauseKnown, AprOff, NoLevels, TypeOK
<1>2. CASE ptr.done
  <2>1. bus' = clr_interrupt(b, "PTR") /\ "PTR" \in Devices
    BY <1>2 DEF DATAI_PTR, Devices
  <2>2. /\ Sound(bus') /\ bus'.pi_pending = b.pi_pending
        /\ bus'.dev_irq = [bus.dev_irq EXCEPT !["PTR"] = 0]
        /\ bus'.IOB_PI = Asked(bus'.dev_irq)
    BY <2>1, ClrKeeps
  <2>3. ptr' \in [pia : Levels \cup {0}, done : BOOLEAN, active : BOOLEAN] /\ ~ptr'.done
    BY <1>2 DEF DATAI_PTR, TypeOK
  <2>4. /\ bus'.dev_irq["PTR"] = 0
        /\ bus'.dev_irq["APR"] = bus.dev_irq["APR"]
        /\ bus'.dev_irq["CLK"] = bus.dev_irq["CLK"]
    BY <2>2 DEF Sound, Bus, Devices
  <2>5. RequestsAreCurrent'
    BY <2>2, <2>3, <2>4 DEF RequestsAreCurrent, Sound
  <2>6. CauseKnown' /\ AprOff' /\ NoLevels'
    BY <2>2, <2>4 DEF CauseKnown, AprOff, NoLevels
  <2> QED BY <2>2, <2>3, <2>5, <2>6
<1> QED BY <1>1, <1>2

LEMMA TransferKeeps ==
  ASSUME IInv, NEW overflow \in BOOLEAN, Transfer(overflow) PROVE IInv'
<1>1. /\ pi_cycle = "first" /\ pi_enc \in BlockLevels
      /\ DATAI_PTR(bus) /\ UNCHANGED <<pi, apr>>
      /\ pi_cycle' \in {"second", "no"} /\ pi_enc' = pi_enc
  BY DEF Transfer
<1>2. /\ Sound(bus') /\ bus'.pi_pending = bus.pi_pending
      /\ ptr' \in [pia : Levels \cup {0}, done : BOOLEAN, active : BOOLEAN]
      /\ RequestsAreCurrent' /\ CauseKnown' /\ AprOff' /\ NoLevels'
  BY <1>1, DataiKeeps DEF IInv
<1>3. TypeOK'
  BY <1>1, <1>2 DEF IInv, TypeOK, Sound, pi, apr
\* The CPU looks again: the request cannot have been one of the program.
<1>4. bus.pi_pending
  BY <1>1 DEF IInv, ProgramSeen
<1>5. ProgramSeen'
  BY <1>1, <1>2, <1>4 DEF IInv, ProgramSeen, pi
<1> QED BY <1>2, <1>3, <1>5 DEF IInv

LEMMA ReadKeeps == ASSUME IInv, Read PROVE IInv'
<1>1. Instruction /\ DATAI_PTR(Looked) /\ UNCHANGED <<pi, apr, cycle>>
  BY DEF Read, Instruction
<1>2. Sound(Looked) /\ Looked.dev_irq = bus.dev_irq /\ Looked.IOB_PI = bus.IOB_PI
  BY LookedKeeps DEF IInv, TypeOK
<1>3. /\ Sound(bus') /\ bus'.pi_pending = Looked.pi_pending
      /\ ptr' \in [pia : Levels \cup {0}, done : BOOLEAN, active : BOOLEAN]
      /\ RequestsAreCurrent' /\ CauseKnown' /\ AprOff' /\ NoLevels'
  BY <1>1, <1>2, DataiKeeps
<1>4. TypeOK'
  BY <1>1, <1>3 DEF IInv, TypeOK, Sound, pi, apr, cycle
<1>5. ProgramSeen'
  BY <1>1, <1>3, QuietInstruction
     DEF IInv, ProgramSeen, Instruction, Blocked, pi, cycle
<1> QED BY <1>3, <1>4, <1>5 DEF IInv

LEMMA ExecuteKeeps == ASSUME IInv, Execute PROVE IInv'
<1> USE DEF pi, cycle
<1>1. Instruction /\ UNCHANGED <<pi, cycle, apr_irq, clk_flg, clk_en, clk_lvls, ptr>>
  BY DEF Execute, Instruction
<1>2. Sound(Looked) /\ Looked.dev_irq = bus.dev_irq /\ Looked.IOB_PI = bus.IOB_PI
  BY LookedKeeps DEF IInv, TypeOK
<1>3. CASE bus' = Looked /\ UNCHANGED apr_flg
  <2>1. TypeOK'
    BY <1>1, <1>2, <1>3 DEF IInv, TypeOK, Sound
  <2>2. ProgramSeen'
    BY <1>1, <1>3, QuietInstruction DEF IInv, ProgramSeen, Instruction, Blocked
  <2>3. RequestsAreCurrent' /\ CauseKnown' /\ AprOff' /\ NoLevels'
    BY <1>1, <1>2, <1>3 DEF IInv, RequestsAreCurrent, CauseKnown, AprOff, NoLevels
  <2> QED BY <1>2, <1>3, <2>1, <2>2, <2>3 DEF IInv
<1>4. CASE apr_flg' = TRUE /\ bus' = check_apr_irq(Looked, pi_enable, apr_irq, apr_flg')
  <2>1. /\ pi_enable' \in BOOLEAN /\ apr_irq' \in Levels \cup {0}
        /\ bus' = check_apr_irq(Looked, pi_enable', apr_irq', apr_flg')
    BY <1>1, <1>4 DEF IInv, TypeOK
  <2>2. /\ Sound(bus')
        /\ Looked.pi_pending => bus'.pi_pending
        /\ \A d \in Devices \ {"APR"} : bus'.dev_irq[d] = Looked.dev_irq[d]
        /\ IF pi_enable' /\ apr_irq' # 0
           THEN bus'.dev_irq["APR"] = IF apr_flg' THEN apr_irq' ELSE 0
           ELSE bus'.dev_irq["APR"] = Looked.dev_irq["APR"]
        /\ bus' = Looked \/ bus'.IOB_PI \subseteq Asked(bus'.dev_irq)
    BY <2>1, <1>2, <1>4, CheckKeeps
  <2>3. TypeOK'
    BY <1>1, <1>4, <2>2 DEF IInv, TypeOK, Sound
  <2>4. ProgramSeen'
    BY <1>1, <2>2, QuietInstruction DEF IInv, ProgramSeen, Instruction, Blocked
  <2>5. RequestsAreCurrent'
    <3>1. RequestsAreCurrent
      BY DEF IInv
    <3>2. bus'.dev_irq["PTR"] = bus.dev_irq["PTR"] /\ bus'.dev_irq["CLK"] = bus.dev_irq["CLK"]
      BY <1>2, <2>2 DEF Devices
    <3>3. pi_enable' => bus'.dev_irq["APR"] = IF apr_flg' THEN apr_irq' ELSE 0
      BY <1>1, <1>2, <1>4, <2>2, <3>1 DEF RequestsAreCurrent
    <3>4. \A d \in Devices : bus'.dev_irq[d] # 0 => bus'.dev_irq[d] \in bus'.IOB_PI
      BY <2>2 DEF Sound
    <3> QED BY <1>1, <3>1, <3>2, <3>3, <3>4 DEF RequestsAreCurrent
  <2>6. CauseKnown' /\ AprOff' /\ NoLevels'
    BY <1>1, <1>2, <2>2 DEF IInv, CauseKnown, AprOff, NoLevels, Devices
  <2> QED BY <2>2, <2>3, <2>4, <2>5, <2>6 DEF IInv
<1> QED BY <1>3, <1>4 DEF Execute

LEMMA JENKeeps == ASSUME IInv, JEN PROVE IInv'
<1>1. /\ Instruction /\ restore_pi_hold
      /\ UNCHANGED <<PIE, pi_enable, apr, ptr, cycle>>
  BY DEF JEN, Instruction
<1>2. Sound(Looked) /\ Looked.dev_irq = bus.dev_irq /\ Looked.IOB_PI = bus.IOB_PI
  BY LookedKeeps DEF IInv, TypeOK
<1>3. /\ Sound(bus') /\ bus'.dev_irq = bus.dev_irq /\ bus'.IOB_PI = bus.IOB_PI
      /\ pi_enable \/ (bus' = Looked /\ PIR' = PIR /\ PIH' = PIH)
      /\ pi_enable => bus'.pi_pending
      /\ PIR' \subseteq PIR /\ PIH' \subseteq PIH
  <2>1. CASE pi_enable
    <3>1. bus' = [Looked EXCEPT !.pi_pending = TRUE]
      BY <1>1, <2>1 DEF restore_pi_hold
    <3>2. /\ Sound(bus') /\ bus'.dev_irq = bus.dev_irq /\ bus'.IOB_PI = bus.IOB_PI
          /\ bus'.pi_pending
      BY <1>2, <3>1 DEF Sound, Bus
    <3>3. PIR' \subseteq PIR /\ PIH' \subseteq PIH
      BY <1>1, <2>1 DEF restore_pi_hold
    <3> QED BY <2>1, <3>2, <3>3
  <2>2. CASE ~pi_enable
    BY <1>1, <1>2, <2>2 DEF restore_pi_hold
  <2> QED BY <2>1, <2>2
<1>4. TypeOK'
  BY <1>1, <1>3 DEF IInv, TypeOK, Sound, apr, cycle
<1>5. ProgramSeen'
  <2>1. PIR' \cap BlockLevels = {}
    BY <1>3 DEF IInv, ProgramSeen
  <2>2. ASSUME ~bus'.pi_pending PROVE \A l \in PIR' : Blocked(l)'
    BY <1>1, <1>3, <2>2, QuietInstruction DEF Blocked
  <2> QED BY <1>1, <2>1, <2>2 DEF ProgramSeen, Instruction, cycle
<1>6. RequestsAreCurrent' /\ CauseKnown' /\ AprOff' /\ NoLevels'
  BY <1>1, <1>3 DEF IInv, RequestsAreCurrent, CauseKnown, AprOff, NoLevels, apr
<1> QED BY <1>3, <1>4, <1>5, <1>6 DEF IInv

LEMMA ConoPiKeeps ==
  ASSUME IInv, NEW c \in PICommands, CONO_PI(c.bits, c.levels) PROVE IInv'
<1> DEFINE b == [Looked EXCEPT !.pi_pending = @ \/ "request" \in c.bits]
<1>1. /\ Instruction /\ UNCHANGED <<apr, ptr, cycle>>
      /\ bus' = check_apr_irq(b, pi_enable', apr_irq', apr_flg')
  BY DEF CONO_PI, Instruction, apr
<1>2. c.bits \subseteq PIBits /\ c.levels \subseteq Levels
  BY PIAssumption
<1>3. /\ PIR' \subseteq Levels /\ PIH' \subseteq Levels /\ PIE' \subseteq Levels
      /\ pi_enable' \in BOOLEAN
  BY <1>2 DEF CONO_PI, IInv, TypeOK
<1>4. Sound(Looked) /\ Looked.dev_irq = bus.dev_irq /\ Looked.IOB_PI = bus.IOB_PI
  BY LookedKeeps DEF IInv, TypeOK
<1>5. /\ Sound(b) /\ b.dev_irq = bus.dev_irq /\ b.IOB_PI = bus.IOB_PI
      /\ b.pi_pending = (Looked.pi_pending \/ "request" \in c.bits)
  BY <1>4 DEF Sound, Bus
<1> HIDE DEF b
<1>6. apr_irq' \in Levels \cup {0} /\ apr_flg' \in BOOLEAN
  BY <1>1 DEF IInv, TypeOK, apr
<1>7. /\ Sound(bus')
      /\ b.pi_pending => bus'.pi_pending
      /\ \A d \in Devices \ {"APR"} : bus'.dev_irq[d] = b.dev_irq[d]
      /\ IF pi_enable' /\ apr_irq' # 0
         THEN bus'.dev_irq["APR"] = IF apr_flg' THEN apr_irq' ELSE 0
         ELSE bus'.dev_irq["APR"] = b.dev_irq["APR"]
      /\ bus' = b \/ bus'.IOB_PI \subseteq Asked(bus'.dev_irq)
  BY <1>1, <1>3, <1>5, <1>6, CheckKeeps
<1>8. TypeOK'
  BY <1>1, <1>3, <1>7 DEF IInv, TypeOK, Sound, apr, cycle
<1>9. ProgramSeen'
  <2>1. PIR' \cap BlockLevels = {}
    BY PIAssumption DEF CONO_PI, IInv, ProgramSeen
  <2>2. ASSUME ~bus'.pi_pending PROVE \A l \in PIR' : Blocked(l)'
    <3>1. ~Looked.pi_pending /\ "request" \notin c.bits
      BY <1>5, <1>7, <2>2
    <3>2. PIR' = {} \/ (PIR' = PIR /\ PIH' = PIH)
      BY <3>1 DEF CONO_PI
    <3> QED BY <1>1, <3>1, <3>2, QuietInstruction DEF Blocked
  <2> QED BY <1>1, <2>1, <2>2 DEF ProgramSeen, Instruction, cycle
<1>10. RequestsAreCurrent' /\ CauseKnown' /\ AprOff' /\ NoLevels'
  <2>1. pi_enable' /\ apr_irq' = 0 => bus'.dev_irq["APR"] = 0
    BY <1>1, <1>5, <1>7 DEF IInv, AprOff, apr
  <2> QED BY <1>1, <1>5, <1>7, <2>1
          DEF IInv, RequestsAreCurrent, CauseKnown, AprOff, NoLevels, Sound, Devices, apr
<1> QED BY <1>7, <1>8, <1>9, <1>10 DEF IInv

LEMMA ConoPtrKeeps ==
  ASSUME IInv, NEW pia \in Levels \cup {0}, NEW done \in BOOLEAN,
         NEW busy \in BOOLEAN, CONO_PTR(pia, done, busy)
  PROVE  IInv'
<1> DEFINE b == clr_interrupt(Looked, "PTR")
<1>1. /\ Instruction /\ UNCHANGED <<pi, apr, cycle>>
      /\ ptr' = [pia |-> pia, done |-> done, active |-> ptr.active \/ busy]
      /\ bus' = IF done THEN set_interrupt(b, "PTR", pia) ELSE b
  BY DEF CONO_PTR, Instruction
<1>2. Sound(Looked) /\ Looked.dev_irq = bus.dev_irq /\ Looked.IOB_PI = bus.IOB_PI
  BY LookedKeeps DEF IInv, TypeOK
<1>3. "PTR" \in Devices
  BY DEF Devices
<1>4. /\ Sound(b) /\ b.pi_pending = Looked.pi_pending
      /\ b.dev_irq = [bus.dev_irq EXCEPT !["PTR"] = 0]
      /\ b.IOB_PI = Asked(b.dev_irq)
  BY <1>2, <1>3, ClrKeeps
<1> HIDE DEF b
<1>5. /\ b.dev_irq["PTR"] = 0
      /\ b.dev_irq["APR"] = bus.dev_irq["APR"]
      /\ b.dev_irq["CLK"] = bus.dev_irq["CLK"]
      /\ b.dev_irq \in [Devices -> Levels \cup {0}]
  BY <1>4 DEF Sound, Bus, Devices, IInv
<1>6. /\ Sound(bus')
      /\ Looked.pi_pending => bus'.pi_pending
      /\ bus'.dev_irq["PTR"] = IF done THEN pia ELSE 0
      /\ bus'.dev_irq["APR"] = bus.dev_irq["APR"]
      /\ bus'.dev_irq["CLK"] = bus.dev_irq["CLK"]
      /\ bus'.IOB_PI \subseteq Asked(bus'.dev_irq)
  <2>1. CASE ~done \/ pia = 0
    <3>1. bus' = b
      BY <1>1, <2>1 DEF set_interrupt
    <3> QED BY <3>1, <2>1, <1>4, <1>5
  <2>2. CASE done /\ pia # 0
    <3>1. bus' = set_interrupt(b, "PTR", pia)
      BY <1>1, <2>2
    <3>2. /\ Sound(bus')
          /\ b.pi_pending => bus'.pi_pending
          /\ bus'.dev_irq = [b.dev_irq EXCEPT !["PTR"] = pia]
          /\ bus'.IOB_PI = b.IOB_PI \cup {pia}
      BY <3>1, <2>2, <1>3, <1>4, SetKeeps
    <3>3. /\ bus'.dev_irq["PTR"] = pia
          /\ bus'.dev_irq["APR"] = b.dev_irq["APR"]
          /\ bus'.dev_irq["CLK"] = b.dev_irq["CLK"]
      BY <3>2, <1>5 DEF Devices
    <3>4. bus'.IOB_PI \subseteq Asked(bus'.dev_irq)
      BY <3>2, <3>3, <2>2, <1>4, <1>5 DEF Asked, Devices
    <3> QED BY <3>2, <3>3, <3>4, <2>2, <1>4, <1>5
  <2> QED BY <2>1, <2>2
<1>7. TypeOK'
  BY <1>1, <1>6 DEF IInv, TypeOK, Sound, pi, apr, cycle
<1>8. ProgramSeen'
  BY <1>1, <1>6, QuietInstruction
     DEF IInv, ProgramSeen, Instruction, Blocked, pi, cycle
<1>9. RequestsAreCurrent' /\ CauseKnown' /\ AprOff' /\ NoLevels'
  BY <1>1, <1>6 DEF IInv, RequestsAreCurrent, CauseKnown, AprOff, NoLevels, Sound, apr, pi
<1> QED BY <1>6, <1>7, <1>8, <1>9 DEF IInv

\* The steps of CONO APR keep the bus sound; IOB_PI is exact but for the level that the
\* clock asked for before, if it did.
LEMMA ConoAprKeeps ==
  ASSUME IInv, NEW bits, NEW l \in Levels \cup {0}, CONO_APR(bits, l) PROVE IInv'
<1> DEFINE b0 == clr_interrupt(Looked, "APR")
           b1 == IF "clear clock" \in bits THEN clr_interrupt(b0, "CLK") ELSE b0
           b2 == IF "clock on" \in bits /\ clk_flg'
                 THEN set_interrupt(b1, "CLK", l) ELSE b1
           b3 == IF "clock off" \in bits THEN clr_interrupt(b2, "CLK") ELSE b2
           b4 == IF "reset" \in bits THEN clr_interrupt(b3, "PTR") ELSE b3
           Rest(b) == /\ b.dev_irq["APR"] = 0
                      /\ b.dev_irq["PTR"] = bus.dev_irq["PTR"]
                      /\ b.pi_pending \/ ~Looked.pi_pending
<1>1. /\ Instruction /\ UNCHANGED <<pi, cycle>>
      /\ apr_irq' = l
      /\ apr_flg' = (apr_flg /\ "clear flag" \notin bits)
      /\ clk_flg' = (clk_flg /\ "clear clock" \notin bits)
      /\ clk_en' = ("clock off" \notin bits /\ (clk_en \/ "clock on" \in bits))
      /\ clk_lvls' = IF clk_flg' /\ clk_en' THEN clk_lvls \cup {l} ELSE {}
  BY DEF CONO_APR, Instruction, ClockLevelsNoted
<1>2. ptr' = IF "reset" \in bits THEN [pia |-> 0, done |-> FALSE, active |-> FALSE]
             ELSE ptr
  BY DEF CONO_APR
<1>3. bus' = check_apr_irq(b4, pi_enable', apr_irq', apr_flg')
  BY <1>1 DEF CONO_APR, pi
<1>4. "APR" \in Devices /\ "CLK" \in Devices /\ "PTR" \in Devices
  BY DEF Devices
<1>5. Sound(Looked) /\ Looked.dev_irq = bus.dev_irq /\ Looked.IOB_PI = bus.IOB_PI
  BY LookedKeeps DEF IInv, TypeOK
<1>6. bus.dev_irq \in [Devices -> Levels \cup {0}]
  BY DEF IInv, TypeOK, Bus
<1>7. /\ Sound(b0) /\ Rest(b0) /\ b0.dev_irq["CLK"] = bus.dev_irq["CLK"]
      /\ b0.IOB_PI = Asked(b0.dev_irq)
  <2>1. /\ Sound(b0) /\ b0.pi_pending = Looked.pi_pending
        /\ b0.dev_irq = [bus.dev_irq EXCEPT !["APR"] = 0]
        /\ b0.IOB_PI = Asked(b0.dev_irq)
    BY <1>4, <1>5, ClrKeeps
  <2> HIDE DEF b0
  <2> QED BY <2>1, <1>4, <1>6
<1> HIDE DEF b0
<1>8. /\ Sound(b1) /\ Rest(b1) /\ b1.IOB_PI = Asked(b1.dev_irq)
      /\ b1.dev_irq["CLK"] = IF "clear clock" \in bits THEN 0 ELSE bus.dev_irq["CLK"]
  <2>1. CASE "clear clock" \notin bits
    BY <2>1, <1>7
  <2>2. CASE "clear clock" \in bits
    <3> DEFINE c == clr_interrupt(b0, "CLK")
    <3>1. b1 = c
      BY <2>2
    <3>2. /\ Sound(c) /\ c.pi_pending = b0.pi_pending
          /\ c.dev_irq = [b0.dev_irq EXCEPT !["CLK"] = 0]
          /\ c.IOB_PI = Asked(c.dev_irq)
      BY <1>4, <1>7, ClrKeeps
    <3> HIDE DEF c, b1
    <3>3. b0.dev_irq \in [Devices -> Levels \cup {0}]
      BY <1>7 DEF Sound, Bus
    <3> QED BY <3>1, <3>2, <3>3, <1>4, <1>7, <2>2
  <2> QED BY <2>1, <2>2
<1> HIDE DEF b1
<1>9. /\ Sound(b2) /\ Rest(b2)
      /\ b2.dev_irq["CLK"] = IF "clock on" \in bits /\ clk_flg' /\ l # 0 THEN l
                             ELSE b1.dev_irq["CLK"]
      /\ b2.IOB_PI \subseteq Asked(b2.dev_irq) \cup {b1.dev_irq["CLK"]}
  <2>1. CASE ~("clock on" \in bits /\ clk_flg') \/ l = 0
    <3>1. b2 = b1
      BY <2>1 DEF set_interrupt
    <3> HIDE DEF b2
    <3> QED BY <2>1, <3>1, <1>8
  <2>2. CASE "clock on" \in bits /\ clk_flg' /\ l # 0
    <3> DEFINE c == set_interrupt(b1, "CLK", l)
    <3>1. b2 = c
      BY <2>2
    <3>2. /\ Sound(c)
          /\ b1.pi_pending => c.pi_pending
          /\ c.dev_irq = [b1.dev_irq EXCEPT !["CLK"] = l]
          /\ c.IOB_PI = b1.IOB_PI \cup {l}
      <4>1. Sound(b1) /\ "CLK" \in Devices /\ l \in Levels \cup {0} /\ l # 0
        BY <2>2, <1>4, <1>8
      <4> QED BY <4>1, SetKeeps
    <3> HIDE DEF c, b2
    <3>3. b1.dev_irq \in [Devices -> Levels \cup {0}]
      BY <1>8 DEF Sound, Bus
    <3>4. /\ b2.dev_irq["CLK"] = l
          /\ b2.dev_irq["APR"] = b1.dev_irq["APR"]
          /\ b2.dev_irq["PTR"] = b1.dev_irq["PTR"]
      BY <3>1, <3>2, <3>3 DEF Devices
    <3>5. b2.IOB_PI \subseteq Asked(b2.dev_irq) \cup {b1.dev_irq["CLK"]}
      <4>1. b2.IOB_PI = Asked(b1.dev_irq) \cup {l}
        BY <3>1, <3>2, <1>8
      <4>2. ASSUME NEW d \in Devices, b1.dev_irq[d] # 0
            PROVE  b1.dev_irq[d] \in Asked(b2.dev_irq) \cup {b1.dev_irq["CLK"]}
        BY <4>2, <3>4 DEF Asked, Devices
      <4>3. l \in Asked(b2.dev_irq)
        BY <3>4, <2>2 DEF Asked, Devices
      <4> QED BY <4>1, <4>2, <4>3 DEF Asked
    <3> QED BY <3>1, <3>2, <3>4, <3>5, <2>2, <1>8
  <2> QED BY <2>1, <2>2
<1> HIDE DEF b2
<1> DEFINE x == IF "clock off" \in bits THEN 0 ELSE b1.dev_irq["CLK"]
<1>10. /\ Sound(b3) /\ Rest(b3)
       /\ b3.dev_irq["CLK"] = IF "clock off" \in bits THEN 0 ELSE b2.dev_irq["CLK"]
       /\ b3.IOB_PI \subseteq Asked(b3.dev_irq) \cup {x}
  <2>1. CASE "clock off" \notin bits
    <3>1. b3 = b2
      BY <2>1
    <3> HIDE DEF b3
    <3> QED BY <3>1, <2>1, <1>9
  <2>2. CASE "clock off" \in bits
    <3> DEFINE c == clr_interrupt(b2, "CLK")
    <3>1. b3 = c
      BY <2>2
    <3>2. /\ Sound(c) /\ c.pi_pending = b2.pi_pending
          /\ c.dev_irq = [b2.dev_irq EXCEPT !["CLK"] = 0]
          /\ c.IOB_PI = Asked(c.dev_irq)
      BY <1>4, <1>9, ClrKeeps
    <3> HIDE DEF c, b3
    <3>3. b2.dev_irq \in [Devices -> Levels \cup {0}]
      BY <1>9 DEF Sound, Bus
    <3> QED BY <3>1, <3>2, <3>3, <1>4, <1>9, <2>2
  <2> QED BY <2>1, <2>2
<1> HIDE DEF b3
<1>11. /\ Sound(b4)
       /\ b4.pi_pending \/ ~Looked.pi_pending
       /\ b4.dev_irq["APR"] = 0 /\ b4.dev_irq["CLK"] = b3.dev_irq["CLK"]
       /\ b4.dev_irq["PTR"] = IF "reset" \in bits THEN 0 ELSE bus.dev_irq["PTR"]
       /\ b4.IOB_PI \subseteq Asked(b4.dev_irq) \cup {x}
  <2>1. CASE "reset" \notin bits
    <3>1. b4 = b3
      BY <2>1
    <3> HIDE DEF b4
    <3> QED BY <3>1, <2>1, <1>10
  <2>2. CASE "reset" \in bits
    <3> DEFINE c == clr_interrupt(b3, "PTR")
    <3>1. b4 = c
      BY <2>2
    <3>2. /\ Sound(c) /\ c.pi_pending = b3.pi_pending
          /\ c.dev_irq = [b3.dev_irq EXCEPT !["PTR"] = 0]
          /\ c.IOB_PI = Asked(c.dev_irq)
      BY <1>4, <1>10, ClrKeeps
    <3> HIDE DEF c, b4
    <3>3. b3.dev_irq \in [Devices -> Levels \cup {0}]
      BY <1>10 DEF Sound, Bus
    <3> QED BY <3>1, <3>2, <3>3, <1>4, <1>10, <2>2
  <2> QED BY <2>1, <2>2
<1> HIDE DEF b4, Rest
\* The level that the clock may have asked for before.
<1>before. x \in clk_lvls' \cup {0}
  BY <1>1, <1>8 DEF IInv, RequestsAreCurrent
<1> HIDE DEF x
<1>12. pi_enable' \in BOOLEAN /\ apr_irq' \in Levels \cup {0} /\ apr_flg' \in BOOLEAN
  BY <1>1 DEF IInv, TypeOK, pi
<1>13. /\ Sound(bus')
       /\ b4.pi_pending => bus'.pi_pending
       /\ \A d \in Devices \ {"APR"} : bus'.dev_irq[d] = b4.dev_irq[d]
       /\ IF pi_enable' /\ apr_irq' # 0
          THEN bus'.dev_irq["APR"] = IF apr_flg' THEN apr_irq' ELSE 0
          ELSE bus'.dev_irq["APR"] = b4.dev_irq["APR"]
       /\ bus' = b4 \/ bus'.IOB_PI \subseteq Asked(bus'.dev_irq)
  BY <1>3, <1>11, <1>12, CheckKeeps
<1>14. /\ bus'.dev_irq["CLK"] = b3.dev_irq["CLK"]
       /\ bus'.dev_irq["PTR"] = IF "reset" \in bits THEN 0 ELSE bus.dev_irq["PTR"]
  BY <1>11, <1>13 DEF Devices
<1>15. TypeOK'
  <2>1. bus' \in Bus
    BY <1>13 DEF Sound
  <2>2. ptr' \in [pia : Levels \cup {0}, done : BOOLEAN, active : BOOLEAN]
    BY <1>2 DEF IInv, TypeOK
  <2>3. clk_flg' \in BOOLEAN /\ clk_en' \in BOOLEAN /\ clk_lvls' \subseteq Levels \cup {0}
    BY <1>1 DEF IInv, TypeOK
  <2> QED BY <1>1, <1>12, <2>1, <2>2, <2>3 DEF IInv, TypeOK, pi, cycle
<1>16. ProgramSeen'
  BY <1>1, <1>11, <1>13, QuietInstruction
     DEF IInv, ProgramSeen, Instruction, Blocked, pi, cycle
<1>17. RequestsAreCurrent'
  <2>1. bus'.dev_irq["PTR"] = IF ptr'.done THEN ptr'.pia ELSE 0
    BY <1>2, <1>14 DEF IInv, RequestsAreCurrent
  <2>2. pi_enable' => bus'.dev_irq["APR"] = IF apr_flg' THEN apr_irq' ELSE 0
    BY <1>11, <1>13
  <2>3. bus'.dev_irq["CLK"] \in IF clk_flg' /\ clk_en' THEN clk_lvls' ELSE {0}
    <3>1. /\ bus.dev_irq["CLK"] \in IF clk_flg /\ clk_en THEN clk_lvls ELSE {0}
          /\ clk_flg \in BOOLEAN /\ clk_en \in BOOLEAN
      BY DEF IInv, RequestsAreCurrent, TypeOK
    <3> QED BY <3>1, <1>1, <1>8, <1>9, <1>10, <1>14
  <2> QED BY <2>1, <2>2, <2>3, <1>13 DEF RequestsAreCurrent, Sound
<1>18. CauseKnown'
  <2>1. bus'.IOB_PI \subseteq Asked(bus'.dev_irq) \cup {x}
    BY <1>11, <1>13
  <2>2. 0 \notin bus'.IOB_PI
    BY <1>13 DEF Sound, Bus, Levels
  <2> QED BY <2>1, <2>2, <1>before DEF CauseKnown
<1>19. AprOff' /\ NoLevels'
  BY <1>1, <1>11, <1>13 DEF AprOff, NoLevels
<1> QED BY <1>13, <1>15, <1>16, <1>17, <1>18, <1>19 DEF IInv

LEMMA PtrSvcKeeps == ASSUME IInv, ptr_svc PROVE IInv'
<1>1. /\ ptr' = [ptr EXCEPT !.done = TRUE, !.active = FALSE]
      /\ bus' = set_interrupt(bus, "PTR", ptr.pia)
      /\ UNCHANGED <<pi, cycle, apr>>
  BY DEF ptr_svc
<1>2. /\ "PTR" \in Devices /\ Sound(bus) /\ ptr.pia \in Levels \cup {0}
      /\ bus.dev_irq \in [Devices -> Levels \cup {0}]
  BY DEF Devices, IInv, TypeOK, Bus
<1>3. /\ Sound(bus')
      /\ bus.pi_pending => bus'.pi_pending
      /\ ptr.pia = 0 => bus' = bus
      /\ ptr.pia # 0 => /\ bus'.dev_irq = [bus.dev_irq EXCEPT !["PTR"] = ptr.pia]
                        /\ bus'.IOB_PI = bus.IOB_PI \cup {ptr.pia}
  <2> DEFINE p == ptr.pia
  <2>1. Sound(bus) /\ "PTR" \in Devices /\ p \in Levels \cup {0}
    BY <1>2
  <2>2. bus' = set_interrupt(bus, "PTR", p)
    BY <1>1
  <2> HIDE DEF p
  <2>3. /\ Sound(bus')
        /\ bus.pi_pending => bus'.pi_pending
        /\ p = 0 => bus' = bus
        /\ p # 0 => /\ bus'.dev_irq = [bus.dev_irq EXCEPT !["PTR"] = p]
                    /\ bus'.IOB_PI = bus.IOB_PI \cup {p}
    BY <2>1, <2>2, SetKeeps
  <2> QED BY <2>3 DEF p
<1>4. /\ ptr' \in [pia : Levels \cup {0}, done : BOOLEAN, active : BOOLEAN]
      /\ ptr'.done /\ ptr'.pia = ptr.pia
  BY <1>1 DEF IInv, TypeOK
<1>5. bus.dev_irq["PTR"] \in {0, ptr.pia}
  BY DEF IInv, RequestsAreCurrent
<1>6. /\ bus'.dev_irq["PTR"] = ptr.pia
      /\ bus'.dev_irq["APR"] = bus.dev_irq["APR"]
      /\ bus'.dev_irq["CLK"] = bus.dev_irq["CLK"]
  <2>1. CASE ptr.pia = 0
    BY <2>1, <1>3, <1>5
  <2>2. CASE ptr.pia # 0
    BY <2>2, <1>2, <1>3 DEF Devices
  <2> QED BY <2>1, <2>2
<1>7. bus'.IOB_PI \subseteq Asked(bus'.dev_irq) \cup clk_lvls
  <2>1. bus.IOB_PI \subseteq Asked(bus.dev_irq) \cup clk_lvls
    BY DEF IInv, CauseKnown
  <2>2. CASE ptr.pia = 0
    BY <2>1, <2>2, <1>3
  <2>3. CASE ptr.pia # 0
    BY <2>1, <2>3, <1>3, <1>5, <1>6 DEF Asked, Devices
  <2> QED BY <2>2, <2>3
<1>8. TypeOK'
  BY <1>1, <1>3, <1>4 DEF IInv, TypeOK, Sound, pi, apr, cycle
<1>9. ProgramSeen'
  BY <1>1, <1>3 DEF IInv, ProgramSeen, Blocked, pi, cycle
<1>10. RequestsAreCurrent' /\ CauseKnown' /\ AprOff' /\ NoLevels'
  BY <1>1, <1>3, <1>4, <1>6, <1>7
     DEF IInv, RequestsAreCurrent, CauseKnown, AprOff, NoLevels, Sound, apr, pi
<1> QED BY <1>3, <1>8, <1>9, <1>10 DEF IInv

LEMMA RtcSrvKeeps == ASSUME IInv, rtc_srv PROVE IInv'
<1>1. /\ clk_flg' = TRUE /\ UNCHANGED <<pi, cycle, apr_irq, apr_flg, clk_en, ptr>>
      /\ bus' = IF clk_en THEN set_interrupt(bus, "CLK", apr_irq) ELSE bus
      /\ clk_lvls' = IF clk_en THEN clk_lvls \cup {apr_irq} ELSE {}
  BY DEF rtc_srv, ClockLevelsNoted
<1>2. /\ bus.dev_irq["CLK"] \in IF clk_flg /\ clk_en THEN clk_lvls ELSE {0}
      /\ bus.IOB_PI \subseteq Asked(bus.dev_irq) \cup clk_lvls
      /\ ~(clk_flg /\ clk_en) => clk_lvls = {}
      /\ apr_irq \in Levels \cup {0} /\ clk_lvls \subseteq Levels \cup {0}
      /\ clk_en \in BOOLEAN
  BY DEF IInv, TypeOK, RequestsAreCurrent, CauseKnown, NoLevels
<1>3. /\ Sound(bus') /\ (bus.pi_pending => bus'.pi_pending)
      /\ bus'.dev_irq["CLK"] = IF clk_en /\ apr_irq # 0 THEN apr_irq ELSE bus.dev_irq["CLK"]
      /\ bus'.dev_irq["APR"] = bus.dev_irq["APR"]
      /\ bus'.dev_irq["PTR"] = bus.dev_irq["PTR"]
      /\ bus'.IOB_PI \subseteq Asked(bus'.dev_irq) \cup clk_lvls'
  <2>1. CASE ~clk_en \/ apr_irq = 0
    <3>1. bus' = bus
      BY <1>1, <2>1 DEF set_interrupt
    <3>2. clk_lvls \subseteq clk_lvls'
      BY <1>1, <1>2
    <3> QED BY <2>1, <3>1, <3>2, <1>2 DEF IInv
  <2>2. CASE clk_en /\ apr_irq # 0
    <3>1. /\ "CLK" \in Devices /\ Sound(bus) /\ apr_irq \in Levels \cup {0}
          /\ bus.dev_irq \in [Devices -> Levels \cup {0}]
      BY DEF Devices, IInv, TypeOK, Bus
    <3>2. /\ Sound(bus')
          /\ bus.pi_pending => bus'.pi_pending
          /\ bus'.dev_irq = [bus.dev_irq EXCEPT !["CLK"] = apr_irq]
          /\ bus'.IOB_PI = bus.IOB_PI \cup {apr_irq}
      BY <1>1, <2>2, <3>1, SetKeeps
    <3>3. /\ bus'.dev_irq["CLK"] = apr_irq
          /\ bus'.dev_irq["APR"] = bus.dev_irq["APR"]
          /\ bus'.dev_irq["PTR"] = bus.dev_irq["PTR"]
      BY <3>1, <3>2 DEF Devices
    <3>4. ASSUME NEW d \in Devices, bus.dev_irq[d] # 0
          PROVE  bus.dev_irq[d] \in Asked(bus'.dev_irq) \cup clk_lvls
      BY <1>2, <3>3, <3>4 DEF Asked, Devices
    <3>5. Asked(bus.dev_irq) \subseteq Asked(bus'.dev_irq) \cup clk_lvls
      BY <3>4 DEF Asked
    <3>6. clk_lvls' = clk_lvls \cup {apr_irq}
      BY <1>1, <2>2
    <3> QED BY <2>2, <3>2, <3>3, <3>5, <3>6, <1>2
  <2> QED BY <2>1, <2>2, <1>2
<1>4. TypeOK'
  BY <1>1, <1>2, <1>3 DEF IInv, TypeOK, Sound, pi, cycle
<1>5. ProgramSeen'
  BY <1>1, <1>3 DEF IInv, ProgramSeen, Blocked, pi, cycle
<1>6. bus'.dev_irq["CLK"] \in IF clk_flg' /\ clk_en' THEN clk_lvls' ELSE {0}
  BY <1>1, <1>2, <1>3
<1>7. RequestsAreCurrent' /\ CauseKnown' /\ AprOff' /\ NoLevels'
  BY <1>1, <1>3, <1>6
     DEF IInv, RequestsAreCurrent, CauseKnown, AprOff, NoLevels, Sound, pi
<1> QED BY <1>3, <1>4, <1>5, <1>7 DEF IInv

LEMMA NextKeepsIInv == IInv /\ [Next]_vars => IInv'
<1> SUFFICES ASSUME IInv, [Next]_vars PROVE IInv'
  OBVIOUS
<1>1. CASE Interrupt
  BY <1>1, InterruptKeeps
<1>2. CASE Jump
  BY <1>2, JumpKeeps
<1>3. CASE \E overflow \in BOOLEAN : Transfer(overflow)
  BY <1>3, TransferKeeps
<1>4. CASE Execute
  BY <1>4, ExecuteKeeps
<1>5. CASE JEN
  BY <1>5, JENKeeps
<1>6. CASE Read
  BY <1>6, ReadKeeps
<1>7. CASE \E c \in PICommands : CONO_PI(c.bits, c.levels)
  BY <1>7, ConoPiKeeps
<1>8. CASE \E bits \in APRCommands, l \in Levels \cup {0} : CONO_APR(bits, l)
  BY <1>8, ConoAprKeeps
<1>9. CASE \E pia \in Levels \cup {0}, done, busy \in BOOLEAN : CONO_PTR(pia, done, busy)
  BY <1>9, ConoPtrKeeps
<1>10. CASE ptr_svc
  BY <1>10, PtrSvcKeeps
<1>11. CASE rtc_srv
  BY <1>11, RtcSrvKeeps
<1>12. CASE UNCHANGED vars
  <2> USE <1>12 DEF vars, pi, cycle, apr
  <2>1. TypeOK' /\ Sound(bus)' /\ ProgramSeen'
    BY DEF IInv, TypeOK, Sound, ProgramSeen, Blocked
  <2>2. RequestsAreCurrent' /\ CauseKnown' /\ AprOff' /\ NoLevels'
    BY DEF IInv, RequestsAreCurrent, CauseKnown, AprOff, NoLevels
  <2> QED BY <2>1, <2>2 DEF IInv
<1> QED BY <1>1, <1>2, <1>3, <1>4, <1>5, <1>6, <1>7, <1>8, <1>9, <1>10, <1>11, <1>12
        DEF Next

LEMMA IInvHolds == Spec => []IInv
  BY InitIInv, NextKeepsIInv, PTL DEF Spec

-----------------------------------------------------------------------------
(***************************************************************************)
(* The theorems.                                                           *)
(***************************************************************************)

\* The registers and flags keep their types, the level of an interrupt among them.
THEOREM TypesAreKept == Spec => []TypeOK
  BY IInvHolds, PTL DEF IInv

\* Whatever clears pi_pending, a request that should be served is seen before
\* the next instruction.
THEOREM NoRequestIsPassedOver == Spec => []RequestIsSeen
<1>1. IInv => RequestIsSeen
  <2> SUFFICES ASSUME IInv, pi_cycle = "no", ~bus.pi_pending PROVE Unblocked = {}
    BY DEF RequestIsSeen
  <2>1. Requests = PIR
    BY DEF Requests, IInv, Sound
  <2>2. \A l \in PIR : Blocked(l)
    BY DEF IInv, ProgramSeen
  <2> QED BY <2>1, <2>2 DEF Unblocked
<1> QED BY <1>1, IInvHolds, PTL

\* The reader and the processor ask for their levels exactly when their flags say so,
\* and the clock for one of those that it has had since.
THEOREM DevicesAskAsFlagged == Spec => []RequestsAreCurrent
  BY IInvHolds, PTL DEF IInv

\* An interrupt comes from a device that asks, from the program, or at a level that the
\* clock has had since its flag is up.
THEOREM NoSpuriousInterrupt == Spec => InterruptHasCause
<1>1. IInv /\ [Next]_vars
        => [Interrupt => pi_enc' \in PIR \cup Asked(bus.dev_irq) \cup clk_lvls]_vars
  BY DEF IInv, CauseKnown, Interrupt, Unblocked, Requests
<1> QED BY <1>1, IInvHolds, PTL DEF Spec, InterruptHasCause

\* From the look to the jump, the level of the interrupt is above all that are held.
LevelIsAbove == pi_cycle # "no" => \A h \in PIH : pi_enc < h

LEMMA NextKeepsAbove == IInv /\ LevelIsAbove /\ [Next]_vars => LevelIsAbove'
<1> SUFFICES ASSUME IInv, LevelIsAbove, [Next]_vars PROVE LevelIsAbove'
  OBVIOUS
<1>1. CASE Interrupt
  <2>1. PICK l \in Unblocked : pi_enc' = l /\ PIH' = PIH
    BY <1>1 DEF Interrupt, pi
  <2>2. l \in Levels /\ PIH \subseteq Levels
    BY DEF Unblocked, Requests, IInv, TypeOK, Bus
  <2> QED BY <2>1, <2>2 DEF LevelIsAbove, Unblocked, Blocked, Levels
<1>2. CASE pi_cycle' = "no"
  BY <1>2 DEF LevelIsAbove
<1>3. CASE \E overflow \in BOOLEAN : Transfer(overflow)
  BY <1>3 DEF Transfer, LevelIsAbove, pi
<1>4. CASE Instruction
  BY <1>2, <1>4 DEF Instruction, cycle
<1>5. CASE ptr_svc \/ rtc_srv \/ UNCHANGED vars
  BY <1>5 DEF ptr_svc, rtc_srv, vars, pi, cycle, LevelIsAbove
<1> QED BY <1>1, <1>2, <1>3, <1>4, <1>5
        DEF Next, Jump, Execute, JEN, Read, CONO_PI, CONO_APR, CONO_PTR

\* The routines of the interrupts nest.
THEOREM LevelsNest == Spec => HeldLevelsNest
<1> DEFINE Nested ==
      PIH' # PIH /\ PIH' # {} =>
        \/ \E l \in Levels : PIH' = PIH \cup {l} /\ \A h \in PIH : l < h
        \/ \E l \in Levels : PIH = PIH' \cup {l} /\ \A h \in PIH' : l < h
<1>1. Init => LevelIsAbove
  BY DEF Init, LevelIsAbove
<1>2. Spec => []LevelIsAbove
  BY <1>1, IInvHolds, NextKeepsAbove, PTL DEF Spec
<1>3. ASSUME IInv, LevelIsAbove, [Next]_vars PROVE Nested \/ UNCHANGED vars
  <2>1. CASE Jump
    <3>1. pi_enc \in Levels /\ pi_cycle # "no"
      BY <2>1, <1>3 DEF Jump, IInv, TypeOK
    <3> QED BY <2>1, <3>1, <1>3 DEF Jump, set_pi_hold, LevelIsAbove
  <2>2. CASE JEN /\ PIH' # PIH
    <3>1. PICK h \in PIH : (\A k \in PIH : h <= k) /\ PIH' = PIH \ {h}
      BY <2>2 DEF JEN, restore_pi_hold
    <3>2. PIH \subseteq Levels
      BY <1>3 DEF IInv, TypeOK
    <3>3. \A k \in PIH' : h < k
      BY <3>1, <3>2 DEF Levels
    <3> QED BY <3>1, <3>2, <3>3
  <2>3. CASE \E c \in PICommands : CONO_PI(c.bits, c.levels)
    BY <2>3 DEF CONO_PI
  <2>4. CASE PIH' = PIH
    BY <2>4
  <2> QED BY <1>3, <2>1, <2>2, <2>3, <2>4
          DEF Next, Interrupt, Transfer, Execute, Read, CONO_APR, CONO_PTR,
              ptr_svc, rtc_srv, pi, vars
<1>4. IInv /\ LevelIsAbove /\ [Next]_vars => [Nested]_vars
  BY <1>3
<1> QED BY <1>2, <1>4, IInvHolds, PTL DEF Spec, HeldLevelsNest
=============================================================================
