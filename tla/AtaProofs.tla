------------------------------ MODULE AtaProofs ------------------------------
(***************************************************************************)
(* Driver and drive stay in step, and the words read are the disk's, for   *)
(* every size of the registers and sectors and every read.                 *)
(***************************************************************************)
EXTENDS Ata, Arithmetic

PortSet == {"1F6", "1F2", "1F3", "1F4", "1F5"}

\* The parts of the registers written so far are those of the request; the
\* words of a sector are counted from 0 again before the next one; and a
\* drive that is busy while the driver is between two reads has nothing left
\* to offer, so that it can only become idle.
Control ==
  /\ pc = "out" => \A m \in 1 .. written : reg[Ports[m]] = Value(Ports[m])
  /\ pc = "wait" => written = 0
  /\ pc # "in" => j = 0
  /\ pc \in {"wait", "out"} => i = 0 /\ buf = <<>>
  /\ pc = "in" => i < req.total
  /\ pc = "idle" => i = req.total
  /\ pc \in {"idle", "wait"} /\ status = "busy" => left = 0
  /\ status \in {"ready", "failed"} => left > 0

AInv == TypeOK /\ InStep /\ Control

-----------------------------------------------------------------------------

\* The constants are what AtaAssumption says.
LEMMA Sizes ==
  /\ RegisterSize \in Nat /\ RegisterSize > 0
  /\ TopSize \in Nat /\ TopSize > 0
  /\ Words \in Nat /\ Words > 0
BY AtaAssumption

\* A request's address fits in the registers, and its count in one.
LEMMA RequestTyped ==
  ASSUME NEW r \in Requests \cup {LoaderRequest}
  PROVE  /\ r.lba \in Nat
         /\ r.lba < RegisterSize * RegisterSize * RegisterSize * TopSize
         /\ r.total \in Nat /\ r.total > 0 /\ r.total <= RegisterSize
<1>1. r \in [lba : 0 .. (RegisterSize * RegisterSize * RegisterSize * TopSize - 1), total : 1 .. RegisterSize]
  BY AtaAssumption
<1> DEFINE size == RegisterSize * RegisterSize * RegisterSize * TopSize
<1>2. size \in Nat
  BY Sizes
<1>3. r.lba \in 0 .. (size - 1) /\ r.total \in 1 .. RegisterSize
  BY <1>1
<1> HIDE DEF size
<1>4. r.lba \in Nat /\ r.lba < size
  BY <1>2, <1>3
<1>5. r.total \in Nat /\ r.total > 0 /\ r.total <= RegisterSize
  BY <1>3, Sizes
<1> QED BY <1>4, <1>5 DEF size

LEMMA PortsDistinct ==
  /\ \A m \in 1 .. 5 : Ports[m] \in PortSet
  /\ \A m, n \in 1 .. 5 : m # n => Ports[m] # Ports[n]
  /\ Ports[1] = "1F6" /\ Ports[2] = "1F2" /\ Ports[3] = "1F3" /\ Ports[4] = "1F4" /\ Ports[5] = "1F5"
BY DEF Ports, PortSet

\* What is written to a register is a number.
LEMMA ValueTyped ==
  ASSUME req \in Requests \cup {LoaderRequest}, NEW port \in PortSet
  PROVE  Value(port) \in Nat
<1> DEFINE l == req.lba
<1>1. l \in Nat /\ req.total \in Nat
  BY RequestTyped
<1>2. /\ RegisterSize \in Nat \ {0} /\ TopSize \in Nat \ {0}
      /\ RegisterSize * RegisterSize \in Nat \ {0}
      /\ RegisterSize * RegisterSize * RegisterSize \in Nat \ {0}
  BY Sizes
<1>3. \A k \in Nat, d \in Nat \ {0} : (k % d) \in Nat /\ (k \div d) \in Nat
  BY Parts
<1>4. /\ (l \div (RegisterSize * RegisterSize * RegisterSize)) % TopSize \in Nat
      /\ (req.total % RegisterSize) \in Nat
      /\ (l % RegisterSize) \in Nat
      /\ ((l \div RegisterSize) % RegisterSize) \in Nat
      /\ ((l \div (RegisterSize * RegisterSize)) % RegisterSize) \in Nat
  <2> HIDE DEF l
  <2> QED BY <1>1, <1>2, <1>3
<1> QED BY <1>4 DEF Value, PortSet

\* When all registers are written the drive reads in them the address and
\* the count that were asked for.
LEMMA CommandRight ==
  ASSUME AInv, pc = "out", written = 5
  PROVE  Address = req.lba /\ Count = req.total
<1> DEFINE l == req.lba
<1>1. /\ l \in Nat /\ l < RegisterSize * RegisterSize * RegisterSize * TopSize
      /\ req.total \in Nat /\ req.total > 0 /\ req.total <= RegisterSize
  BY RequestTyped DEF AInv, TypeOK
<1>2. \A m \in 1 .. 5 : reg[Ports[m]] = Value(Ports[m])
  BY DEF AInv, Control
<1>3. /\ reg["1F6"] = Value("1F6") /\ reg["1F2"] = Value("1F2") /\ reg["1F3"] = Value("1F3")
      /\ reg["1F4"] = Value("1F4") /\ reg["1F5"] = Value("1F5")
  BY <1>2, PortsDistinct
<1>4. Address = req.lba
  <2>1. /\ reg["1F6"] = (l \div (RegisterSize * RegisterSize * RegisterSize)) % TopSize
        /\ reg["1F3"] = l % RegisterSize
        /\ reg["1F4"] = (l \div RegisterSize) % RegisterSize
        /\ reg["1F5"] = (l \div (RegisterSize * RegisterSize)) % RegisterSize
    BY <1>3 DEF Value
  <2>2. RegisterSize \in Nat \ {0} /\ TopSize \in Nat \ {0}
    BY Sizes
  <2>3. (l % RegisterSize) + RegisterSize *
          (((l \div RegisterSize) % RegisterSize) + RegisterSize *
             (((l \div (RegisterSize * RegisterSize)) % RegisterSize) + RegisterSize *
                ((l \div (RegisterSize * RegisterSize * RegisterSize)) % TopSize))) = l
    <3>1. l \in Nat /\ l < RegisterSize * RegisterSize * RegisterSize * TopSize
      BY <1>1
    <3> HIDE DEF l
    <3> QED BY <2>2, <3>1, FourRegisters
  <2> HIDE DEF l
  <2>4. Address = l
    BY <2>1, <2>3 DEF Address
  <2> QED BY <2>4 DEF l
<1>5. Count = req.total
  <2>1. reg["1F2"] = req.total % RegisterSize
    BY <1>3 DEF Value
  <2>2. CASE req.total = RegisterSize
    <3>1. req.total % RegisterSize = 0
      BY <1>1, <2>2, Sizes
    <3> QED BY <2>1, <2>2, <3>1 DEF Count
  <2>3. CASE req.total # RegisterSize
    <3>1. req.total < RegisterSize /\ RegisterSize \in Nat \ {0}
      BY <1>1, <2>3, Sizes
    <3>2. req.total % RegisterSize = req.total
      BY <1>1, <3>1, RemainderOfSmall
    <3> QED BY <1>1, <2>1, <3>2 DEF Count
  <2> QED BY <2>2, <2>3
<1> QED BY <1>4, <1>5

-----------------------------------------------------------------------------

LEMMA AInvInit == Init => AInv
<1> SUFFICES ASSUME Init PROVE AInv
  OBVIOUS
<1>1. LoaderRequest \in Requests \cup {LoaderRequest} /\ req = LoaderRequest
  BY DEF Init
<1>2. req.total \in Nat /\ req.total > 0
  BY <1>1, RequestTyped
<1>3. TypeOK
  BY <1>1, <1>2, Sizes DEF Init, TypeOK
<1>4. InStep /\ Control
  BY DEF Init, InStep, Control
<1> QED BY <1>3, <1>4 DEF AInv

\* The words the data register gives, and what they are when it is ready.
LEMMA WordTaken ==
  ASSUME AInv, pc = "in"
  PROVE  insw = Wanted /\ insw \in Int \X Int
<1>1. status = "ready" /\ at = req.lba + i /\ word = j /\ at \in Nat /\ word \in Nat
  BY Sizes DEF AInv, InStep, TypeOK
<1> QED BY <1>1 DEF insw, Wanted

LEMMA AInvNext == AInv /\ [Next]_vars => AInv'
<1> SUFFICES ASSUME AInv, [Next]_vars PROVE AInv'
  OBVIOUS
<1> USE DEF AInv
<1>0. /\ req.lba \in Nat /\ req.total \in Nat /\ req.total > 0 /\ req.total <= RegisterSize
      /\ RegisterSize \in Nat /\ Words \in Nat /\ Words > 0
  BY RequestTyped, Sizes DEF TypeOK
<1>1. ASSUME NEW r \in Requests, disk_read_sector(r) PROVE AInv'
  <2>1. r.total \in Nat /\ r.total > 0 /\ r.lba \in Nat
    BY RequestTyped
  <2>2. TypeOK'
    BY <1>1, <2>1, Sizes DEF disk_read_sector, TypeOK, drive
  <2>3. InStep'
    BY <1>1 DEF disk_read_sector, InStep, drive
  <2>4. Control'
    BY <1>1 DEF disk_read_sector, Control, drive
  <2> QED BY <2>2, <2>3, <2>4
<1>2. CASE WaitNotBusy
  <2>1. TypeOK'
    BY <1>2 DEF WaitNotBusy, TypeOK, drive
  <2>2. InStep'
    BY <1>2 DEF WaitNotBusy, InStep, drive
  <2>3. Control'
    BY <1>2 DEF WaitNotBusy, Control, InStep, drive, TypeOK
  <2> QED BY <2>1, <2>2, <2>3
<1>3. CASE Outb
  <2>0. /\ status # "busy" /\ written \in 0 .. 4 /\ written' = written + 1 /\ pc = "out"
        /\ reg' = [reg EXCEPT ![Ports[written + 1]] = Value(Ports[written + 1])]
        /\ UNCHANGED <<pc, req, i, j, buf, drive>>
    BY <1>3 DEF Outb, InStep, TypeOK
  <2>1. TypeOK'
    <3>1. Ports[written + 1] \in PortSet
      BY <2>0, PortsDistinct
    <3>2. Value(Ports[written + 1]) \in Nat
      BY <3>1, ValueTyped DEF TypeOK
    <3> QED BY <2>0, <3>1, <3>2 DEF TypeOK, drive, PortSet
  <2>2. InStep'
    BY <2>0 DEF InStep, drive
  <2>3. Control'
    <3>1. ASSUME NEW m \in 1 .. written' PROVE (reg[Ports[m]] = Value(Ports[m]))'
      <4>1. m \in 1 .. 5 /\ written + 1 \in 1 .. 5
        BY <2>0
      <4>2. Ports[m] \in PortSet /\ reg \in [PortSet -> Nat]
        BY <4>1, PortsDistinct DEF TypeOK, PortSet
      <4>3. CASE m = written + 1
        BY <2>0, <4>2, <4>3 DEF Value
      <4>4. CASE m # written + 1
        <5>1. m \in 1 .. written
          BY <2>0, <4>4
        <5>2. Ports[m] # Ports[written + 1]
          BY <4>1, <4>4, PortsDistinct
        <5>3. reg[Ports[m]] = Value(Ports[m])
          BY <2>0, <5>1 DEF Control
        <5> QED BY <2>0, <4>2, <5>2, <5>3 DEF Value
      <4> QED BY <4>3, <4>4
    <3> QED BY <2>0, <3>1 DEF Control, drive
  <2> QED BY <2>1, <2>2, <2>3
<1>4. CASE ReadSectors
  <2>0. /\ status' = "busy" /\ at' = req.lba /\ left' = req.total /\ word' = 0
        /\ pc' = "poll" /\ i = 0 /\ j = 0
        /\ UNCHANGED <<req, written, i, j, buf, reg>>
    BY <1>4, CommandRight DEF ReadSectors, InStep, Control
  <2>1. TypeOK'
    BY <1>0, <2>0 DEF TypeOK
  <2>2. InStep'
    BY <1>0, <2>0 DEF InStep
  <2>3. Control'
    BY <2>0 DEF Control
  <2> QED BY <2>1, <2>2, <2>3
<1>5. CASE PollReady
  <2>1. TypeOK'
    BY <1>0, <1>5 DEF PollReady, TypeOK, drive
  <2>2. InStep'
    BY <1>5 DEF PollReady, InStep, Control, drive
  <2>3. Control'
    BY <1>5 DEF PollReady, Control, drive
  <2> QED BY <2>1, <2>2, <2>3
<1>6. CASE ReadWord
  <2>0. /\ pc = "in" /\ status = "ready" /\ word = j /\ i < req.total /\ left > 0
        /\ at = req.lba + i /\ left = req.total - i
        /\ buf' = Append(buf, insw) /\ UNCHANGED <<req, written, reg>>
    BY <1>6 DEF ReadWord, InStep, Control
  <2>1. buf' \in Seq(Int \X Int)
    BY <2>0, WordTaken DEF TypeOK
  <2>2. CASE j + 1 < Words
    <3>1. /\ word' = j + 1 /\ j' = j + 1 /\ word < Words - 1
          /\ UNCHANGED <<status, at, left, pc, i>>
      BY <1>0, <1>6, <2>0, <2>2 DEF ReadWord, Deliver, TypeOK
    <3>2. TypeOK'
      BY <1>0, <2>0, <2>1, <2>2, <3>1 DEF TypeOK
    <3>3. InStep'
      BY <2>0, <3>1 DEF InStep
    <3>4. Control'
      BY <2>0, <3>1 DEF Control
    <3> QED BY <3>2, <3>3, <3>4
  <2>3. CASE ~(j + 1 < Words)
    <3>1. /\ status' = "busy" /\ at' = at + 1 /\ left' = left - 1 /\ word' = 0
          /\ pc' = "poll" /\ i' = i + 1 /\ j' = 0
      BY <1>0, <1>6, <2>0, <2>3 DEF ReadWord, Deliver, TypeOK
    <3>2. /\ i \in Nat /\ at \in Nat /\ left \in Nat
          /\ i + 1 \in 0 .. req.total /\ left - 1 \in 0 .. RegisterSize
          /\ at + 1 = req.lba + (i + 1) /\ left - 1 = req.total - (i + 1)
      <4>1. i \in Nat /\ at \in Nat /\ left \in 0 .. RegisterSize
        BY <1>0 DEF TypeOK
      <4> QED BY <1>0, <2>0, <4>1
    <3>3. TypeOK'
      <4>1. /\ at' \in Nat /\ left' \in 0 .. RegisterSize /\ word' \in 0 .. (Words - 1)
            /\ i' \in 0 .. req'.total /\ j' \in 0 .. (Words - 1)
        <5>1. 0 \in 0 .. (Words - 1)
          BY <1>0
        <5>2. word' \in 0 .. (Words - 1) /\ j' \in 0 .. (Words - 1)
          BY <3>1, <5>1
        <5>3. i' \in 0 .. req'.total
          BY <2>0, <3>1, <3>2
        <5>4. at + 1 \in Nat
          BY <3>2
        <5>5. at' \in Nat /\ left' \in 0 .. RegisterSize
          BY <3>1, <3>2, <5>4
        <5> QED BY <5>2, <5>3, <5>5
      <4> QED BY <2>0, <2>1, <3>1, <4>1 DEF TypeOK
    <3>4. InStep'
      <4>1. at' = req'.lba + i' /\ left' = req'.total - i' /\ word' = j'
        BY <2>0, <3>1, <3>2
      <4> QED BY <3>1, <4>1 DEF InStep
    <3>5. Control'
      BY <2>0, <3>1 DEF Control
    <3> QED BY <3>3, <3>4, <3>5
  <2> QED BY <2>2, <2>3
<1>7. CASE Returns
  <2>0. pc = "poll" /\ pc' = "idle" /\ i = req.total /\ left = 0
        /\ status \notin {"ready", "failed"}
        /\ UNCHANGED <<req, written, i, j, buf, reg, drive>>
    BY <1>0, <1>7 DEF Returns, InStep, Control
  <2>1. TypeOK'
    BY <2>0 DEF TypeOK, drive
  <2>2. InStep'
    BY <2>0 DEF InStep, drive, TypeOK
  <2>3. Control'
    BY <2>0 DEF Control, drive
  <2> QED BY <2>1, <2>2, <2>3
<1>8. CASE SectorReady
  <2>1. TypeOK'
    BY <1>8 DEF SectorReady, TypeOK, driver
  <2>2. InStep'
    BY <1>8 DEF SectorReady, InStep, Control, driver, TypeOK
  <2>3. Control'
    BY <1>8 DEF SectorReady, Control, driver, Value
  <2> QED BY <2>1, <2>2, <2>3
<1>9. CASE CommandEnds
  <2>1. TypeOK'
    BY <1>9 DEF CommandEnds, TypeOK, driver
  <2>2. InStep'
    <3>1. UNCHANGED <<pc, req, i, j, at, left, word>> /\ status' = "idle" /\ left = 0
      BY <1>9 DEF CommandEnds, driver
    <3>2. pc = "poll" => i = req.total
      <4>1. ASSUME NEW a \in Nat, NEW b \in Nat, 0 = b - a PROVE a = b
        BY <4>1
      <4>2. i \in Nat /\ (pc = "poll" => 0 = req.total - i)
        BY <3>1 DEF InStep, TypeOK
      <4> QED BY <1>0, <4>1, <4>2
    <3>3. pc # "in"
      BY <1>9 DEF CommandEnds, InStep
    <3> QED BY <3>1, <3>2, <3>3 DEF InStep
  <2>3. Control'
    BY <1>9 DEF CommandEnds, Control, driver, Value
  <2> QED BY <2>1, <2>2, <2>3
<1>10. CASE SectorFails
  <2>1. TypeOK'
    BY <1>10 DEF SectorFails, TypeOK, driver
  <2>2. InStep'
    BY <1>10 DEF SectorFails, InStep, Control, driver, TypeOK
  <2>3. Control'
    BY <1>10 DEF SectorFails, Control, driver, Value
  <2> QED BY <2>1, <2>2, <2>3
<1>11. CASE UNCHANGED vars
  <2>1. TypeOK'
    BY <1>11 DEF vars, driver, drive, TypeOK
  <2>2. InStep'
    BY <1>11 DEF vars, driver, drive, InStep
  <2>3. Control'
    BY <1>11 DEF vars, driver, drive, Control, Value
  <2> QED BY <2>1, <2>2, <2>3
<1> QED
  BY <1>1, <1>2, <1>3, <1>4, <1>5, <1>6, <1>7, <1>8, <1>9, <1>10, <1>11 DEF Next, Driver, Drive

\* The invariant of control holds in every state.
LEMMA Controlled == Spec => []AInv
BY AInvInit, AInvNext, PTL DEF Spec

-----------------------------------------------------------------------------

\* Whatever the drive does between two port accesses, no count leaves its
\* range: no sector past the last, no word past the sector's, no register
\* but the five.
THEOREM TypeCorrect == Spec => []TypeOK
<1>1. AInv => TypeOK
  BY DEF AInv
<1> QED BY <1>1, Controlled, PTL

\* Driver and drive agree about the sector, the word and what is left from
\* the command to the return, and a word is taken only when one is offered.
THEOREM StaysInStep == Spec => []InStep
<1>1. AInv => InStep
  BY DEF AInv
<1> QED BY <1>1, Controlled, PTL

LEMMA BufferInit == Init => BufferRight
<1> SUFFICES ASSUME Init PROVE BufferRight
  OBVIOUS
<1>1. req.lba \in Nat /\ i = 0 /\ j = 0 /\ buf = <<>> /\ pc = "out"
  BY RequestTyped DEF Init
<1>2. 1 .. (Len(buf) - 1) = {}
  BY <1>1
<1> QED BY <1>1, <1>2 DEF BufferRight, Wanted

LEMMA BufferNext == AInv /\ BufferRight /\ [Next]_vars => BufferRight'
<1> SUFFICES ASSUME AInv, BufferRight, [Next]_vars PROVE BufferRight'
  OBVIOUS
<1>0. /\ req.lba \in Nat /\ req.total \in Nat /\ Words \in Nat /\ Words > 0
      /\ i \in Nat /\ j \in 0 .. (Words - 1) /\ buf \in Seq(Int \X Int)
  BY RequestTyped, Sizes DEF AInv, TypeOK
<1>1. ASSUME NEW r \in Requests, disk_read_sector(r) PROVE BufferRight'
  <2>1. r.lba \in Nat
    BY RequestTyped
  <2> QED BY <1>1, <2>1 DEF disk_read_sector, BufferRight, Wanted
<1>2. CASE ReadWord
  <2>0. pc = "in" /\ buf' = Append(buf, Wanted) /\ req' = req
    BY <1>2, WordTaken DEF ReadWord
  <2>1. Wanted' = After(Wanted) /\ pc' # "idle"
    <3>1. CASE j + 1 < Words
      BY <1>0, <1>2, <3>1 DEF ReadWord, Wanted, After
    <3>2. CASE ~(j + 1 < Words)
      BY <1>0, <1>2, <3>2 DEF ReadWord, Wanted, After
    <3> QED BY <3>1, <3>2
  <2>2. /\ Len(buf') = Len(buf) + 1 /\ Len(buf) \in Nat /\ buf' # <<>>
        /\ buf'[Len(buf) + 1] = Wanted
        /\ \A p \in 1 .. Len(buf) : buf'[p] = buf[p]
    BY <1>0, <2>0
  <2>3. buf'[1] = <<req.lba, 0>>
    <3>1. CASE buf = <<>>
      BY <2>2, <3>1 DEF BufferRight
    <3>2. CASE buf # <<>>
      <4>1. 1 \in 1 .. Len(buf)
        BY <1>0, <3>2
      <4> QED BY <2>2, <3>2, <4>1 DEF BufferRight
    <3> QED BY <3>1, <3>2
  <2>4. ASSUME NEW p \in 1 .. (Len(buf') - 1) PROVE buf'[p + 1] = After(buf'[p])
    <3>1. p \in 1 .. Len(buf) /\ buf # <<>>
      BY <1>0, <2>2
    <3>2. CASE p = Len(buf)
      BY <2>2, <3>1, <3>2 DEF BufferRight
    <3>3. CASE p # Len(buf)
      <4>1. p \in 1 .. (Len(buf) - 1) /\ p + 1 \in 1 .. Len(buf)
        BY <2>2, <3>1, <3>3
      <4> QED BY <2>2, <3>1, <4>1 DEF BufferRight
    <3> QED BY <3>2, <3>3
  <2>5. buf'[Len(buf')] = Wanted
    BY <2>2
  <2> QED
    <3>1. After(buf'[Len(buf')]) = Wanted'
      BY <2>1, <2>5
    <3>2. req'.lba = req.lba
      BY <2>0
    <3>3. \A p \in 1 .. (Len(buf') - 1) : buf'[p + 1] = After(buf'[p])
      BY <2>4
    <3> QED BY <2>1, <2>2, <2>3, <3>1, <3>2, <3>3 DEF BufferRight, After
<1>3. CASE PollReady
  BY <1>3 DEF PollReady, BufferRight, Wanted, AInv, Control, After
<1>4. CASE Returns
  <2>1. i = req.total /\ j = 0 /\ UNCHANGED <<req, i, j, buf>>
    BY <1>4 DEF Returns, AInv, Control
  <2> QED BY <2>1 DEF BufferRight, Wanted, After
<1>5. CASE WaitNotBusy \/ Outb \/ ReadSectors
  BY <1>5 DEF WaitNotBusy, Outb, ReadSectors, BufferRight, Wanted, After
<1>6. CASE Drive \/ UNCHANGED vars
  BY <1>6 DEF Drive, SectorReady, CommandEnds, SectorFails, vars, driver, BufferRight, Wanted, After
<1> QED
  BY <1>1, <1>2, <1>3, <1>4, <1>5, <1>6 DEF Next, Driver

\* For every size of registers and sectors and every sequence of reads: the
\* words stored are the disk's from the first one asked for, in order, and
\* when a read returns all those asked for.
THEOREM ReadsRightWords == Spec => []BufferRight
BY Controlled, BufferInit, BufferNext, PTL DEF Spec

-----------------------------------------------------------------------------
(* The variant: what ReadEnds rests on. *)

\* The words and the waits of the sectors not read yet.
LEMMA SectorsLeft ==
  ASSUME NEW n \in Nat
  PROVE  /\ n * (Words + 2) \in Nat
         /\ n > 0 => n * (Words + 2) = (n - 1) * (Words + 2) + Words + 2
                     /\ (n - 1) * (Words + 2) \in Nat
<1>1. Words \in Nat
  BY Sizes
<1> QED BY ONLY <1>1, SMT

LEMMA StepAdvances ==
  ASSUME AInv, Driver \/ Drive, pc # "idle", ~UNCHANGED vars
  PROVE  StepsLeft' \in 0 .. (StepsLeft - 1)
<1>0. /\ req.total \in Nat /\ i \in 0 .. req.total /\ written \in 0 .. 5
      /\ Words \in Nat /\ Words > 0 /\ j \in 0 .. (Words - 1)
  BY RequestTyped, Sizes DEF AInv, TypeOK
<1> DEFINE whole == req.total * (Words + 2)
           rest == (req.total - i) * (Words + 2)
<1>1. whole \in Nat /\ rest \in Nat
  BY <1>0, SectorsLeft
<1>2. i < req.total =>
        /\ rest = (req.total - i - 1) * (Words + 2) + Words + 2
        /\ (req.total - i - 1) * (Words + 2) \in Nat
  BY <1>0, SectorsLeft
<1>3. CASE WaitNotBusy
  <2>1. /\ pc = "wait" /\ pc' = "out" /\ status # "busy" /\ written' = 0
        /\ UNCHANGED <<req, status>>
    BY <1>3 DEF WaitNotBusy, AInv, Control, vars, driver, drive
  <2>2. StepsLeft = whole + 9 + 0 /\ StepsLeft' = whole + 8 - 0 + 0
    BY <2>1 DEF StepsLeft
  <2> QED BY ONLY <1>1, <2>2
<1>4. CASE Outb
  <2>1. /\ pc = "out" /\ status = "idle" /\ written < 5 /\ written' = written + 1
        /\ UNCHANGED <<pc, req, status>>
    BY <1>4 DEF Outb, AInv, InStep, drive
  <2>2. StepsLeft = whole + 8 - written + 0 /\ StepsLeft' = whole + 8 - (written + 1) + 0
    BY <2>1 DEF StepsLeft
  <2> QED BY ONLY <1>0, <1>1, <2>1, <2>2
<1>5. CASE ReadSectors
  <2>1. /\ pc = "out" /\ pc' = "poll" /\ status = "idle" /\ written = 5 /\ status' = "busy"
        /\ i = 0 /\ UNCHANGED <<req, i>>
    BY <1>5 DEF ReadSectors, AInv, InStep, Control
  <2>2. StepsLeft = whole + 8 - 5 + 0 /\ StepsLeft' = rest + 1 + 1
    BY <2>1 DEF StepsLeft
  <2>3. req.total - i = req.total
    BY <1>0, <2>1
  <2>4. whole = rest
    BY <2>3
  <2> HIDE DEF whole, rest
  <2> QED BY <1>1, <2>2, <2>4
<1>6. CASE PollReady
  <2>1. /\ pc = "poll" /\ pc' = "in" /\ status = "ready" /\ j' = 0
        /\ UNCHANGED <<req, i, status>>
    BY <1>6 DEF PollReady, AInv, Control, vars, driver, drive
  <2>2. StepsLeft = rest + 1 + 0 /\ StepsLeft' = rest - 0 + 0
    BY <2>1 DEF StepsLeft
  <2> QED BY ONLY <1>1, <2>2
<1>7. CASE ReadWord
  <2>1. /\ pc = "in" /\ status = "ready" /\ word = j /\ i < req.total /\ req' = req
    BY <1>7 DEF ReadWord, AInv, InStep, Control
  <2>2. StepsLeft = rest - j + 0
    BY <2>1 DEF StepsLeft
  <2>3. CASE j + 1 < Words
    <3>1. pc' = "in" /\ status' = "ready" /\ i' = i /\ j' = j + 1
      BY <1>0, <1>7, <2>1, <2>3 DEF ReadWord, Deliver
    <3>2. StepsLeft' = rest - (j + 1) + 0
      BY <2>1, <3>1 DEF StepsLeft
    <3>3. PICK r \in Nat : rest = r + Words + 2
      BY <1>2, <2>1
    <3> HIDE DEF rest
    <3> QED BY <1>0, <2>2, <3>2, <3>3
  <2>4. CASE ~(j + 1 < Words)
    <3>1. pc' = "poll" /\ status' = "busy" /\ i' = i + 1
      BY <1>0, <1>7, <2>1, <2>4 DEF ReadWord, Deliver
    <3>2. PICK r \in Nat : r = (req.total - i - 1) * (Words + 2) /\ rest = r + Words + 2
      BY <1>2, <2>1
    <3>3. req'.total - i' = req.total - i - 1
      BY <1>0, <2>1, <3>1
    <3>4. StepsLeft' = r + 1 + 1
      BY <3>1, <3>2, <3>3 DEF StepsLeft
    <3> HIDE DEF rest
    <3> QED BY <1>0, <2>2, <2>4, <3>2, <3>4
  <2> QED BY <2>3, <2>4
<1>8. CASE Returns
  <2>1. pc = "poll" /\ pc' = "idle" /\ status' = status
    BY <1>8 DEF Returns, drive
  <2> DEFINE b == IF status = "busy" THEN 1 ELSE 0
  <2>2. StepsLeft = rest + 1 + b /\ StepsLeft' = 0 + b /\ b \in Nat
    BY <2>1 DEF StepsLeft
  <2> QED BY ONLY <1>1, <2>2
<1>9. CASE Drive
  <2>1. /\ status = "busy" /\ status' # "busy"
        /\ UNCHANGED <<pc, req, written, i, j>>
    BY <1>9 DEF Drive, SectorReady, CommandEnds, SectorFails, driver
  <2>2. pc \in {"wait", "poll"}
    BY <2>1 DEF AInv, TypeOK, InStep
  <2>3. CASE pc = "wait"
    <3>1. StepsLeft = whole + 9 + 1 /\ StepsLeft' = whole + 9 + 0
      BY <2>1, <2>3 DEF StepsLeft
    <3> QED BY ONLY <1>1, <3>1
  <2>4. CASE pc = "poll"
    <3>1. StepsLeft = rest + 1 + 1 /\ StepsLeft' = rest + 1 + 0
      BY <2>1, <2>4 DEF StepsLeft
    <3> QED BY ONLY <1>1, <3>1
  <2> QED BY <2>2, <2>3, <2>4
<1> QED BY <1>3, <1>4, <1>5, <1>6, <1>7, <1>8, <1>9 DEF Driver

\* For every size of registers and sectors and every read: a step of driver or
\* drive leaves the read fewer steps than there were.  A poll, which leaves
\* them as they are, waits by StaysInStep only for a drive that is busy, ready
\* or failed; this, with the fairness of both, is why a read ends.
THEOREM EveryReadAdvances == Spec => ReadAdvances
<1>1. AInv /\ [Next]_vars =>
        [pc # "idle" => StepsLeft' \in 0 .. (StepsLeft - 1)]_vars
  <2> SUFFICES ASSUME AInv, Next, pc # "idle", ~UNCHANGED vars
               PROVE  StepsLeft' \in 0 .. (StepsLeft - 1)
    OBVIOUS
  <2>1. Driver \/ Drive
    BY DEF Next, disk_read_sector
  <2> QED BY <2>1, StepAdvances
<1> QED BY <1>1, Controlled, AInvInit, AInvNext, PTL DEF Spec, ReadAdvances

=============================================================================
