--------------------------------- MODULE Ata ---------------------------------
(***************************************************************************)
(* Reading sectors with programmed I/O: the boot loader's ata_lba_read     *)
(* (boot/boot.asm), then the kernel's read_from_disk (disk/disk.c), and    *)
(* the drive, which goes on between any two of their port accesses.  A     *)
(* word on the disk is named by its sector and its place in it.            *)
(***************************************************************************)
EXTENDS Integers, Sequences

CONSTANTS
  RegisterSize,  \* 256, the values of a register
  TopSize,       \* 16, the values of the address bits in 1F6
  Words,         \* 256, the words of a sector
  Requests,      \* the reads the kernel asks for
  LoaderRequest  \* the loader's

ASSUME AtaAssumption ==
  /\ RegisterSize \in Nat \ {0}
  /\ TopSize \in Nat \ {0}
  /\ Words \in Nat \ {0}
  /\ Requests \cup {LoaderRequest} \subseteq
       [lba : 0 .. (RegisterSize * RegisterSize * RegisterSize * TopSize - 1), total : 1 .. RegisterSize]

VARIABLES
  pc,      \* where the driver is
  req,     \* what it was asked for
  written, \* how many of the five registers it has written
  reg,     \* the drive's registers, by port
  i, j,    \* the sectors read, and the words of the current one
  buf,     \* the words stored at ptr
  status,  \* the drive: idle, busy (BSY), ready (DRQ) or failed (ERR)
  at,      \* the drive: the sector it reads
  left,    \* the sectors it still has to deliver
  word     \* the next word of the data register

driver == <<pc, req, written, i, j, buf>>
drive == <<status, at, left, word>>
vars == <<driver, reg, drive>>

Ports == <<"1F6", "1F2", "1F3", "1F4", "1F5">>

\* A slip: the two middle bytes of the address change places.
SwappedValue(port) ==
  CASE port = "1F6" -> (req.lba \div (RegisterSize * RegisterSize * RegisterSize)) % TopSize
    [] port = "1F2" -> req.total % RegisterSize
    [] port = "1F3" -> req.lba % RegisterSize
    [] port = "1F4" -> (req.lba \div (RegisterSize * RegisterSize)) % RegisterSize
    [] port = "1F5" -> (req.lba \div RegisterSize) % RegisterSize

\* What is written to each: the bytes of the address, and the count.  The
\* constant bits 0xE0 of 1F6 are left out.
Value(port) ==
  CASE port = "1F6" -> (req.lba \div (RegisterSize * RegisterSize * RegisterSize)) % TopSize
    [] port = "1F2" -> req.total % RegisterSize
    [] port = "1F3" -> req.lba % RegisterSize
    [] port = "1F4" -> (req.lba \div RegisterSize) % RegisterSize
    [] port = "1F5" -> (req.lba \div (RegisterSize * RegisterSize)) % RegisterSize

\* How the drive puts them together; a count of 0 stands for the largest.
Address ==
  reg["1F3"] + RegisterSize * (reg["1F4"] + RegisterSize * (reg["1F5"] + RegisterSize * reg["1F6"]))

Count == IF reg["1F2"] = 0 THEN RegisterSize ELSE reg["1F2"]

\* The data register holds a word of the disk only while the drive is ready.
Junk == <<-1, -1>>

insw == IF status = "ready" THEN <<at, word>> ELSE Junk

\* The loader does not wait before it writes the registers.
Init ==
  /\ pc = "out" /\ req = LoaderRequest
  /\ written = 0 /\ i = 0 /\ j = 0 /\ buf = <<>>
  /\ reg = [p \in {"1F6", "1F2", "1F3", "1F4", "1F5"} |-> 0]
  /\ status = "idle" /\ at = 0 /\ left = 0 /\ word = 0

-----------------------------------------------------------------------------
(* The driver *)

disk_read_sector(r) ==
  /\ pc = "idle"
  /\ pc' = "wait"
  /\ req' = r
  /\ written' = 0 /\ i' = 0 /\ j' = 0 /\ buf' = <<>>
  /\ UNCHANGED <<reg, drive>>

\* A slip: the test of BSY is left out.
NoWait ==
  /\ pc = "wait"
  /\ pc' = "out"
  /\ UNCHANGED <<req, written, i, j, buf, reg, drive>>

\* insb(0x1F7) & 0x80 until it is clear.
WaitNotBusy ==
  /\ pc = "wait"
  /\ pc' = IF status = "busy" THEN "wait" ELSE "out"
  /\ UNCHANGED <<req, written, i, j, buf, reg, drive>>

\* A busy drive ignores its registers.
Outb ==
  /\ pc = "out"
  /\ written < 5
  /\ reg' = IF status = "busy"
              THEN reg
              ELSE [reg EXCEPT ![Ports[written + 1]] = Value(Ports[written + 1])]
  /\ written' = written + 1
  /\ UNCHANGED <<pc, req, i, j, buf, drive>>

\* outb(0x1F7, 0x20)
ReadSectors ==
  /\ pc = "out"
  /\ written = 5
  /\ pc' = "poll"
  /\ IF status = "busy"
       THEN UNCHANGED drive
       ELSE status' = "busy" /\ at' = Address /\ left' = Count /\ word' = 0
  /\ UNCHANGED <<req, written, i, j, buf, reg>>

\* insb(0x1F7) & 0x08 until it is set.
PollReady ==
  /\ pc = "poll"
  /\ i < req.total
  /\ pc' = IF status = "ready" THEN "in" ELSE "poll"
  /\ j' = 0
  /\ UNCHANGED <<req, written, i, buf, reg, drive>>

\* The drive's part of insw: after the last word DRQ falls, and the drive is
\* busy with the next sector or with ending the command.
Deliver ==
  IF status # "ready"
    THEN UNCHANGED drive
    ELSE IF word < Words - 1
      THEN word' = word + 1 /\ UNCHANGED <<status, at, left>>
      ELSE status' = "busy" /\ at' = at + 1 /\ left' = left - 1 /\ word' = 0

\* A slip: the loop's last word is number Words.
ReadWordMore ==
  /\ pc = "in"
  /\ buf' = Append(buf, insw)
  /\ Deliver
  /\ IF j < Words
       THEN j' = j + 1 /\ UNCHANGED <<pc, i>>
       ELSE pc' = "poll" /\ i' = i + 1 /\ j' = 0
  /\ UNCHANGED <<req, written, reg>>

ReadWord ==
  /\ pc = "in"
  /\ buf' = Append(buf, insw)
  /\ Deliver
  /\ IF j + 1 < Words
       THEN j' = j + 1 /\ UNCHANGED <<pc, i>>
       ELSE pc' = "poll" /\ i' = i + 1 /\ j' = 0
  /\ UNCHANGED <<req, written, reg>>

Returns ==
  /\ pc = "poll"
  /\ i = req.total
  /\ pc' = "idle"
  /\ UNCHANGED <<req, written, i, j, buf, reg, drive>>

-----------------------------------------------------------------------------
(* The drive *)

SectorReady ==
  /\ status = "busy" /\ left > 0
  /\ status' = "ready"
  /\ UNCHANGED <<driver, reg, at, left, word>>

CommandEnds ==
  /\ status = "busy" /\ left = 0
  /\ status' = "idle"
  /\ UNCHANGED <<driver, reg, at, left, word>>

SectorFails ==
  /\ status = "busy" /\ left > 0
  /\ status' = "failed"
  /\ UNCHANGED <<driver, reg, at, left, word>>

Driver ==
  \/ WaitNotBusy \/ Outb \/ ReadSectors
  \/ PollReady \/ ReadWord \/ Returns

Drive == SectorReady \/ CommandEnds \/ SectorFails

Next == (\E r \in Requests : disk_read_sector(r)) \/ Driver \/ Drive

\* The driver runs whenever it is in a call, and the drive answers.
Fairness == WF_vars(Driver) /\ WF_vars(Drive)

Spec == Init /\ [][Next]_vars /\ Fairness

-----------------------------------------------------------------------------
(* Properties *)

TypeOK ==
  /\ pc \in {"idle", "wait", "out", "poll", "in"}
  /\ req \in Requests \cup {LoaderRequest}
  /\ written \in 0 .. 5
  /\ reg \in [{"1F6", "1F2", "1F3", "1F4", "1F5"} -> Nat]
  /\ i \in 0 .. req.total
  /\ j \in 0 .. (Words - 1)
  /\ buf \in Seq(Int \X Int)
  /\ status \in {"idle", "busy", "ready", "failed"}
  /\ at \in Nat
  /\ left \in 0 .. RegisterSize
  /\ word \in 0 .. (Words - 1)

\* The word after w on the disk.
After(w) == IF w[2] < Words - 1 THEN <<w[1], w[2] + 1>> ELSE <<w[1] + 1, 0>>

\* The word the driver stores next.
Wanted == <<req.lba + i, j>>

\* What the driver has stored are the words of the disk from the first one
\* asked for on, none left out or taken twice, up to the one it stores next;
\* when it returns, that is the first after the last sector asked for.
BufferRight ==
  /\ buf = <<>> => Wanted = <<req.lba, 0>>
  /\ buf # <<>> => buf[1] = <<req.lba, 0>> /\ After(buf[Len(buf)]) = Wanted
  /\ \A p \in 1 .. (Len(buf) - 1) : buf[p + 1] = After(buf[p])
  /\ pc = "idle" => Wanted = <<req.lba + req.total, 0>>

\* From the command on, driver and drive agree about the sector, the word
\* and how many sectors are left, although neither is told; the driver takes
\* words only from a drive that offers them, and gives it commands only when
\* the drive does not offer words; and it never polls a drive that has nothing
\* more to do for it.
InStep ==
  /\ pc \in {"poll", "in"} =>
       /\ at = req.lba + i
       /\ left = req.total - i
       /\ word = j
  /\ pc = "in" => status = "ready"
  /\ pc \in {"idle", "wait", "out"} => status \in {"idle", "busy"}
  /\ pc = "out" => status = "idle"
  /\ pc = "poll" /\ status = "idle" => i = req.total

\* A bound on what driver and drive still do until a read returns.  A sector
\* takes its words, the drive's getting ready and the poll that finds it ready;
\* polls that find nothing new change nothing and do not count.
StepsLeft ==
  (CASE pc = "idle" -> 0
     [] pc = "wait" -> req.total * (Words + 2) + 9
     [] pc = "out"  -> req.total * (Words + 2) + 8 - written
     [] pc = "poll" -> (req.total - i) * (Words + 2) + 1
     [] pc = "in"   -> (req.total - i) * (Words + 2) - j)
  + (IF status = "busy" THEN 1 ELSE 0)

\* Whichever of the two makes a step during a read, it takes the read nearer to
\* its return: no word is waited for that was taken already, and no sector is
\* asked for again.
ReadAdvances == [][pc # "idle" => StepsLeft' \in 0 .. (StepsLeft - 1)]_vars

\* A read returns, unless the drive fails: the loop does not look at ERR.
ReadEnds == pc # "idle" ~> (pc = "idle" \/ status = "failed")

=============================================================================
