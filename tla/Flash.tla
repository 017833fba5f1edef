-------------------------------- MODULE Flash --------------------------------
(***************************************************************************)
(* The flash memory W25Q32BV and its driver, as littlefs uses them through *)
(* the block device of storage.c: programming in pages and erasing, which  *)
(* take a write enable, a command and a wait.                              *)
(*                                                                         *)
(* The SPI lock covers one command at a time and nothing locks littlefs,   *)
(* so calls of two tasks may interleave.  A datum is named after the       *)
(* address it is meant for; programming adds data to a cell, as bits can   *)
(* only be cleared, and erasing takes all of them away.                    *)
(***************************************************************************)
EXTENDS Integers, FiniteSets

CONSTANTS SectorCount, SectorSize, PageSize,
          ProgSize, CacheSize,  \* LFS_MIN_PROG_BLOCK_SIZE and LFS_CACHE_SIZE
          PointerStep,          \* 2^8: a step of the data pointer is cast to uint8_t
          FlashTasks,           \* the tasks that use littlefs
          NoTask,
          FlashLimit            \* how often each event may happen

FlashEvents == {"call", "fault", "power"}

ASSUME GeometryAssumption ==
  /\ {SectorCount, SectorSize, PageSize, ProgSize, CacheSize, PointerStep} \subseteq Nat \ {0}
  /\ SectorSize % PageSize = 0 /\ CacheSize % ProgSize = 0
  /\ CacheSize <= PageSize /\ PageSize <= PointerStep
ASSUME FlashLimitAssumption == FlashLimit \in [FlashEvents -> Nat] /\ NoTask \notin FlashTasks

VARIABLES cells,            \* the data of every address
          busy,             \* the addresses being programmed or erased, and how
          write_enabled, asleep,
          spi_owner,        \* the task that waits with the bus locked
          call,             \* where each task is in its call
          alone,            \* the tasks whose call found the chip ready and no other call
          flash_left        \* events that may still happen

flashVars == <<cells, busy, write_enabled, asleep, spi_owner, call, alone, flash_left>>

Addresses == 0..(SectorCount * SectorSize - 1)
Ready == [kind |-> "ready"]
Results == {"success", "failure"}

FlashHappens(event) ==
  /\ flash_left[event] > 0
  /\ flash_left' = [flash_left EXCEPT ![event] = @ - 1]

SectorOf(address) == address \div SectorSize
InSector(sector) == {address \in Addresses : SectorOf(address) = sector}

\* What littlefs programs: whole units of ProgSize, at most its cache, in one sector.
Blocks ==
  {block \in [first : Addresses, size : 1..CacheSize] :
     /\ block.first % ProgSize = 0 /\ block.size % ProgSize = 0
     /\ (block.first % SectorSize) + block.size <= SectorSize}

Idle == [pc |-> "idle", result |-> "failure", op |-> "none", first |-> 0, size |-> 0,
         page_number |-> 0, page_offset |-> 0, data |-> 0, data_size |-> 0, size_to_write |-> 0]

At(t, label) == call[t].pc = label
Goto(t, label) == call' = [call EXCEPT ![t].pc = label]
BusFree(t) == spi_owner \in {NoTask, t}
Return(t, result) == call' = [call EXCEPT ![t].pc = "idle", ![t].result = result]

\* A chip that is busy or asleep ignores every command but the one it waits for.
Listens == busy = Ready /\ ~asleep

-----------------------------------------------------------------------------
(* The calls of littlefs.                                                  *)

FlashInit ==
  /\ cells = [a \in Addresses |-> {}]
  /\ busy = Ready /\ write_enabled = FALSE /\ asleep = TRUE
  /\ spi_owner = NoTask
  /\ call = [t \in FlashTasks |-> Idle]
  /\ alone = {}
  /\ flash_left = FlashLimit

\* A call has the driver for itself as long as no other call is made.
Begin(t, begun) ==
  /\ At(t, "idle")
  /\ FlashHappens("call")
  /\ call' = [call EXCEPT ![t] = begun]
  /\ alone' = IF Listens /\ \A other \in FlashTasks : At(other, "idle") THEN {t} ELSE {}
  /\ UNCHANGED <<cells, busy, write_enabled, asleep, spi_owner>>

Smaller(a, b) == IF a < b THEN a ELSE b

BeginProg(t, block) ==
  LET sector == SectorOf(block.first)
      sector_offset == block.first % SectorSize
      page_offset == sector_offset % PageSize
  IN  Begin(t, [pc |-> "enable", result |-> "failure", op |-> "prog",
                first |-> block.first, size |-> block.size,
                page_number |-> ((sector * SectorSize) \div PageSize) + (sector_offset \div PageSize),
                page_offset |-> page_offset,
                data |-> 0, data_size |-> block.size,
                size_to_write |-> Smaller(block.size, PageSize - page_offset)])

BeginErase(t, sector) ==
  Begin(t, [Idle EXCEPT !.pc = "enable", !.op = "erase", !.first = sector * SectorSize,
                        !.size = SectorSize])

\* w25q32bv_flash_enable_erasing_or_writing
WriteEnable(t) ==
  /\ At(t, "enable") /\ BusFree(t)
  /\ write_enabled' = (write_enabled \/ Listens)
  /\ Goto(t, "command")
  /\ UNCHANGED <<cells, busy, asleep, spi_owner, alone, flash_left>>

\* The transfer fails: the chip may have understood, the call ends.
WriteEnableFails(t) ==
  /\ At(t, "enable") /\ BusFree(t)
  /\ FlashHappens("fault")
  /\ write_enabled' \in {write_enabled, write_enabled \/ Listens}
  /\ Return(t, "failure")
  /\ UNCHANGED <<cells, busy, asleep, spi_owner, alone>>

\* The chip's answer to a page program of n bytes: within its page the address wraps.
Programming(t, n) ==
  LET page == call[t].page_number * PageSize
      address(i) == page + ((call[t].page_offset + i) % PageSize)
  IN  [kind |-> "prog", data |-> {<<address(i), call[t].first + call[t].data + i>> : i \in 0..(n - 1)}]

Erasing(t) == [kind |-> "erase", sector |-> SectorOf(call[t].first)]

\* The chip starts if it is ready and a write enable preceded.
Starts(operation) ==
  IF Listens /\ write_enabled
  THEN busy' = operation /\ write_enabled' = FALSE
  ELSE UNCHANGED <<busy, write_enabled>>

ValidPage(t) ==
  /\ call[t].size_to_write + call[t].page_offset <= PageSize
  /\ call[t].size_to_write # 0

\* w25q32bv_flash_write_page
WritePage(t) ==
  /\ At(t, "command") /\ call[t].op = "prog" /\ BusFree(t) /\ ValidPage(t)
  /\ Starts(Programming(t, call[t].size_to_write))
  /\ Goto(t, "wait")
  /\ UNCHANGED <<cells, asleep, spi_owner, alone, flash_left>>

\* The transfer of the data breaks off: the chip programs what it has received,
\* and nobody waits for it.
WritePageFails(t) ==
  /\ At(t, "command") /\ call[t].op = "prog" /\ BusFree(t) /\ ValidPage(t)
  /\ FlashHappens("fault")
  /\ \/ UNCHANGED <<busy, write_enabled>>
     \/ \E n \in 1..call[t].size_to_write : Starts(Programming(t, n))
  /\ Return(t, "failure")
  /\ UNCHANGED <<cells, asleep, spi_owner, alone>>

\* w25q32bv_flash_erase_sector
EraseSector(t) ==
  /\ At(t, "command") /\ call[t].op = "erase" /\ BusFree(t)
  /\ Starts(Erasing(t))
  /\ Goto(t, "wait")
  /\ UNCHANGED <<cells, asleep, spi_owner, alone, flash_left>>

EraseSectorFails(t) ==
  /\ At(t, "command") /\ call[t].op = "erase" /\ BusFree(t)
  /\ FlashHappens("fault")
  /\ \/ UNCHANGED <<busy, write_enabled>>
     \/ Starts(Erasing(t))
  /\ Return(t, "failure")
  /\ UNCHANGED <<cells, asleep, spi_owner, alone>>

-----------------------------------------------------------------------------
(* w25q32bv_flash_wait_erasing_or_writing: the status is read until the    *)
(* chip is ready, with the bus locked all the time.                        *)

ReadStatus(t) ==
  /\ At(t, "wait") /\ spi_owner = NoTask
  /\ spi_owner' = t
  /\ Goto(t, "polling")
  /\ UNCHANGED <<cells, busy, write_enabled, asleep, alone, flash_left>>

\* A transfer fails, the first or any later one, whatever the chip is doing.
WaitFails(t) ==
  /\ \/ At(t, "wait") /\ spi_owner = NoTask
     \/ At(t, "polling")
  /\ FlashHappens("fault")
  /\ spi_owner' = NoTask
  /\ Return(t, "failure")
  /\ UNCHANGED <<cells, busy, write_enabled, asleep, alone>>

MutantWaited(t) == At(t, "wait") \/ At(t, "polling")

\* The status of a chip that sleeps reads as anything.
Waited(t) == At(t, "polling") /\ (busy = Ready \/ asleep)

MutantNextPage(t) ==
  LET written == call[t].size_to_write
      remaining == call[t].data_size - written
  IN  call' = [call EXCEPT ![t].pc = "enable", ![t].page_number = @ + 1,
                           ![t].data = @ + (written % PointerStep),
                           ![t].data_size = remaining,
                           ![t].size_to_write = Smaller(remaining, PageSize)]

\* The rest goes to the beginning of the next page.
NextPage(t) ==
  LET written == call[t].size_to_write
      remaining == call[t].data_size - written
  IN  call' = [call EXCEPT ![t].pc = "enable", ![t].page_number = @ + 1, ![t].page_offset = 0,
                           ![t].data = @ + (written % PointerStep),
                           ![t].data_size = remaining,
                           ![t].size_to_write = Smaller(remaining, PageSize)]

WaitEnds(t) ==
  /\ Waited(t)
  /\ spi_owner' = NoTask
  /\ IF call[t].op = "prog" /\ call[t].data_size > call[t].size_to_write
     THEN NextPage(t)
     ELSE Return(t, "success")
  /\ UNCHANGED <<cells, busy, write_enabled, asleep, alone, flash_left>>

-----------------------------------------------------------------------------
(* The chip, and its sleep.                                                *)

Finish ==
  /\ busy # Ready
  /\ busy' = Ready
  /\ cells' =
       IF busy.kind = "erase"
       THEN [a \in Addresses |-> IF SectorOf(a) = busy.sector THEN {} ELSE cells[a]]
       ELSE [a \in Addresses |-> cells[a] \cup {datum[2] : datum \in {d \in busy.data : d[1] = a}}]
  /\ UNCHANGED <<write_enabled, asleep, spi_owner, call, alone, flash_left>>

\* storage_enable_power and storage_disable_power, which only log a failing transfer.
SetPower(t, on, transferred) ==
  /\ At(t, "idle") /\ BusFree(t)
  /\ FlashHappens("power")
  /\ asleep' = IF transferred /\ busy = Ready THEN ~on ELSE asleep
  /\ write_enabled' = (write_enabled /\ ~asleep')
  /\ alone' = alone \cap {t}
  /\ UNCHANGED <<cells, busy, spi_owner, call>>

FlashNext ==
  \/ \E t \in FlashTasks :
       \/ \E block \in Blocks : BeginProg(t, block)
       \/ \E sector \in 0..(SectorCount - 1) : BeginErase(t, sector)
       \/ WriteEnable(t) \/ WriteEnableFails(t)
       \/ WritePage(t) \/ WritePageFails(t)
       \/ EraseSector(t) \/ EraseSectorFails(t)
       \/ ReadStatus(t) \/ WaitFails(t) \/ WaitEnds(t)
       \/ \E on, transferred \in BOOLEAN : SetPower(t, on, transferred)
  \/ Finish

FlashSpec == FlashInit /\ [][FlashNext]_flashVars

-----------------------------------------------------------------------------
(* Properties.                                                             *)

Calls ==
  [pc : {"idle", "enable", "command", "wait", "polling"}, result : Results,
   op : {"none", "prog", "erase"}, first : Addresses, size : 0..SectorSize,
   page_number : Nat, page_offset : 0..(PageSize - 1),
   data : 0..CacheSize, data_size : 0..CacheSize, size_to_write : 0..PageSize]

FlashTypeOK ==
  /\ cells \in [Addresses -> SUBSET Addresses]
  /\ \/ busy = Ready
     \/ busy \in [kind : {"erase"}, sector : 0..(SectorCount - 1)]
     \/ busy.kind = "prog" /\ busy.data \subseteq Addresses \X Addresses
  /\ write_enabled \in BOOLEAN /\ asleep \in BOOLEAN
  /\ spi_owner \in FlashTasks \cup {NoTask}
  /\ call \in [FlashTasks -> Calls]
  /\ alone \subseteq FlashTasks
  /\ flash_left \in [FlashEvents -> Nat]

\* A datum is only ever programmed at the address littlefs meant it for, also
\* across the end of a page, when transfers break off and when the calls of two
\* tasks interleave (storage_lfs_block_device_prog).
InPlace == \A a \in Addresses : cells[a] \subseteq {a}

\* A call that found the chip ready and had the driver for itself has done its
\* work when it reports success: the sector is empty, or every datum is written.
DoneWhenReported ==
  \A t \in alone :
    At(t, "idle") /\ call[t].result = "success" =>
      \A a \in Addresses :
        /\ call[t].op = "erase" /\ SectorOf(a) = SectorOf(call[t].first) => cells[a] = {}
        /\ call[t].op = "prog" /\ a \in call[t].first..(call[t].first + call[t].size - 1)
             => a \in cells[a]
=============================================================================
