---------------------------- MODULE Tec1gMemory ----------------------------
(***************************************************************************)
(* The memory map of the TEC-1G (tec1g/tec1g-memory.ts, tec1g-shadow.ts,   *)
(* sysctrl.ts): what an address reaches under the system control latch,    *)
(* with the shadow of the monitor's ROM at the bottom, a protected range,  *)
(* and a window on nine banks.  One location stands for each range of      *)
(* addresses that the code treats alike.                                   *)
(***************************************************************************)
EXTENDS Integers, FiniteSets

CONSTANTS Boards,     \* configurations: locations that are ROM (romRanges), whether
                      \* a cartridge is in, the latch's default
          SysCtrl,    \* bytes the program writes to the latch
          Written     \* a byte the program writes

VARIABLES base,       \* hardware.memory
          banks,      \* expandBanks
          latch,      \* system.sysCtrl
          board,      \* the configuration and shadowCopied
          cells       \* history: what the documented map holds, and its banks

memoryVars == <<base, banks, latch, board, cells>>

(* 0000-07FF, 0800-0FFF and in it the monitor's presentation state,        *)
(* 4000-7FFF, 8000-BFFF, C000-C7FF, C800-FFFF; the rest is plain memory.   *)
Location == {"low", "monitor", "presentation", "app", "window", "mirror", "top"}
Bank == 0..8

\* The program image: a byte of its own everywhere, and the cartridge's banks.
Cleared == 0
Image == [l \in Location |->
  CASE l = "low" -> 1 [] l = "monitor" -> 2 [] l = "presentation" -> 3 [] l = "app" -> 4
    [] l = "window" -> 5 [] l = "mirror" -> 6 [] OTHER -> 7]
Presentation == 8
Cartridge == [k \in Bank |-> 10 + k]
NoCartridge == [k \in Bank |-> Cleared]

-----------------------------------------------------------------------------
\* The system control latch.

ShadowEnabled(v) == v % 2 = 0
ProtectEnabled(v) == (v \div 2) % 2 = 1
ExpandEnabled(v) == (v \div 4) % 2 = 1

(* Mutant: the first extended window is the second page again.             *)
PhysicalBankOffByOne(v) ==
  LET bank == (v \div 8) % 16
      upper == bank \div 2
  IN IF upper = 0 THEN bank % 2 ELSE 1 + upper - 1

(* The low bit chooses of two pages while the upper three are zero.        *)
PhysicalBank(v) ==
  LET bank == (v \div 8) % 16
      upper == bank \div 2
  IN IF upper = 0 THEN bank % 2 ELSE 2 + upper - 1

-----------------------------------------------------------------------------
\* The hooks.

HasShadowRom(layout) == "mirror" \in layout

(* ROM at the bottom only: it is moved to where the hardware has it.       *)
EnsureShadowRom(memory, layout) ==
  IF "low" \in layout /\ ~HasShadowRom(layout)
    THEN [memory EXCEPT !["mirror"] = memory["low"], !["low"] = Cleared]
    ELSE memory

ShadowCopied(layout) == "low" \in layout /\ ~HasShadowRom(layout)

IsRomAddress(l) == l \in board.rom \/ (board.shadowCopied /\ l = "mirror")

MemRead(l) ==
  CASE l = "low" /\ ShadowEnabled(latch) -> base["mirror"]
    [] l = "window" /\ ExpandEnabled(latch) -> banks[PhysicalBank(latch)]
    [] OTHER -> base[l]

IsMemoryWritable(l) ==
  /\ ~(l # "low" /\ IsRomAddress(l))
  /\ ~(ProtectEnabled(latch) /\ l = "app")

WriteVisibleMemory(l) ==
  IF l = "window" /\ ExpandEnabled(latch)
    THEN banks' = [banks EXCEPT ![PhysicalBank(latch)] = Written] /\ UNCHANGED base
    ELSE base' = [base EXCEPT ![l] = Written] /\ UNCHANGED banks

-----------------------------------------------------------------------------
\* The documented map, as the program sees it (platforms/tec1g/README.md:130-138).

DocumentedBank ==
  LET upper == (latch \div 16) % 8 IN IF upper = 0 THEN (latch \div 8) % 2 ELSE upper + 1

(* The shadow is ROM over the bottom of memory, and writes there go to the *)
(* RAM below it; the window shows a bank.                                  *)
Documented(l) ==
  CASE l = "low" /\ ShadowEnabled(latch) -> cells.map["mirror"]
    [] l = "window" /\ ExpandEnabled(latch) -> cells.bank[DocumentedBank]
    [] OTHER -> cells.map[l]

DocumentedWrite(l) ==
  IF l = "window" /\ ExpandEnabled(latch)
    THEN [cells EXCEPT !.bank[DocumentedBank] = Written]
    ELSE [cells EXCEPT !.map[l] = Written]

ReadOnly == IF "low" \in board.rom THEN (board.rom \ {"low"}) \cup {"mirror"} ELSE board.rom

-----------------------------------------------------------------------------
MemoryInit(b) ==
  LET loaded == EnsureShadowRom(Image, b.rom)
      expansion == IF b.cartridge THEN Cartridge ELSE NoCartridge
  IN /\ board = [rom |-> b.rom, cartridge |-> b.cartridge, sysCtrl |-> b.sysCtrl,
                 shadowCopied |-> ShadowCopied(b.rom)]
     /\ base = loaded
     /\ banks = expansion
     /\ latch = b.sysCtrl
     /\ cells = [map |-> loaded, bank |-> expansion]

(* The program writes memory.                                              *)
MemWrite(l) ==
  /\ IF IsMemoryWritable(l) THEN WriteVisibleMemory(l) ELSE UNCHANGED <<base, banks>>
  /\ cells' = IF l \in ReadOnly \/ (l = "app" /\ ProtectEnabled(latch)) THEN cells
              ELSE DocumentedWrite(l)
  /\ UNCHANGED <<latch, board>>

(* The user edits memory in the debugger, read-only memory included.       *)
ForceMemWrite(l) ==
  /\ WriteVisibleMemory(l)
  /\ cells' = DocumentedWrite(l)
  /\ UNCHANGED <<latch, board>>

WriteSysCtrl(v) ==
  /\ latch' = v
  /\ UNCHANGED <<base, banks, board, cells>>

(* A reset loads the program again, keeps the monitor's RAM but for its    *)
(* presentation state, leaves the banks alone and sets the latch back.     *)
Reloaded ==
  [l \in Location |->
     CASE l = "monitor" -> base[l] [] l = "presentation" -> Presentation [] OTHER -> Image[l]]

ResetMemory ==
  /\ base' = Reloaded
  /\ latch' = board.sysCtrl
  /\ cells' = [cells EXCEPT !.map =
       [EnsureShadowRom(Image, board.rom) EXCEPT !["monitor"] = cells.map["monitor"],
                                                 !["presentation"] = Presentation]]
  /\ UNCHANGED <<banks, board>>

MemoryStep ==
  \/ \E l \in Location : MemWrite(l) \/ ForceMemWrite(l)
  \/ \E v \in SysCtrl : WriteSysCtrl(v)

-----------------------------------------------------------------------------
MemoryTypeOK ==
  /\ DOMAIN base = Location /\ DOMAIN banks = Bank
  /\ latch \in SysCtrl \cup {board.sysCtrl}

(* Whatever the latch held when a byte was written and holds now, every    *)
(* address reads the cell of the documented map, and a cell keeps its byte *)
(* while it is switched out, across resets where it should: no two         *)
(* settings of the latch reach a byte by mistake, ROM and the protected    *)
(* range keep theirs (tec1g-memory.ts:116-158, sysctrl.ts:51-69).          *)
MemoryIsMapped == \A l \in Location : MemRead(l) = Documented(l)

(* The shadow mirrors the monitor's ROM, wherever the program image has it *)
(* and whatever was reset since (platforms/tec1g/README.md:132, and the    *)
(* comment at tec1g-shadow.ts:25-31).                                      *)
RomShadowed == ShadowEnabled(latch) => MemRead("low") = cells.map["mirror"]
=============================================================================
