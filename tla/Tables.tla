------------------------------- MODULE Tables -------------------------------
(***************************************************************************)
(* The tables of slots the program keeps over a plain bitmap: the clients  *)
(* of server/src/common/clients.c, the broadcast of                        *)
(* server/src/linux/broadcast.c and the static monitors of                 *)
(* routines/src/linux/monitor.c.  All three scan for a free bit, write the *)
(* entry and enable the bit; they differ in how they guard against the     *)
(* bits beyond the last slot, which a bitmap of whole bytes has, and in    *)
(* how they free an entry.                                                 *)
(*                                                                         *)
(* The module drives the bitmap of Bitmap in one of four ways, chosen at   *)
(* first: as one of the tables, or through its functions directly.  An     *)
(* entry is known by what its creator has of it, the place in memory; an   *)
(* entry of clients.c is also known by its descriptor.  where and earlier  *)
(* are what callers were told and have not given back.                     *)
(***************************************************************************)
EXTENDS Bitmap

CONSTANTS
  Entries,     \* what is added: clients by their descriptors, addresses, monitors
  Capacities,  \* sizes of a table
  Earlier      \* how many slots were taken before

\* Lengths are rounded up to whole bytes; clients.c is only used with 16 slots
\* (cli/src/linux/main.c line 75), a multiple of 8.
ASSUME CapacityAssumption ==
  /\ BitCount \in Capacities
  /\ \A n \in Capacities : n \in Nat /\ n <= BitCount /\ n > BitCount - WordBits
ASSUME EarlierAssumption == Earlier \subseteq Nat

Other == "other"  \* an entry that was in the table before

\* No entry that is added passes for an earlier one.
ASSUME EntriesAssumption == Other \notin Entries

VARIABLES
  usage,     \* "direct", "clients", "broadcast" or "monitor"
  capacity,  \* slots of the table
  table,     \* the entry each slot holds; it stays when the slot is freed
  where,     \* the slot an entry was given, -1 when it has none
  earlier,   \* the slots of the entries that were there before
  status     \* of the last call

tableVars == <<table, where, earlier, status>>
allVars   == <<vars, usage, capacity, tableVars>>

\* The length of a table when it is created; its bitmap is clear then.
BroadcastCreate == usage = "broadcast" /\ capacity \in Capacities
ClientsCreate   == usage = "clients" /\ capacity = BitCount
StaticMonitors  == usage = "monitor" /\ capacity \in Capacities

TablesInit ==
  /\ Init
  /\ \/ BroadcastCreate \/ ClientsCreate \/ StaticMonitors
     \/ usage = "direct" /\ capacity = BitCount
  /\ \E n \in Earlier :
       n <= capacity /\ earlier = IF usage = "direct" THEN {} ELSE 0 .. n - 1
  /\ usage # "direct" => bits = earlier
  /\ table = [s \in 0 .. capacity - 1 |-> IF s \in earlier THEN Other ELSE "nobody"]
  /\ where = [x \in Entries |-> -1]
  /\ status = "none"

-----------------------------------------------------------------------------
FreeSlot == NextAvaibleBit(bits, 0)

\* Write the entry into the free slot and enable its bit.
Enter(x) ==
  /\ EnableBit(FreeSlot)
  /\ table' = [table EXCEPT ![FreeSlot] = x]
  /\ where' = [where EXCEPT ![x] = FreeSlot]
  /\ status' = "SUCCESS"
  /\ UNCHANGED earlier

Refuse == status' = "OVERFLOW" /\ UNCHANGED <<vars, table, where, earlier>>

\* Mutant: the bits beyond the last slot are not refused.
BadBroadcastAdd(x) ==
  /\ usage = "broadcast" /\ where[x] = -1
  /\ IF FreeSlot = -1 THEN Refuse ELSE Enter(x)

\* Mutant: the last slot is refused too.
EarlyBroadcastAdd(x) ==
  /\ usage = "broadcast" /\ where[x] = -1
  /\ IF FreeSlot = -1 \/ FreeSlot >= capacity - 1 THEN Refuse ELSE Enter(x)

BroadcastAdd(x) ==
  /\ usage = "broadcast" /\ where[x] = -1
  /\ IF FreeSlot = -1 \/ FreeSlot >= capacity THEN Refuse ELSE Enter(x)

\* mcmchClientBroadcastAdd refuses -1 only.
ClientsAdd(x) ==
  /\ usage = "clients" /\ cursor = -1 /\ where[x] = -1
  /\ IF FreeSlot = -1 THEN Refuse ELSE Enter(x)

MonitorCreate(x) ==
  /\ usage = "monitor" /\ where[x] = -1
  /\ IF FreeSlot >= capacity \/ FreeSlot = -1 THEN Refuse ELSE Enter(x)

\* The slot is found from the place of the entry.
Free(x) ==
  /\ where[x] # -1
  /\ DisableBit(where[x])
  /\ where' = [where EXCEPT ![x] = -1]
  /\ status' = "SUCCESS"
  /\ UNCHANGED <<table, earlier>>

ClientsDel(x) == usage = "clients" /\ Free(x)

\* A client that is not at the place of a slot is refused, lines 47-48.
ClientsDelMisaligned ==
  /\ usage = "clients" /\ cursor = -1
  /\ status' = "INVALIGN"
  /\ UNCHANGED <<vars, table, where, earlier>>

\* The bit is cleared after the join: the slot is not reused under the thread.
MonitorDestroy(x) == usage = "monitor" /\ Free(x)

\* mcmchBroadcastDelClient computes the slot from the client taken for the
\* broadcast, which gives -1 for the addresses in use: the client stays.
BroadcastDel(x) ==
  /\ usage = "broadcast" /\ where[x] # -1
  /\ status' = "OVERFLOW"
  /\ UNCHANGED <<vars, table, where, earlier>>

\* mcmchClientBroadcastFlush, before main frees the table.
ClientsFlushBegin ==
  /\ usage = "clients"
  /\ FlushBegin
  /\ UNCHANGED tableVars

ClientsFlushStep ==
  /\ usage = "clients"
  /\ FlushStep
  /\ where' = [x \in Entries |-> IF where[x] = cursor THEN -1 ELSE where[x]]
  /\ earlier' = earlier \ {cursor}
  /\ status' = "SUCCESS"
  /\ UNCHANGED table

\* Mutant: the walk does not leave out the slots that are free.
BadGetBitIndex(x) ==
  LET walk[s \in -1 .. BitCount - 1] ==
        CASE s = -1 -> -1
          [] s # -1 /\ table[s] = x -> s
          [] OTHER -> walk[IF s + 1 = BitCount THEN -1 ELSE s + 1]
  IN  walk[0]

\* mcmchClientGetBitIndex: walk over the taken slots to the descriptor.
GetBitIndex(x) ==
  LET walk[s \in -1 .. BitCount - 1] ==
        CASE s = -1 -> -1
          [] s # -1 /\ table[s] = x -> s
          [] OTHER -> walk[NextOccupiedBit(bits, s + 1)]
  IN  walk[NextOccupiedBit(bits, 0)]

TablesNext ==
  /\ UNCHANGED <<usage, capacity>>
  /\ \/ usage = "direct" /\ Next /\ UNCHANGED tableVars
     \/ ClientsFlushBegin \/ ClientsFlushStep \/ ClientsDelMisaligned
     \/ \E x \in Entries :
          \/ BroadcastAdd(x) \/ BroadcastDel(x) \/ ClientsAdd(x) \/ ClientsDel(x)
          \/ MonitorCreate(x) \/ MonitorDestroy(x)

TablesSpec == TablesInit /\ [][TablesNext]_allVars

-----------------------------------------------------------------------------
(* Properties *)

\* Whatever was added, freed and added again, an entry that a caller holds is in
\* a slot of the table, alone, with its bit set and its own contents, and no bit
\* is set for nobody: in particular the bits by which the bitmap is longer than
\* the table are never given out (broadcast.c line 54, monitor.c line 75).
PlacesApart ==
  usage # "direct" =>
    LET held == {x \in Entries : where[x] # -1}
    IN  /\ \A x \in held : where[x] \in (0 .. capacity - 1) \ earlier /\ table[where[x]] = x
        /\ \A x, y \in held : where[x] = where[y] => x = y
        /\ bits = earlier \union {where[x] : x \in held}

\* An entry is refused only when every slot of the table is held: the rounding up
\* of the bitmap cuts no slot off (broadcast.c line 54, monitor.c line 75), and for
\* clients and monitors, whose slots are freed, none is lost by a round of adding
\* and freeing.  A client of the broadcast stays in its slot (DelClientRemoves).
RefusedWhenFull ==
  [][\A x \in Entries :
       BroadcastAdd(x) \/ ClientsAdd(x) \/ MonitorCreate(x) =>
         status' = "SUCCESS" \/
         Cardinality(earlier \union ({where[y] : y \in Entries} \ {-1})) = capacity]_allVars

\* A client of the broadcast that is deleted is removed from it, and the call
\* succeeds, as broadcast.h lines 23-26 say of mcmchBroadcastDelClient.
DelClientRemoves ==
  [][\A x \in Entries :
       BroadcastDel(x) => status' = "SUCCESS" /\ where'[x] = -1]_allVars

\* A client is found by its descriptor exactly while it is in the table, although
\* a freed slot keeps its old contents and the descriptor may be in another slot
\* by now (linux/clients.c lines 14-21).
LookupExact == usage = "clients" => \A x \in Entries : GetBitIndex(x) = where[x]
=============================================================================
