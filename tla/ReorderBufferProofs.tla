------------------------ MODULE ReorderBufferProofs ------------------------
(***************************************************************************)
(* KanagawaReorderBuffer hands threads on in order for every depth, write  *)
(* delay and number of threads.  The argument has three layers: the RAM    *)
(* with its bypass shows current data (RamStep); the flag memory built on  *)
(* it shows the flag at its read position without delay (MemoryStep); and  *)
(* the flags and data of the next DEPTH slot ids, counted from the next    *)
(* thread to leave, are those of their own threads (CycleIInv).  The first *)
(* layer is also what KanagawaMemoryBypass promises by itself.             *)
(*                                                                         *)
(* The other way to keep a loop in order, finished threads that circulate  *)
(* until it is their turn, works for every number of slots and threads:    *)
(* those inside have consecutive slots, beginning with the exit slot.      *)
(***************************************************************************)
EXTENDS MCRuntimeUnits, RuntimeLemmas, Sequences

(* The sizes are numbers, and the occupancy register counts beyond DEPTH. *)
LEMMA Sizes ==
    /\ DEPTH \in Nat /\ DEPTH > 1
    /\ MaxThreads \in Nat /\ MaxThreads <= DEPTH
    /\ WRITE_DELAY \in Nat
    /\ USEDW_MODULUS = 2 * DEPTH
  BY ReorderBufferAssumption DEF USEDW_MODULUS

(* A slot holds a write to an address. *)
Hits(slot, addr) == slot.valid /\ slot.addr = addr

(* The loop over the two bypass slots: the younger write wins. *)
LEMMA DataOut ==
    ASSUME NEW r
    PROVE  data_out(r) =
             IF Hits(r.slots[1], r.addr[2]) THEN r.slots[1].data
             ELSE IF Hits(r.slots[0], r.addr[2]) THEN r.slots[0].data
             ELSE r.output[2]
  <1> DEFINE S == Matching(r)
  <1>1. S \subseteq {0, 1} /\ (1 \in S <=> Hits(r.slots[1], r.addr[2]))
                          /\ (0 \in S <=> Hits(r.slots[0], r.addr[2]))
    BY DEF Matching, Hits, NUM_BYPASS_SLOTS, READ_LATENCY
  <1> HIDE DEF S
  <1>2. CASE 1 \in S
    <2>1. \E i \in S : \A j \in S : i >= j
      BY <1>1, <1>2
    <2>2. Youngest(S) \in S /\ \A j \in S : Youngest(S) >= j
      BY <2>1 DEF Youngest
    <2> DEFINE y == Youngest(S)
    <2>3. y \in S /\ y >= 1
      BY <1>2, <2>2
    <2> HIDE DEF y
    <2>4. y = 1
      BY <1>1, <2>3
    <2> QED BY <1>1, <1>2, <2>4 DEF data_out, S, y
  <1>3. CASE 1 \notin S /\ 0 \in S
    <2>1. S = {0}
      BY <1>1, <1>3
    <2>2. \E i \in S : \A j \in S : i >= j
      BY <2>1
    <2>3. Youngest(S) \in S
      BY <2>2 DEF Youngest
    <2> QED BY <1>1, <1>3, <2>1, <2>3 DEF data_out, S
  <1>4. CASE 1 \notin S /\ 0 \notin S
    <2>1. S = {}
      BY <1>1, <1>4
    <2> QED BY <1>1, <1>4, <2>1 DEF data_out, S, READ_LATENCY
  <1> QED BY <1>2, <1>3, <1>4

(* One clock edge of the RAM: what was just loaded is current but for the  *)
(* write of the same cycle, and what was loaded one cycle earlier reaches  *)
(* the output together with the writes it has missed.                      *)
LEMMA RamStep ==
    ASSUME NEW A, NEW D, NEW r \in Rams(A, D), NEW readaddr \in A,
           NEW write \in Writes(A, D),
           NEW e, e = RamEdge(r, readaddr, write)
    PROVE  /\ e \in Rams(A, D)
           /\ e.mem = IF write.valid THEN [r.mem EXCEPT ![write.addr] = write.data]
                      ELSE r.mem
           /\ e.addr[1] = readaddr /\ e.addr[2] = r.addr[1]
           /\ LoadedCurrent(e)
           /\ LoadedCurrent(r) => ShowsCurrent(e)
  <1>1. /\ e.mem = IF write.valid THEN [r.mem EXCEPT ![write.addr] = write.data]
                   ELSE r.mem
        /\ e.output = [i \in 1..2 |-> IF i = 1 THEN r.mem[readaddr] ELSE r.output[i - 1]]
        /\ e.addr = [i \in 1..2 |-> IF i = 1 THEN readaddr ELSE r.addr[i - 1]]
        /\ e.slots = [i \in 0..1 |-> IF i = 1 THEN write ELSE r.slots[i + 1]]
        /\ e = [mem |-> e.mem, output |-> e.output, addr |-> e.addr, slots |-> e.slots]
    BY DEF RamEdge, READ_LATENCY, NUM_BYPASS_SLOTS
  <1>2. /\ r.mem \in [A -> D] /\ r.output \in [1..2 -> D] /\ r.addr \in [1..2 -> A]
        /\ r.slots \in [0..1 -> Writes(A, D)]
    BY DEF Rams, READ_LATENCY, NUM_BYPASS_SLOTS
  <1>3. /\ write.valid \in BOOLEAN /\ write.addr \in A /\ write.data \in D
    BY DEF Writes
  <1>4. /\ e.mem \in [A -> D]
        /\ e.output \in [1..2 -> D]
        /\ e.addr \in [1..2 -> A]
        /\ e.slots \in [0..1 -> Writes(A, D)]
    <2>1. e.mem \in [A -> D]
      BY <1>1, <1>2, <1>3
    <2>2. e.output \in [1..2 -> D] /\ e.addr \in [1..2 -> A]
      BY <1>1, <1>2
    <2>3. e.slots \in [0..1 -> Writes(A, D)]
      BY <1>1, <1>2
    <2> QED BY <2>1, <2>2, <2>3
  <1>5. e \in Rams(A, D)
    BY <1>1, <1>4 DEF Rams, READ_LATENCY, NUM_BYPASS_SLOTS
  <1>6. /\ e.output[1] = r.mem[readaddr] /\ e.output[2] = r.output[1]
        /\ e.addr[1] = readaddr /\ e.addr[2] = r.addr[1]
        /\ e.slots[1] = write /\ e.slots[0] = r.slots[1]
    BY <1>1
  <1>7. \A a \in A : e.mem[a] = IF Hits(write, a) THEN write.data ELSE r.mem[a]
    BY <1>1, <1>2, <1>3 DEF Hits
  <1>8. LoadedCurrent(e)
    BY <1>6, <1>7 DEF LoadedCurrent, Hits, NUM_BYPASS_SLOTS
  <1>9. ASSUME LoadedCurrent(r) PROVE ShowsCurrent(e)
    <2>1. r.addr[1] \in A
      BY <1>2
    <2>2. r.mem[r.addr[1]] = IF Hits(r.slots[1], r.addr[1]) THEN r.slots[1].data ELSE r.output[1]
      BY <1>9 DEF LoadedCurrent, Hits, NUM_BYPASS_SLOTS
    <2>3. data_out(e) = IF Hits(write, r.addr[1]) THEN write.data
                        ELSE IF Hits(r.slots[1], r.addr[1]) THEN r.slots[1].data
                        ELSE r.output[1]
      BY <1>6, DataOut
    <2> QED BY <1>6, <1>7, <2>1, <2>2, <2>3 DEF ShowsCurrent, READ_LATENCY
  <1> QED BY <1>1, <1>5, <1>6, <1>8, <1>9
-----------------------------------------------------------------------------
(* The RAM on its own, with any addresses and any data. *)
(* For all addresses and data, the RAM shows in every cycle what was       *)
(* written last to the address it was asked for two cycles ago, the writes *)
(* of the last two cycles included (memory_bypass.sv).                     *)
THEOREM ShowsYoungestWriteHolds == Ram!Spec => []ShowsYoungestWrite
  <1>0. \A r, a, w : /\ Ram!RamEdge(r, a, w) = RamEdge(r, a, w)
                     /\ Ram!RamAfterReset(r, a, w) = RamAfterReset(r, a, w)
                     /\ Ram!LoadedCurrent(r) = LoadedCurrent(r)
                     /\ Ram!ShowsCurrent(r) = ShowsCurrent(r)
                     /\ Ram!Rams(r, a) = Rams(r, a)
    BY DEF Ram!RamEdge, RamEdge, Ram!RamAfterReset, RamAfterReset,
           Ram!LoadedCurrent, LoadedCurrent, Ram!ShowsCurrent, ShowsCurrent,
           Ram!data_out, data_out, Ram!Matching, Matching, Ram!Youngest, Youngest,
           Ram!Rams, Rams, Ram!Writes, Writes,
           Ram!READ_LATENCY, READ_LATENCY, Ram!NUM_BYPASS_SLOTS, NUM_BYPASS_SLOTS
  <1>1. Ram!Init => Ram!IInv
    <2> SUFFICES ASSUME NEW mem \in [RamAddress -> RamDatum], NEW a \in RamAddress,
                        ram = RamAfterReset(mem, a, mem[a])
                 PROVE  ram \in Rams(RamAddress, RamDatum) /\ LoadedCurrent(ram) /\ ShowsCurrent(ram)
      BY <1>0 DEF Ram!Init, Ram!IInv
    <2>1. /\ ram = [mem |-> mem, output |-> ram.output, addr |-> ram.addr, slots |-> ram.slots]
          /\ ram.mem = mem
          /\ ram.output = [i \in 1..2 |-> mem[a]] /\ ram.addr = [i \in 1..2 |-> a]
          /\ ram.slots = [i \in 0..1 |-> [valid |-> FALSE, addr |-> a, data |-> mem[a]]]
      BY DEF RamAfterReset, READ_LATENCY, NUM_BYPASS_SLOTS
    <2>2. mem[a] \in RamDatum
      OBVIOUS
    <2>3. /\ ram.output \in [1..2 -> RamDatum] /\ ram.addr \in [1..2 -> RamAddress]
          /\ ram.slots \in [0..1 -> Writes(RamAddress, RamDatum)]
      BY <2>1, <2>2 DEF Writes
    <2>4. ram \in Rams(RamAddress, RamDatum)
      <3>1. ram = [mem |-> ram.mem, output |-> ram.output, addr |-> ram.addr,
                   slots |-> ram.slots]
            /\ ram.mem \in [RamAddress -> RamDatum]
        BY <2>1
      <3> QED BY ONLY <2>3, <3>1 DEF Rams, READ_LATENCY, NUM_BYPASS_SLOTS
    <2>5. ~ram.slots[0].valid /\ ~ram.slots[1].valid /\ ram.output[1] = mem[a]
          /\ ram.output[2] = mem[a] /\ ram.addr[1] = a /\ ram.addr[2] = a
      BY <2>1
    <2>6. LoadedCurrent(ram)
      BY <2>1, <2>5 DEF LoadedCurrent, NUM_BYPASS_SLOTS
    <2>7. data_out(ram) = mem[a]
      BY <2>5, DataOut DEF Hits
    <2> QED BY <2>1, <2>4, <2>5, <2>6, <2>7 DEF ShowsCurrent, READ_LATENCY
  <1>2. Ram!IInv /\ [Ram!Next]_ram => Ram!IInv'
    <2> SUFFICES ASSUME Ram!IInv, [Ram!Next]_ram PROVE Ram!IInv'
      OBVIOUS
    <2>1. CASE Ram!Next
      <3>1. PICK a \in RamAddress, w \in Writes(RamAddress, RamDatum) :
                ram' = RamEdge(ram, a, w)
        BY <1>0, <2>1 DEF Ram!Next, Ram!Cycle, Writes
      <3>2. ram \in Rams(RamAddress, RamDatum) /\ LoadedCurrent(ram)
        BY <1>0 DEF Ram!IInv
      <3>3. ram' \in Rams(RamAddress, RamDatum) /\ LoadedCurrent(ram') /\ ShowsCurrent(ram')
        BY <3>1, <3>2, RamStep
      <3> QED BY <1>0, <3>3 DEF Ram!IInv
    <2>2. CASE ram' = ram
      BY <2>2 DEF Ram!IInv
    <2> QED BY <2>1, <2>2
  <1>3. Ram!IInv => ShowsYoungestWrite
    BY DEF Ram!IInv, ShowsYoungestWrite, Ram!ShowsYoungestWrite
  <1> QED BY <1>1, <1>2, <1>3, PTL DEF Ram!Spec
-----------------------------------------------------------------------------
(* The arithmetic of slot ids: two rounds of DEPTH ids, which differ in    *)
(* their flag and share their slots.                                       *)
LEMMA Ids ==
    ASSUME NEW a \in SlotId
    PROVE  /\ Slot(a) = IF a < DEPTH THEN a ELSE a - DEPTH
           /\ Flag(a) = IF a < DEPTH THEN 0 ELSE 1
           /\ NextId(a) = IF a = 2 * DEPTH - 1 THEN 0 ELSE a + 1
           /\ \A b \in SlotId : Later(a, b) = IF a <= b THEN b - a ELSE b - a + 2 * DEPTH
  <1> USE Sizes
  <1>1. /\ Slot(a) = IF a < DEPTH THEN a ELSE a - DEPTH
        /\ Flag(a) = IF a < DEPTH THEN 0 ELSE 1
    <2>1. DEPTH \in Nat /\ DEPTH > 0 /\ a \in 0..(2 * DEPTH - 1)
      BY DEF SlotId
    <2> QED BY <2>1, Remainder DEF Slot, Flag
  <1>2. NextId(a) = IF a = 2 * DEPTH - 1 THEN 0 ELSE a + 1
    <2> DEFINE d == 2 * DEPTH
    <2>1. d \in Nat /\ d > 0 /\ a + 1 \in 0..(2 * d - 1) /\ a \in 0..(d - 1)
      BY DEF SlotId
    <2>2. (a + 1) % d = IF a + 1 < d THEN a + 1 ELSE a + 1 - d
      <3> HIDE DEF d
      <3> QED BY <2>1, Remainder
    <2> QED BY <2>1, <2>2 DEF NextId
  <1>3. ASSUME NEW b \in SlotId
        PROVE  Later(a, b) = IF a <= b THEN b - a ELSE b - a + 2 * DEPTH
    <2> DEFINE d == 2 * DEPTH
    <2>1. d \in Nat /\ d > 0 /\ a \in 0..(d - 1) /\ b \in 0..(d - 1)
      BY DEF SlotId
    <2>2. CASE a <= b
      <3>1. (b - a) % d = b - a
        <4> HIDE DEF d
        <4>1. b - a \in 0..(2 * d - 1) /\ b - a < d
          BY <2>1, <2>2
        <4> QED BY <2>1, <4>1, Remainder
      <3> QED BY <2>2, <3>1 DEF Later
    <2>3. CASE b < a
      <3>1. (b - a) % d = b - a + d
        <4> HIDE DEF d
        <4>1. b - a \in (-d)..(-1)
          BY <2>1, <2>3
        <4> QED BY <2>1, <4>1, NegRemainder
      <3>2. ~(a <= b)
        BY <2>1, <2>3
      <3> QED BY <3>1, <3>2 DEF Later
    <2> QED BY <2>1, <2>2, <2>3
  <1> QED BY <1>1, <1>2, <1>3

(* The pointers of the flag memory run through the addresses in a circle.  *)
LEMMA Circle ==
    ASSUME NEW p \in Address
    PROVE  /\ NextPtr(p) \in Address
           /\ NextPtr(p) # p
           /\ (p + 1) % DEPTH = NextPtr(p)
           /\ (NextPtr(p) - 1) % DEPTH = p
  <1> USE Sizes
  <1>1. NextPtr(p) \in Address /\ NextPtr(p) # p
    BY DEF Address, NextPtr
  <1>2. (p + 1) % DEPTH = NextPtr(p)
    <2> DEFINE n == p + 1
    <2>1. DEPTH > 0 /\ n \in 0..(2 * DEPTH - 1) /\ (n < DEPTH <=> p # DEPTH - 1)
          /\ (p = DEPTH - 1 => n - DEPTH = 0)
      BY DEF Address
    <2> HIDE DEF n
    <2>2. n % DEPTH = IF n < DEPTH THEN n ELSE n - DEPTH
      BY <2>1, Remainder
    <2>3. n % DEPTH = IF p = DEPTH - 1 THEN 0 ELSE n
      BY <2>1, <2>2
    <2> QED BY <2>3, Zenon DEF NextPtr, n
  <1>3. (NextPtr(p) - 1) % DEPTH = p
    <2>1. CASE p = DEPTH - 1
      <3>1. NextPtr(p) - 1 = -1 /\ -1 \in (-DEPTH)..(-1) /\ DEPTH > 0
        BY <2>1 DEF NextPtr
      <3>2. (-1) % DEPTH = -1 + DEPTH
        BY <3>1, NegRemainder
      <3> QED BY <2>1, <3>1, <3>2
    <2>2. CASE p # DEPTH - 1
      <3>1. NextPtr(p) - 1 = p /\ p \in 0..(2 * DEPTH - 1) /\ p < DEPTH /\ DEPTH > 0
        BY <2>2 DEF NextPtr, Address
      <3>2. p % DEPTH = p
        BY <3>1, Remainder
      <3> QED BY <3>1, <3>2
    <2> QED BY <2>1, <2>2
  <1> QED BY <1>1, <1>2, <1>3

(* The slot of the next id is the next slot. *)
LEMMA NextSlot ==
    ASSUME NEW a \in SlotId
    PROVE  Slot(a) \in Address /\ Flag(a) \in 0..1 /\ NextId(a) \in SlotId
           /\ Slot(NextId(a)) = NextPtr(Slot(a))
  <1> USE Sizes
  <1>1. NextId(a) \in SlotId
    BY Ids, SMTT(30) DEF SlotId
  <1>2. Slot(NextId(a)) = IF NextId(a) < DEPTH THEN NextId(a) ELSE NextId(a) - DEPTH
    BY <1>1, Ids
  <1>3. Slot(a) \in Address /\ Flag(a) \in 0..1
    BY Ids DEF SlotId, Address
  <1>4. Slot(NextId(a)) = NextPtr(Slot(a))
    <2> DEFINE n == NextId(a)
               b == Slot(a)
               c == Slot(n)
    <2>1. /\ n = IF a = 2 * DEPTH - 1 THEN 0 ELSE a + 1
          /\ b = IF a < DEPTH THEN a ELSE a - DEPTH
          /\ c = IF n < DEPTH THEN n ELSE n - DEPTH
          /\ a \in 0..(2 * DEPTH - 1)
      BY <1>2, Ids DEF SlotId
    <2> HIDE DEF n, b, c
    <2>2. c = IF b = DEPTH - 1 THEN 0 ELSE b + 1
      BY <2>1
    <2> QED BY <2>2 DEF NextPtr, n, b, c
  <1> QED BY <1>1, <1>3, <1>4
-----------------------------------------------------------------------------
(* One clock edge of KanagawaReorderMemory: the read position moves when   *)
(* the entry shown is taken, and the memory keeps showing the entry at its *)
(* position, whatever is written.                                          *)
LEMMA MemoryStep ==
    ASSUME NEW m \in ReorderMemories, NEW position \in Address,
           ReadsAhead(m, position),
           NEW rden \in BOOLEAN, rden => valid_out(m),
           NEW write \in Writes(Address, 0..1), NEW x \in 0..1,
           NEW e, e = MemoryEdge(m, rden, write, x)
    PROVE  /\ e \in ReorderMemories
           /\ ReadsAhead(e, IF rden THEN NextPtr(position) ELSE position)
           /\ e.ram.mem = IF write.valid THEN [m.ram.mem EXCEPT ![write.addr] = write.data]
                          ELSE m.ram.mem
  <1> DEFINE next == NextPtr(position)
             state == state_next(m, rden)
             addr == IF state = "full" THEN m.read_addr ELSE (m.read_addr + 1) % DEPTH
             new == IF rden THEN next ELSE position
  <1>1. /\ m.state \in {"idle", "initial_load", "full", "memory_reg_valid", "data_reg_valid"}
        /\ m.read_addr \in Address /\ m.data_reg \in 0..1 /\ m.ram \in Rams(Address, 0..1)
    BY DEF ReorderMemories
  <1>2. /\ next \in Address /\ next # position
        /\ (m.read_addr + 1) % DEPTH = NextPtr(m.read_addr)
        /\ NextPtr(m.read_addr) \in Address
        /\ (next - 1) % DEPTH = position
    BY <1>1, Circle
  <1>3. /\ e.state = state /\ e.read_addr = addr /\ e.ram = RamEdge(m.ram, addr, write)
        /\ e = [state |-> e.state, read_addr |-> e.read_addr, data_reg |-> e.data_reg,
                ram |-> e.ram]
        /\ e.data_reg = IF m.state \in {"idle", "initial_load"} THEN x
                        ELSE IF write.valid /\ write.addr = data_reg_addr_next(m, rden)
                          THEN write.data
                        ELSE IF (m.state = "full") = rden /\ m.state # "data_reg_valid"
                          THEN data_out(m.ram)
                        ELSE m.data_reg
    BY DEF MemoryEdge
  <1>4. addr \in Address
    BY <1>1, <1>2
  <1>5. /\ e.ram \in Rams(Address, 0..1)
        /\ e.ram.mem = IF write.valid THEN [m.ram.mem EXCEPT ![write.addr] = write.data]
                       ELSE m.ram.mem
        /\ e.ram.addr[1] = addr /\ e.ram.addr[2] = m.ram.addr[1]
        /\ LoadedCurrent(e.ram)
        /\ LoadedCurrent(m.ram) => ShowsCurrent(e.ram)
    <2> DEFINE s == e.ram
               r == m.ram
               A == Address
               D == 0..1
    <2>1. s = RamEdge(r, addr, write) /\ r \in Rams(A, D) /\ addr \in A
          /\ write \in Writes(A, D)
      BY <1>1, <1>3, <1>4
    <2> HIDE DEF s, r, addr, state, A, D
    <2>2. /\ s \in Rams(A, D)
          /\ s.mem = IF write.valid THEN [r.mem EXCEPT ![write.addr] = write.data]
                     ELSE r.mem
          /\ s.addr[1] = addr /\ s.addr[2] = r.addr[1]
          /\ LoadedCurrent(s)
          /\ LoadedCurrent(r) => ShowsCurrent(s)
      BY ONLY <2>1, RamStep
    <2> QED BY <2>2 DEF s, r, A, D
  <1>6. /\ m.ram.mem \in [Address -> 0..1] /\ write.valid \in BOOLEAN
        /\ write.addr \in Address /\ write.data \in 0..1
    BY <1>1 DEF Rams, Writes
  <1>7. \A a \in Address : e.ram.mem[a] =
            IF write.valid /\ write.addr = a THEN write.data ELSE m.ram.mem[a]
    <2> DEFINE f == e.ram.mem
               g == m.ram.mem
    <2>1. f = IF write.valid THEN [g EXCEPT ![write.addr] = write.data] ELSE g
      BY <1>5
    <2> HIDE DEF f, g
    <2>2. g \in [Address -> 0..1]
      BY <1>6 DEF g
    <2>3. \A a \in Address : f[a] =
              IF write.valid /\ write.addr = a THEN write.data ELSE g[a]
      BY <1>6, <2>1, <2>2
    <2> QED BY <2>3 DEF f, g
  <1>8. data_out(m.ram) \in 0..1
    <2>1. m.ram.output[2] \in 0..1 /\ m.ram.slots[0].data \in 0..1 /\ m.ram.slots[1].data \in 0..1
      BY <1>1 DEF Rams, Writes, READ_LATENCY, NUM_BYPASS_SLOTS
    <2> QED BY <2>1, DataOut
  <1>9. /\ m.state = "idle" => state = "initial_load"
        /\ m.state = "initial_load" => state = "memory_reg_valid"
        /\ m.state = "full" /\ rden => state = "data_reg_valid"
        /\ m.state = "full" /\ ~rden => state = "full"
        /\ m.state \in {"memory_reg_valid", "data_reg_valid"} /\ rden => state = "memory_reg_valid"
        /\ m.state \in {"memory_reg_valid", "data_reg_valid"} /\ ~rden => state = "full"
    BY DEF state_next
  <1>10. e \in ReorderMemories
    <2>1. state \in {"idle", "initial_load", "full", "memory_reg_valid", "data_reg_valid"}
      BY <1>1, <1>9
    <2>2. e.data_reg \in 0..1
      BY <1>1, <1>3, <1>6, <1>8
    <2>3. e.state \in {"idle", "initial_load", "full", "memory_reg_valid", "data_reg_valid"}
          /\ e.read_addr \in Address
      BY <1>3, <1>4, <2>1
    <2>4. e = [state |-> e.state, read_addr |-> e.read_addr, data_reg |-> e.data_reg,
               ram |-> e.ram]
      BY <1>3
    <2> QED BY ONLY <1>5, <2>2, <2>3, <2>4 DEF ReorderMemories
  <1> HIDE DEF state, addr, next
  <1>11. CASE m.state = "idle"
    <2>1. /\ ~rden /\ state = "initial_load" /\ addr = 0 /\ position = 0
      <3>1. ~rden
        BY <1>11 DEF valid_out
      <3>2. position = 0 /\ m.read_addr = DEPTH - 1 /\ state = "initial_load"
        BY <1>9, <1>11 DEF ReadsAhead
      <3>3. NextPtr(m.read_addr) = 0
        BY <3>2 DEF NextPtr
      <3> QED BY <1>2, <3>1, <3>2, <3>3 DEF addr
    <2> QED BY <1>3, <1>5, <1>10, <2>1 DEF ReadsAhead, valid_out
  <1>12. CASE m.state = "initial_load"
    <2>1. /\ ~rden /\ state = "memory_reg_valid" /\ addr = next /\ position = 0
          /\ m.ram.addr[1] = 0 /\ LoadedCurrent(m.ram)
      <3>1. ~rden
        BY <1>12 DEF valid_out
      <3>2. position = 0 /\ m.read_addr = 0 /\ state = "memory_reg_valid"
            /\ m.ram.addr[1] = 0 /\ LoadedCurrent(m.ram)
        BY <1>9, <1>12 DEF ReadsAhead
      <3> QED BY <1>2, <3>1, <3>2 DEF addr, next
    <2> QED BY <1>3, <1>5, <1>10, <2>1 DEF ReadsAhead, valid_out, READ_LATENCY, next
  <1>13. CASE valid_out(m)
    <2>1. /\ m.read_addr = next /\ m.ram.addr[1] = next /\ LoadedCurrent(m.ram)
          /\ m.ram.addr[2] = IF m.state = "full" THEN next ELSE position
          /\ ShowsCurrent(m.ram)
          /\ m.state \in {"full", "data_reg_valid"} => m.data_reg = m.ram.mem[position]
          /\ m.state \in {"full", "memory_reg_valid", "data_reg_valid"}
      BY <1>13 DEF ReadsAhead, valid_out, READ_LATENCY, next
    <2>2. data_out(m.ram) = m.ram.mem[IF m.state = "full" THEN next ELSE position]
      BY <2>1 DEF ShowsCurrent, READ_LATENCY
    <2>3. ShowsCurrent(e.ram) /\ LoadedCurrent(e.ram)
      BY <1>5, <2>1
    <2>4. data_reg_addr_next(m, rden) = IF m.state = "full" /\ rden THEN next ELSE position
      BY <1>2, <2>1 DEF data_reg_addr_next
    <2>5. NextPtr(new) \in Address
      BY <1>2, Circle
    <2>6. CASE rden
      <3>1. /\ e.state = IF m.state = "full" THEN "data_reg_valid" ELSE "memory_reg_valid"
            /\ new = next
        BY <1>3, <1>9, <2>1, <2>6
      <3>2. /\ e.read_addr = NextPtr(next) /\ e.ram.addr[1] = NextPtr(next)
            /\ e.ram.addr[2] = next
        <4>1. addr = NextPtr(next)
          BY <1>2, <1>3, <2>1, <3>1 DEF addr
        <4> QED BY <1>3, <1>5, <2>1, <4>1
      <3>3. e.state = "data_reg_valid" => e.data_reg = e.ram.mem[next]
        <4> SUFFICES ASSUME m.state = "full" PROVE e.data_reg = e.ram.mem[next]
          BY <3>1
        <4>1. data_out(m.ram) = m.ram.mem[next] /\ data_reg_addr_next(m, rden) = next
          BY <2>2, <2>4, <2>6
        <4>2. e.data_reg = IF write.valid /\ write.addr = next THEN write.data ELSE m.ram.mem[next]
          BY <1>3, <2>6, <4>1
        <4> QED BY <1>2, <1>7, <4>2
      <3> QED BY <1>5, <1>10, <2>3, <2>6, <3>1, <3>2, <3>3
              DEF ReadsAhead, valid_out, READ_LATENCY, next
    <2>7. CASE ~rden
      <3>1. e.state = "full" /\ new = position
        BY <1>3, <1>9, <2>1, <2>7
      <3>2. e.read_addr = next /\ e.ram.addr[1] = next /\ e.ram.addr[2] = next
        <4>1. addr = next
          BY <1>3, <2>1, <3>1 DEF addr
        <4> QED BY <1>3, <1>5, <2>1, <4>1
      <3>3. e.data_reg = e.ram.mem[position]
        <4>1. data_reg_addr_next(m, rden) = position
          BY <2>4, <2>7
        <4>2. e.data_reg = IF write.valid /\ write.addr = position THEN write.data
                           ELSE m.ram.mem[position]
          BY <1>3, <2>1, <2>2, <2>7, <4>1
        <4> QED BY <1>7, <4>2
      <3> QED BY <1>5, <1>10, <2>3, <2>7, <3>1, <3>2, <3>3
              DEF ReadsAhead, valid_out, READ_LATENCY, next
    <2> QED BY <2>6, <2>7
  <1> QED BY <1>1, <1>11, <1>12, <1>13 DEF valid_out
-----------------------------------------------------------------------------
(* Distances between ids, and what one more thread does to them. *)
LEMMA Distance ==
    ASSUME NEW a \in SlotId, NEW b \in SlotId
    PROVE  /\ Later(a, b) \in 0..(2 * DEPTH - 1)
           /\ Later(a, a) = 0
           /\ \A c \in SlotId : Later(a, b) = Later(a, c) => b = c
           /\ Later(a, NextId(b)) = IF Later(a, b) = 2 * DEPTH - 1 THEN 0 ELSE Later(a, b) + 1
           /\ Later(NextId(a), b) = IF a = b THEN 2 * DEPTH - 1 ELSE Later(a, b) - 1
  <1> USE Sizes
  <1>1. NextId(a) \in SlotId /\ NextId(b) \in SlotId
    BY NextSlot
  <1>2. /\ Later(a, b) = IF a <= b THEN b - a ELSE b - a + 2 * DEPTH
        /\ Later(a, a) = 0
        /\ Later(a, NextId(b)) = IF a <= NextId(b) THEN NextId(b) - a
                                 ELSE NextId(b) - a + 2 * DEPTH
        /\ Later(NextId(a), b) = IF NextId(a) <= b THEN b - NextId(a)
                                 ELSE b - NextId(a) + 2 * DEPTH
        /\ \A c \in SlotId : Later(a, c) = IF a <= c THEN c - a ELSE c - a + 2 * DEPTH
        /\ NextId(a) = IF a = 2 * DEPTH - 1 THEN 0 ELSE a + 1
        /\ NextId(b) = IF b = 2 * DEPTH - 1 THEN 0 ELSE b + 1
    <2>1. Later(a, a) = IF a <= a THEN a - a ELSE a - a + 2 * DEPTH
      BY Ids
    <2>2. a <= a /\ a - a = 0
      BY DEF SlotId
    <2> QED BY <1>1, <2>1, <2>2, Ids
  <1>3. a \in 0..(2 * DEPTH - 1) /\ b \in 0..(2 * DEPTH - 1)
    BY DEF SlotId
  <1>4. Later(a, b) \in 0..(2 * DEPTH - 1)
    BY <1>2, <1>3
  <1>5. ASSUME NEW c \in SlotId, Later(a, b) = Later(a, c) PROVE b = c
    <2>1. c \in 0..(2 * DEPTH - 1)
      BY DEF SlotId
    <2> QED BY <1>2, <1>3, <1>5, <2>1
  <1>6. Later(a, NextId(b)) = IF Later(a, b) = 2 * DEPTH - 1 THEN 0 ELSE Later(a, b) + 1
    BY <1>2, <1>3
  <1>7. Later(NextId(a), b) = IF a = b THEN 2 * DEPTH - 1 ELSE Later(a, b) - 1
    BY <1>2, <1>3
  <1> QED BY <1>2, <1>4, <1>5, <1>6, <1>7

(* Among DEPTH successive ids no two share a slot; the id after them has   *)
(* the slot of the first one and the other flag.                           *)
LEMMA OwnSlot ==
    ASSUME NEW a \in SlotId, NEW b \in SlotId, NEW c \in SlotId
    PROVE  /\ Later(a, b) < DEPTH /\ Later(a, c) < DEPTH /\ Slot(b) = Slot(c) => b = c
           /\ Later(a, b) = DEPTH => Slot(b) = Slot(a) /\ Flag(b) = 1 - Flag(a)
  <1> USE Sizes
  <1>1. /\ Later(a, b) = IF a <= b THEN b - a ELSE b - a + 2 * DEPTH
        /\ Later(a, c) = IF a <= c THEN c - a ELSE c - a + 2 * DEPTH
        /\ Slot(a) = IF a < DEPTH THEN a ELSE a - DEPTH
        /\ Slot(b) = IF b < DEPTH THEN b ELSE b - DEPTH
        /\ Slot(c) = IF c < DEPTH THEN c ELSE c - DEPTH
        /\ Flag(a) = IF a < DEPTH THEN 0 ELSE 1
        /\ Flag(b) = IF b < DEPTH THEN 0 ELSE 1
    BY Ids
  <1>2. a \in 0..(2 * DEPTH - 1) /\ b \in 0..(2 * DEPTH - 1) /\ c \in 0..(2 * DEPTH - 1)
    BY DEF SlotId
  <1> QED BY <1>1, <1>2

(* The memory shows the flag of the slot at the read pointer. *)
LEMMA Shown == IInv => FlagShownIsCurrent
  BY DEF IInv, ReadsAhead, FlagShownIsCurrent, valid_out, ShownByMemory, ShowsCurrent

(* A thread that has been passed on has been written. *)
LEMMA PassedWritten ==
    ASSUME IInv, NEW a \in SlotId, Later(left, a) < Passed
    PROVE  ~Expected(a)
  <1>1. left \in SlotId /\ read_pointer_ff \in SlotId /\ slot_allocator \in SlotId
    BY DEF IInv, TypeOK
  <1>2. Later(left, a) \in Int /\ Passed \in Int /\ Threads \in Int
    BY <1>1, Distance DEF Passed, Threads
  <1>3. Passed <= Threads /\ \A b \in looping : Passed <= Later(left, b)
    BY DEF IInv, InOrder
  <1> QED BY <1>2, <1>3 DEF Expected

(* If the flag at the read pointer has this round's value, the thread due  *)
(* there has been written, and it is one that has entered the loop.        *)
LEMMA ArrivedWritten ==
    ASSUME IInv, Arrived
    PROVE  Passed < Threads /\ Passed < DEPTH /\ ~Expected(read_pointer_ff)
  <1> USE Sizes
  <1> DEFINE rp == read_pointer_ff
             mem == flag_memory.ram.mem
  <1>1. left \in SlotId /\ rp \in SlotId /\ slot_allocator \in SlotId
    BY DEF IInv, TypeOK
  <1>2. mem[Slot(rp)] = Flag(rp) /\ num_slots_initialized = DEPTH
    BY Shown DEF Arrived, FlagShownIsCurrent, initialized
  <1>3. Passed \in Nat /\ Threads \in Nat /\ Passed <= Threads /\ Threads <= DEPTH
    BY <1>1, Distance DEF IInv, InOrder, Passed, Threads
  <1>4. Slot(rp) < num_slots_initialized /\ Slot(left) < num_slots_initialized
        /\ Flag(left) \in 0..1 /\ Flag(rp) \in 0..1
    BY <1>1, <1>2, NextSlot DEF Address
  <1>5. Passed # DEPTH
    <2> SUFFICES ASSUME Passed = DEPTH PROVE FALSE
      OBVIOUS
    <2>1. Slot(rp) = Slot(left) /\ Flag(rp) = 1 - Flag(left)
      BY <1>1, OwnSlot DEF Passed
    <2>2. Later(left, left) = 0
      BY <1>1, Distance
    <2>3. ~Expected(left)
      BY <1>1, <2>2, PassedWritten
    <2>4. mem[Slot(left)] = Flag(left)
      BY <1>1, <1>4, <2>2, <2>3 DEF IInv, SlotsExact
    <2> QED BY <1>2, <1>4, <2>1, <2>4
  <1>6. Later(left, rp) < DEPTH
    BY <1>3, <1>5 DEF Passed
  <1>7. ~Expected(rp)
    BY <1>1, <1>2, <1>4, <1>6 DEF IInv, SlotsExact
  <1> QED BY <1>3, <1>5, <1>7 DEF Expected, Passed
-----------------------------------------------------------------------------
(* After reset the buffer is empty and no flag is initialised. *)
LEMMA InitIInv == Init => IInv
  <1> SUFFICES ASSUME Init PROVE IInv
    OBVIOUS
  <1> USE Sizes
  <1>1. PICK mem \in [Address -> 0..1], x \in 0..1 :
          flag_memory = [state |-> "idle", read_addr |-> DEPTH - 1, data_reg |-> x,
                         ram |-> RamAfterReset(mem, DEPTH - 1, x)]
    BY DEF Init
  <1>2. /\ slot_allocator = 0 /\ looping = {} /\ left = 0 /\ read_pointer_ff = 0
        /\ slot_data = [a \in Address |-> 0] /\ q = 0 /\ num_slots_initialized = 0
        /\ wren_chain = [i \in 1..WRITE_DELAY |-> FALSE]
        /\ wrptr_ff = 0 /\ rdptr_ff = 0 /\ usedw_ff = 0 /\ empty_ff = TRUE
    BY DEF Init, FifoPtrsExInit
  <1>3. 0 \in SlotId /\ DEPTH - 1 \in Address /\ 0 \in Address
    BY DEF SlotId, Address
  <1>4. RamAfterReset(mem, DEPTH - 1, x) \in Rams(Address, 0..1)
    <2>1. DEPTH - 1 \in Address
      BY <1>3
    <2> DEFINE a == DEPTH - 1
               o == [i \in 1..2 |-> x]
               p == [i \in 1..2 |-> a]
               s == [i \in 0..1 |-> [valid |-> FALSE, addr |-> a, data |-> x]]
    <2>2. RamAfterReset(mem, a, x) = [mem |-> mem, output |-> o, addr |-> p, slots |-> s]
      BY DEF RamAfterReset, READ_LATENCY, NUM_BYPASS_SLOTS
    <2>3. o \in [1..2 -> 0..1] /\ p \in [1..2 -> Address] /\ s \in [0..1 -> Writes(Address, 0..1)]
      BY <2>1 DEF Writes
    <2> HIDE DEF o, p, s
    <2>4. [mem |-> mem, output |-> o, addr |-> p, slots |-> s] \in Rams(Address, 0..1)
      BY <2>3 DEF Rams, READ_LATENCY, NUM_BYPASS_SLOTS
    <2> QED BY <2>2, <2>4
  <1>5. TypeOK
    <2>1. flag_memory \in ReorderMemories
      BY <1>1, <1>3, <1>4 DEF ReorderMemories
    <2>2. FifoPtrsExTypeOK
      BY DEF Init, FifoPtrsExInit, FifoPtrsExTypeOK
    <2>3. wren_chain \in Chains(WRITE_DELAY, BOOLEAN)
      BY <1>2 DEF Chains
    <2>4. slot_data \in [Address -> SlotId] /\ num_slots_initialized \in 0..DEPTH
          /\ looping \subseteq SlotId
      BY <1>2, <1>3
    <2> QED BY <1>2, <1>3, <2>1, <2>2, <2>3, <2>4 DEF TypeOK
  <1>6. Slot(0) = 0 /\ Later(0, 0) = 0 /\ \A b \in SlotId : Later(0, b) \in Nat
    BY <1>3, Ids, Distance
  <1>7. ReadsAhead(flag_memory, Slot(read_pointer_ff))
    BY <1>1, <1>2, <1>6 DEF ReadsAhead, valid_out
  <1>8. Passed = 0 /\ Threads = 0
    BY <1>2, <1>6 DEF Passed, Threads
  <1>9. InOrder
    <2>1. Pulses(wren_chain, WRITE_DELAY, 0) = 0
      BY <1>2, PulsesInit
    <2> QED BY <1>2, <1>6, <1>8, <2>1 DEF InOrder
  <1>10. \A b \in SlotId : Expected(b) /\ Slot(b) \in Nat
    BY <1>2, <1>6, <1>8, NextSlot DEF Expected, Address
  <1>11. SlotsExact /\ NothingBeforeInit
    BY <1>2, <1>10 DEF SlotsExact, NothingBeforeInit
  <1>12. LeavesInOrder
    BY <1>2 DEF LeavesInOrder, empty
  <1> QED BY <1>5, <1>7, <1>9, <1>11, <1>12 DEF IInv

(* The invariant holds again after every clock edge. *)
LEMMA CycleIInv ==
    ASSUME IInv, NEW enter \in BOOLEAN, NEW wrreq \in BOOLEAN, NEW rdreq \in BOOLEAN,
           NEW id \in SlotId, NEW x \in 0..1, Cycle(enter, wrreq, id, rdreq, x)
    PROVE  IInv'
  <1> USE Sizes
  <1> DEFINE rp == read_pointer_ff
             wr == ChainOut(wren_chain, WRITE_DELAY, Arrived)
             under_way == Pulses(wren_chain, WRITE_DELAY, 0)
             mem == flag_memory.ram.mem
             write == FlagWrite(wrreq, id)
  <1>1. /\ slot_allocator \in SlotId /\ left \in SlotId /\ rp \in SlotId
        /\ looping \subseteq SlotId /\ flag_memory \in ReorderMemories
        /\ slot_data \in [Address -> SlotId] /\ q \in SlotId
        /\ num_slots_initialized \in 0..DEPTH
        /\ wren_chain \in Chains(WRITE_DELAY, BOOLEAN)
        /\ wrptr_ff \in 0..(DEPTH - 1) /\ rdptr_ff \in 0..(DEPTH - 1) /\ usedw_ff \in Nat
    BY DEF IInv, TypeOK, FifoPtrsExTypeOK
  <1>2. /\ enter => Threads < MaxThreads
        /\ wrreq => id \in looping /\ initialized
        /\ rdreq => ~empty_ff
        /\ slot_allocator' = IF enter THEN NextId(slot_allocator) ELSE slot_allocator
        /\ looping' = (looping \ (IF wrreq THEN {id} ELSE {}))
                         \cup (IF enter THEN {slot_allocator} ELSE {})
        /\ left' = IF rdreq THEN NextId(left) ELSE left
        /\ flag_memory' = MemoryEdge(flag_memory, Arrived, write, x)
        /\ slot_data' = IF wrreq THEN [slot_data EXCEPT ![Slot(id)] = id] ELSE slot_data
        /\ q' = slot_data[IF initialized /\ rdreq THEN NextPtr(rdptr_ff) ELSE rdptr_ff]
        /\ num_slots_initialized' = num_slots_initialized + Bit(~initialized)
        /\ rp' = IF Arrived THEN NextId(rp) ELSE rp
        /\ wren_chain' = ChainShift(wren_chain, WRITE_DELAY, Arrived)
        /\ FifoPtrsExEdge(FALSE, wr, rdreq)
    BY DEF Cycle, Threads, Later, full, empty
  <1>3. Arrived \in BOOLEAN /\ initialized \in BOOLEAN
    BY DEF Arrived, initialized
  <1>4. /\ wr \in BOOLEAN /\ wren_chain' \in Chains(WRITE_DELAY, BOOLEAN)
        /\ under_way \in Nat /\ under_way' \in Nat
        /\ under_way' = under_way + Bit(Arrived) - Bit(wr)
    BY <1>1, <1>2, <1>3, ChainShiftType, PulsesType, PulsesEdge
  <1> HIDE DEF wr, under_way, write
  <1>5. /\ Passed \in Nat /\ Threads \in Nat /\ Passed <= Threads
        /\ Threads <= MaxThreads /\ Threads <= DEPTH
        /\ Passed = usedw_ff + under_way
        /\ rdptr_ff = Slot(left) /\ (empty_ff <=> usedw_ff = 0)
        /\ \A b \in looping : Passed <= Later(left, b) /\ Later(left, b) < Threads
    BY <1>1, Distance DEF IInv, InOrder, Passed, Threads, under_way
  <1>6. Arrived => Passed < Threads /\ Passed < DEPTH /\ ~Expected(rp)
    BY ArrivedWritten
  <1>7. rdreq => usedw_ff > 0
    BY <1>1, <1>2, <1>5
  (* The occupancy is the number of threads passed on to the reader. *)
  <1>8. usedw_ff + Bit(wr) - Bit(rdreq) \in 0..DEPTH
        /\ usedw_ff + Bit(wr) <= Passed + Bit(Arrived)
    BY <1>1, <1>4, <1>5, <1>6, <1>7 DEF Bit
  <1>9. /\ usedw_ff' = usedw_ff + Bit(wr) - Bit(rdreq)
        /\ rdptr_ff' = IF rdreq THEN NextPtr(rdptr_ff) ELSE rdptr_ff
        /\ empty_ff' <=> usedw_ff' = 0
        /\ FifoPtrsExTypeOK'
    <2> DEFINE u == usedw_ff + Bit(wr) - Bit(rdreq)
    <2>1. u \in 0..(2 * (2 * DEPTH) - 1) /\ u < 2 * DEPTH /\ 2 * DEPTH \in Nat /\ 2 * DEPTH > 0
      BY <1>8
    <2>2. usedw_nxt(wr, rdreq) = u
      <3> HIDE DEF u
      <3>1. u % (2 * DEPTH) = u
        BY <2>1, Remainder
      <3> QED BY <3>1 DEF usedw_nxt, u
    <2>3. u \in 0..(USEDW_MODULUS - 1)
      BY <1>8
    <2>4. NextPtr(wrptr_ff) \in 0..(DEPTH - 1) /\ NextPtr(rdptr_ff) \in 0..(DEPTH - 1)
      BY <1>1, Circle DEF Address
    <2>5. CASE reg_enable(wr, rdreq)
      <3>1. FifoPtrsExUpdate(wr, rdreq) /\ rst_d1' = FALSE
        BY <1>2, <2>5 DEF FifoPtrsExEdge
      <3> HIDE DEF u
      <3>2. /\ usedw_ff' = u /\ rdptr_ff' = IF rdreq THEN NextPtr(rdptr_ff) ELSE rdptr_ff
            /\ wrptr_ff' = IF wr THEN NextPtr(wrptr_ff) ELSE wrptr_ff
            /\ empty_ff' = (u = 0) /\ full_ff' \in BOOLEAN /\ almost_full_ff' \in BOOLEAN
            /\ almost_empty_ff' \in BOOLEAN
        BY <2>2, <3>1 DEF FifoPtrsExUpdate
      <3>3. FifoPtrsExTypeOK'
        BY <1>1, <2>3, <2>4, <3>1, <3>2 DEF FifoPtrsExTypeOK, USEDW_MODULUS
      <3> QED BY <3>2, <3>3 DEF u
    <2>6. CASE ~reg_enable(wr, rdreq)
      <3>1. /\ UNCHANGED <<wrptr_ff, rdptr_ff, usedw_ff, full_ff, almost_full_ff, empty_ff,
                           almost_empty_ff>>
            /\ rst_d1' = FALSE
        BY <1>2, <2>6 DEF FifoPtrsExEdge
      <3>2. ~wr /\ ~rdreq
        BY <2>6 DEF reg_enable
      <3>3. u = usedw_ff
        BY <1>1, <3>2 DEF Bit
      <3>4. FifoPtrsExTypeOK'
        BY <3>1 DEF IInv, TypeOK, FifoPtrsExTypeOK, USEDW_MODULUS
      <3> QED BY <1>5, <3>1, <3>2, <3>3, <3>4
    <2> QED BY <2>5, <2>6
  (* Threads that enter, are passed on and leave, counted from the next one  *)
  (* to leave.                                                               *)
  <1>10. ASSUME NEW b \in SlotId, rdreq => b # left
         PROVE  Later(left', b) = Later(left, b) - Bit(rdreq) /\ Later(left, b) \in Nat
    BY <1>1, <1>2, <1>10, Distance DEF Bit
  <1>11. /\ slot_allocator' \in SlotId /\ left' \in SlotId /\ rp' \in SlotId
    BY <1>1, <1>2, NextSlot
  <1>12. /\ Later(left, rp') = Passed + Bit(Arrived)
         /\ Later(left, slot_allocator') = Threads + Bit(enter)
    <2>1. Later(left, NextId(rp)) = IF Passed = 2 * DEPTH - 1 THEN 0 ELSE Passed + 1
      BY <1>1, Distance DEF Passed
    <2>2. Later(left, NextId(slot_allocator)) =
             IF Threads = 2 * DEPTH - 1 THEN 0 ELSE Threads + 1
      BY <1>1, Distance DEF Threads
    <2>3. Passed # 2 * DEPTH - 1 /\ Threads # 2 * DEPTH - 1
      BY <1>5
    <2>4. Later(left, rp) = Passed /\ Later(left, slot_allocator) = Threads
      BY DEF Passed, Threads
    <2>5. Later(left, rp') = Passed + Bit(Arrived)
      BY <1>2, <1>3, <1>5, <2>1, <2>3, <2>4 DEF Bit
    <2>6. Later(left, slot_allocator') = Threads + Bit(enter)
      BY <1>2, <1>5, <2>2, <2>3, <2>4 DEF Bit
    <2> QED BY <2>5, <2>6
  <1>13. /\ Passed' = Passed + Bit(Arrived) - Bit(rdreq)
         /\ Threads' = Threads + Bit(enter) - Bit(rdreq)
    <2>1. Later(left, left) = 0
      BY <1>1, Distance
    <2>2. rdreq => rp' # left /\ slot_allocator' # left
      <3> SUFFICES ASSUME rdreq
                   PROVE  Later(left, rp') # 0 /\ Later(left, slot_allocator') # 0
        BY <2>1
      <3>1. Passed > 0 /\ Threads > 0
        BY <1>1, <1>4, <1>5, <1>7
      <3>2. Bit(Arrived) \in Nat /\ Bit(enter) \in Nat
        BY DEF Bit
      <3> QED BY <1>5, <1>12, <3>1, <3>2
    <2>3. Passed' = Later(left', rp') /\ Threads' = Later(left', slot_allocator')
      BY DEF Passed, Threads, Later
    <2>4. /\ Later(left', rp') = Later(left, rp') - Bit(rdreq)
          /\ Later(left', slot_allocator') = Later(left, slot_allocator') - Bit(rdreq)
      BY <1>10, <1>11, <2>2
    <2>5. Bit(Arrived) \in Nat /\ Bit(rdreq) \in Nat /\ Bit(enter) \in Nat
      BY DEF Bit
    <2> QED BY <1>5, <1>12, <2>3, <2>4, <2>5
  <1>14. \A b \in looping : rdreq => b # left
    <2> SUFFICES ASSUME NEW b \in looping, rdreq PROVE b # left
      OBVIOUS
    <2>1. Passed > 0 /\ Passed <= Later(left, b)
      BY <1>1, <1>4, <1>5, <1>7
    <2>2. Later(left, left) = 0
      BY <1>1, Distance
    <2> QED BY <1>5, <2>1, <2>2
  <1>15. InOrder'
    <2>1. usedw_ff' + under_way' = Passed'
      BY <1>1, <1>4, <1>5, <1>9, <1>13 DEF Bit
    <2>2. Passed' <= Threads' /\ Threads' <= MaxThreads
      BY <1>2, <1>3, <1>5, <1>6, <1>13 DEF Bit
    <2>3. ASSUME NEW b \in looping'
          PROVE  Passed' <= Later(left', b) /\ Later(left', b) < Threads'
      <3>1. CASE b \in looping /\ ~(wrreq /\ b = id)
        <4>1. b \in SlotId /\ Passed <= Later(left, b) /\ Later(left, b) < Threads
          BY <1>1, <1>5, <3>1
        <4>2. Later(left', b) = Later(left, b) - Bit(rdreq) /\ Later(left, b) \in Nat
          BY <1>10, <1>14, <3>1, <4>1
        <4>3. Arrived => Later(left, b) # Passed
          <5> SUFFICES ASSUME Arrived, Later(left, b) = Passed PROVE FALSE
            OBVIOUS
          <5>1. b = rp
            BY <1>1, <4>1, Distance DEF Passed
          <5> QED BY <1>6, <3>1, <5>1 DEF Expected
        <4> QED BY <1>3, <1>5, <1>13, <4>1, <4>2, <4>3 DEF Bit
      <3>2. CASE enter /\ b = slot_allocator
        <4>1. Later(left, b) = Threads
          BY <3>2 DEF Threads
        <4>2. rdreq => b # left
          <5>1. Later(left, left) = 0 /\ (rdreq => Threads > 0)
            BY <1>1, <1>4, <1>5, <1>7, Distance
          <5> QED BY <1>5, <4>1, <5>1
        <4>3. Later(left', b) = Threads - Bit(rdreq)
          BY <1>1, <1>10, <3>2, <4>1, <4>2
        <4> QED BY <1>3, <1>5, <1>6, <1>13, <3>2, <4>3 DEF Bit
      <3> QED BY <1>2, <2>3, <3>1, <3>2
    <2>4. rdptr_ff' = Slot(left')
      BY <1>1, <1>2, <1>5, <1>9, NextSlot
    <2> QED BY <1>9, <2>1, <2>2, <2>3, <2>4 DEF InOrder, under_way, Later, Slot
  (* A thread is expected until it is written. *)
  <1>16. ASSUME NEW b \in SlotId, rdreq => b # left
         PROVE  Expected(b)' <=> Expected(b) /\ ~(wrreq /\ b = id)
    <2>1. Later(left', b) = Later(left, b) - Bit(rdreq) /\ Later(left, b) \in Nat
      BY <1>10, <1>16
    <2>2. Later(left', b) >= Threads' <=> Later(left, b) >= Threads + Bit(enter)
      BY <1>5, <1>13, <2>1 DEF Bit
    <2>3. b = slot_allocator <=> Later(left, b) = Threads
      BY <1>1, Distance DEF Threads
    <2>4. (enter /\ b = slot_allocator) \/ Later(left, b) >= Threads + Bit(enter)
            <=> Later(left, b) >= Threads
      BY <1>5, <2>1, <2>3 DEF Bit
    <2>5. b \in looping' <=> (b \in looping /\ ~(wrreq /\ b = id))
                                \/ (enter /\ b = slot_allocator)
      BY <1>2
    <2>6. Expected(b)' <=> b \in looping' \/ Later(left', b) >= Threads'
      BY DEF Expected, Later
    <2>7. wrreq /\ b = id => ~(Later(left, b) >= Threads)
      BY <1>2, <1>5, <2>1
    <2> QED BY <2>2, <2>4, <2>5, <2>6, <2>7 DEF Expected
  (* What the flag memory holds, and what it shows. *)
  <1>17. write \in Writes(Address, 0..1)
    <2>1. CASE initialized
      <3>1. write = [valid |-> wrreq, addr |-> Slot(id), data |-> Flag(id)]
        BY <2>1 DEF write, FlagWrite
      <3>2. Slot(id) \in Address /\ Flag(id) \in 0..1
        BY NextSlot
      <3> QED BY <3>1, <3>2 DEF Writes
    <2>2. CASE ~initialized
      <3>1. write = [valid |-> TRUE, addr |-> num_slots_initialized, data |-> 1]
        BY <2>2 DEF write, FlagWrite
      <3>2. num_slots_initialized \in Address
        BY <1>1, <2>2 DEF initialized, Address
      <3> QED BY <3>1, <3>2 DEF Writes
    <2> QED BY <2>1, <2>2
  <1>18. /\ flag_memory' \in ReorderMemories
         /\ ReadsAhead(flag_memory', IF Arrived THEN NextPtr(Slot(rp)) ELSE Slot(rp))
         /\ mem' = IF write.valid THEN [mem EXCEPT ![write.addr] = write.data] ELSE mem
    <2>1. Slot(rp) \in Address /\ ReadsAhead(flag_memory, Slot(rp))
      BY <1>1, NextSlot DEF IInv
    <2>2. Arrived => valid_out(flag_memory)
      BY DEF Arrived
    <2> DEFINE a == Arrived
               p == Slot(rp)
               m == flag_memory
               e == flag_memory'
    <2>3. /\ a \in BOOLEAN /\ (a => valid_out(m)) /\ p \in Address /\ ReadsAhead(m, p)
          /\ m \in ReorderMemories /\ e = MemoryEdge(m, a, write, x)
      BY <1>1, <1>2, <1>3, <2>1, <2>2
    <2> HIDE DEF a, p, m, e
    <2>4. /\ e \in ReorderMemories
          /\ ReadsAhead(e, IF a THEN NextPtr(p) ELSE p)
          /\ e.ram.mem = IF write.valid THEN [m.ram.mem EXCEPT ![write.addr] = write.data]
                         ELSE m.ram.mem
      BY <1>17, <2>3, MemoryStep
    <2> QED BY <2>4 DEF a, p, m, e
  <1>19. ReadsAhead(flag_memory, Slot(rp))'
    <2>1. Slot(rp') = IF Arrived THEN NextPtr(Slot(rp)) ELSE Slot(rp)
      BY <1>1, <1>2, NextSlot
    <2> QED BY <1>18, <2>1 DEF ReadsAhead, Slot, NextPtr, valid_out, LoadedCurrent, ShowsCurrent,
                                data_out, Matching, Youngest, READ_LATENCY, NUM_BYPASS_SLOTS
  (* Every slot's flag and data, before all flags are initialised ... *)
  <1>20. ASSUME ~initialized PROVE SlotsExact' /\ NothingBeforeInit'
    <2>1. /\ left = 0 /\ rp = 0 /\ ~wrreq /\ ~rdreq /\ ~Arrived
          /\ \A b \in SlotId : Expected(b)
      <3>1. left = 0 /\ rp = 0 /\ \A b \in SlotId : Expected(b)
        BY <1>20 DEF IInv, NothingBeforeInit
      <3>2. Passed = 0
        BY <1>1, <3>1, Distance DEF Passed
      <3>3. ~rdreq
        BY <1>1, <1>4, <1>5, <1>7, <3>2
      <3> QED BY <1>2, <1>20, <3>1, <3>3 DEF Arrived
    <2>2. left' = 0 /\ rp' = 0 /\ \A b \in SlotId : Expected(b)'
      BY <1>2, <1>16, <2>1
    <2>3. /\ num_slots_initialized \in 0..(DEPTH - 1)
          /\ num_slots_initialized' = num_slots_initialized + 1
      BY <1>1, <1>2, <1>20 DEF initialized, Bit
    <2>4. mem' = [mem EXCEPT ![num_slots_initialized] = 1]
      <3>1. write = [valid |-> TRUE, addr |-> num_slots_initialized, data |-> 1]
        BY <1>20 DEF write, FlagWrite
      <3> QED BY <1>18, <3>1
    <2>5. mem \in [Address -> 0..1]
      BY <1>1 DEF ReorderMemories, Rams
    <2>6. ASSUME NEW b \in SlotId, Later(left', b) < DEPTH, Slot(b) < num_slots_initialized'
          PROVE  mem'[Slot(b)] # Flag(b)
      <3>1. Later(0, b) = b
        BY <2>2, <1>11, Ids DEF SlotId
      <3>2. Slot(b) = b /\ Flag(b) = 0 /\ Slot(b) \in Address
        BY <2>2, <2>6, <3>1, Ids, NextSlot
      <3>3. CASE b = num_slots_initialized
        BY <2>4, <2>5, <3>2, <3>3
      <3>4. CASE b # num_slots_initialized
        <4>1. b < num_slots_initialized
          BY <2>3, <2>6, <3>2, <3>4 DEF SlotId
        <4>2. mem[Slot(b)] # Flag(b)
          BY <2>1, <2>2, <2>6, <3>2, <4>1 DEF IInv, SlotsExact
        <4> QED BY <2>4, <2>5, <3>2, <3>4, <4>2
      <3> QED BY <3>3, <3>4
    <2>7. SlotsExact'
      <3> SUFFICES ASSUME NEW b \in SlotId, Later(left', b) < DEPTH
                   PROVE  /\ Slot(b) < num_slots_initialized' =>
                                (mem'[Slot(b)] = Flag(b) <=> ~Expected(b)')
                          /\ ~Expected(b)' => slot_data'[Slot(b)] = b
        BY DEF SlotsExact, Later, Slot, Flag
      <3> QED BY <2>2, <2>6
    <2>8. NothingBeforeInit'
      BY <2>2 DEF NothingBeforeInit
    <2> QED BY <2>7, <2>8
  (* ... and afterwards.  The slot of a thread that leaves becomes that of *)
  (* the next round's id, whose flag it does not have.                     *)
  <1>21. ASSUME initialized PROVE SlotsExact' /\ NothingBeforeInit'
    <2>1. num_slots_initialized = DEPTH /\ num_slots_initialized' = DEPTH
      BY <1>2, <1>21 DEF initialized, Bit
    <2>2. NothingBeforeInit'
      BY <2>1 DEF NothingBeforeInit, initialized
    <2>3. mem \in [Address -> 0..1]
      BY <1>1 DEF ReorderMemories, Rams
    <2>4. mem' = IF wrreq THEN [mem EXCEPT ![Slot(id)] = Flag(id)] ELSE mem
      <3>1. write = [valid |-> wrreq, addr |-> Slot(id), data |-> Flag(id)]
        BY <1>21 DEF write, FlagWrite
      <3> QED BY <1>18, <3>1
    <2>5. \A b \in SlotId : Slot(b) \in Address /\ Slot(b) < DEPTH /\ Flag(b) \in 0..1
      BY NextSlot DEF Address
    <2>6. wrreq => Later(left, id) < DEPTH
      <3>1. wrreq => Later(left, id) < Threads
        BY <1>2, <1>5
      <3>2. Later(left, id) \in Nat
        BY <1>1, Distance
      <3> QED BY <1>5, <3>1, <3>2
    <2>7. ASSUME NEW b \in SlotId, Later(left, b) < DEPTH
          PROVE  /\ mem'[Slot(b)] = IF wrreq /\ b = id THEN Flag(b) ELSE mem[Slot(b)]
                 /\ slot_data'[Slot(b)] = IF wrreq /\ b = id THEN b ELSE slot_data[Slot(b)]
                 /\ mem[Slot(b)] = Flag(b) <=> ~Expected(b)
                 /\ ~Expected(b) => slot_data[Slot(b)] = b
      <3>1. wrreq /\ Slot(b) = Slot(id) => b = id
        BY <1>1, <2>6, <2>7, OwnSlot
      <3>2. /\ mem'[Slot(b)] = IF wrreq /\ b = id THEN Flag(b) ELSE mem[Slot(b)]
            /\ slot_data'[Slot(b)] = IF wrreq /\ b = id THEN b ELSE slot_data[Slot(b)]
        <4>1. CASE wrreq
          <5>1. mem' = [mem EXCEPT ![Slot(id)] = Flag(id)]
                /\ slot_data' = [slot_data EXCEPT ![Slot(id)] = id]
            BY <1>2, <2>4, <4>1
          <5> HIDE DEF mem
          <5> QED BY <1>1, <2>3, <2>5, <3>1, <4>1, <5>1
        <4>2. CASE ~wrreq
          BY <1>2, <2>4, <4>2
        <4> QED BY <4>1, <4>2
      <3> QED BY <2>1, <2>5, <2>7, <3>2 DEF IInv, SlotsExact
    <2>8. ASSUME NEW b \in SlotId, Later(left', b) < DEPTH
          PROVE  /\ mem'[Slot(b)] = Flag(b) <=> ~Expected(b)'
                 /\ ~Expected(b)' => slot_data'[Slot(b)] = b
      <3>1. Later(left, b) \in 0..(2 * DEPTH - 1) /\ Later(left, left) = 0
        BY <1>1, Distance
      <3>2. rdreq => b # left
        <4> SUFFICES ASSUME rdreq, b = left PROVE FALSE
          OBVIOUS
        <4>1. Later(NextId(left), left) = 2 * DEPTH - 1
          BY <1>1, Distance
        <4> QED BY <1>2, <2>8, <4>1
      <3>3. Later(left', b) = Later(left, b) - Bit(rdreq)
        BY <1>10, <3>2
      <3>4. Expected(b)' <=> Expected(b) /\ ~(wrreq /\ b = id)
        BY <1>16, <3>2
      <3>5. CASE Later(left, b) < DEPTH
        <4>1. /\ mem'[Slot(b)] = IF wrreq /\ b = id THEN Flag(b) ELSE mem[Slot(b)]
              /\ slot_data'[Slot(b)] = IF wrreq /\ b = id THEN b ELSE slot_data[Slot(b)]
              /\ mem[Slot(b)] = Flag(b) <=> ~Expected(b)
              /\ ~Expected(b) => slot_data[Slot(b)] = b
          BY <2>7, <3>5
        <4> HIDE DEF mem
        <4> QED BY <3>4, <4>1
      <3>6. CASE ~(Later(left, b) < DEPTH)
        <4>1. rdreq /\ Later(left, b) = DEPTH
          BY <2>8, <3>1, <3>3, <3>6 DEF Bit
        <4>2. Slot(b) = Slot(left) /\ Flag(b) = 1 - Flag(left)
          BY <1>1, <4>1, OwnSlot
        <4>3. Later(left, left) < Passed
          BY <1>1, <1>4, <1>5, <1>7, <3>1, <4>1
        <4>4. ~Expected(left)
          BY <1>1, <4>3, PassedWritten
        <4>5. wrreq => id # left
          BY <1>2, <1>14, <4>1
        <4>6. mem'[Slot(left)] = mem[Slot(left)] /\ mem[Slot(left)] = Flag(left)
          BY <1>1, <2>7, <3>1, <4>4, <4>5
        <4>7. mem'[Slot(b)] # Flag(b)
          BY <1>1, <2>5, <4>2, <4>6
        <4>8. Expected(b)'
          <5>1. Later(left, b) >= Threads
            BY <1>5, <4>1
          <5>2. wrreq => id # b
            BY <1>2, <1>5, <3>1, <5>1
          <5> QED BY <3>4, <5>1, <5>2 DEF Expected
        <4> QED BY <4>7, <4>8
      <3> QED BY <3>5, <3>6
    <2>9. SlotsExact'
      BY <2>8 DEF SlotsExact, Later, Slot, Flag
    <2> QED BY <2>2, <2>9
  (* The reader is shown the thread that is due to leave. *)
  <1>22. LeavesInOrder'
    <2> SUFFICES ASSUME ~empty_ff' PROVE q' = left'
      BY DEF LeavesInOrder, empty
    <2>1. initialized
      <3> SUFFICES ASSUME ~initialized PROVE FALSE
        OBVIOUS
      <3>1. left = 0 /\ rp = 0 /\ ~Arrived
        BY DEF IInv, NothingBeforeInit, Arrived
      <3>2. Passed = 0
        BY <1>1, <3>1, Distance DEF Passed
      <3>3. usedw_ff + Bit(wr) <= 0
        BY <1>8, <3>1, <3>2 DEF Bit
      <3>4. usedw_ff' = 0
        BY <1>1, <1>7, <1>9, <3>3 DEF Bit
      <3> QED BY <1>9, <3>4
    <2>2. q' = slot_data[Slot(left')]
      <3>1. rdptr_ff' = Slot(left')
        BY <1>1, <1>2, <1>5, <1>9, NextSlot
      <3> QED BY <1>2, <1>9, <2>1, <3>1
    <2>3. Later(left, left') = Bit(rdreq)
      <3>1. Later(left, left) = 0
        BY <1>1, Distance
      <3>2. Later(left, NextId(left)) = 1
        BY <1>1, <3>1, Distance
      <3> QED BY <1>2, <3>1, <3>2 DEF Bit
    <2>4. Bit(rdreq) < Passed + Bit(Arrived)
      BY <1>1, <1>5, <1>8, <1>9 DEF Bit
    <2>5. ~Expected(left')
      <3>1. CASE Bit(rdreq) < Passed
        BY <1>11, <2>3, <3>1, PassedWritten
      <3>2. CASE ~(Bit(rdreq) < Passed)
        <4>1. Arrived /\ Bit(rdreq) = Passed
          BY <1>5, <2>4, <3>2 DEF Bit
        <4>2. left' = rp
          BY <1>1, <1>11, <2>3, <4>1, Distance DEF Passed
        <4> QED BY <1>6, <4>1, <4>2
      <3> QED BY <3>1, <3>2
    <2>6. Later(left, left') < DEPTH
      BY <2>3 DEF Bit
    <2> QED BY <1>11, <2>2, <2>5, <2>6 DEF IInv, SlotsExact
  <1>23. TypeOK'
    <2>1. looping' \subseteq SlotId
      BY <1>1, <1>2
    <2>2. slot_data' \in [Address -> SlotId]
      BY <1>1, <1>2
    <2>3. q' \in SlotId
      <3>1. Slot(left) \in Address /\ NextPtr(Slot(left)) \in Address
        BY <1>1, NextSlot, Circle
      <3> QED BY <1>1, <1>2, <1>5, <3>1
    <2>4. num_slots_initialized' \in 0..DEPTH
      BY <1>1, <1>2 DEF initialized, Bit
    <2> QED BY <1>4, <1>9, <1>11, <1>18, <2>1, <2>2, <2>3, <2>4
            DEF TypeOK, SlotId, Address, ReorderMemories, Rams, Writes,
                READ_LATENCY, NUM_BYPASS_SLOTS
  <1> QED BY <1>3, <1>15, <1>19, <1>20, <1>21, <1>22, <1>23 DEF IInv
-----------------------------------------------------------------------------
(* The inductive invariant of the reorder buffer. *)
THEOREM Invariance == Spec => []IInv
  <1>1. IInv /\ [Next]_vars => IInv'
    <2> SUFFICES ASSUME IInv, [Next]_vars PROVE IInv'
      OBVIOUS
    <2>1. CASE Next
      <3>1. PICK enter \in BOOLEAN, rdreq \in BOOLEAN, x \in DontCare :
               \/ Cycle(enter, FALSE, 0, rdreq, x)
               \/ \E id \in looping : Cycle(enter, TRUE, id, rdreq, x)
        BY <2>1 DEF Next
      <3>2. x \in 0..1
        BY <3>1 DEF DontCare
      <3>3. 0 \in SlotId /\ looping \subseteq SlotId
        BY Sizes DEF SlotId, IInv, TypeOK
      <3> QED BY <3>1, <3>2, <3>3, CycleIInv
    <2>2. CASE UNCHANGED vars
      <3>1. /\ UNCHANGED <<slot_allocator, looping, left, flag_memory, slot_data, q,
                           num_slots_initialized, read_pointer_ff, wren_chain>>
            /\ UNCHANGED <<wrptr_ff, rdptr_ff, usedw_ff, full_ff, almost_full_ff,
                           empty_ff, almost_empty_ff, rst_d1>>
        BY <2>2 DEF vars, fifoPtrsExVars
      <3>2. TypeOK'
        BY <3>1 DEF IInv, TypeOK, FifoPtrsExTypeOK
      <3>3. ReadsAhead(flag_memory, Slot(read_pointer_ff))'
        BY <3>1 DEF IInv
      <3>4. InOrder' /\ SlotsExact' /\ NothingBeforeInit'
        BY <3>1 DEF IInv, InOrder, SlotsExact, NothingBeforeInit, Expected, Passed, Threads,
                    initialized
      <3>5. LeavesInOrder'
        BY <3>1 DEF IInv, LeavesInOrder, empty
      <3> QED BY <3>2, <3>3, <3>4, <3>5 DEF IInv
    <2> QED BY <2>1, <2>2
  <1> QED BY <1>1, InitIInv, PTL DEF Spec

(* For every depth, write delay and number of threads, and whatever the    *)
(* flag memory held before reset, the flag it shows is the current flag of *)
(* the slot that is read next, although the RAM answers two cycles late.   *)
THEOREM FlagShownIsCurrentHolds == Spec => []FlagShownIsCurrent
  BY Invariance, Shown, PTL

(* For every depth, write delay and number of threads, threads leave the   *)
(* buffer in the order of their slot ids, each with its own data, in       *)
(* whatever order they finish the loop and however often the ids wrap.     *)
THEOREM LeavesInOrderHolds == Spec => []LeavesInOrder
  <1>1. IInv => LeavesInOrder
    BY DEF IInv
  <1> QED BY <1>1, Invariance, PTL
-----------------------------------------------------------------------------
(* The other way of keeping a loop in order, in which finished threads go  *)
(* round until it is their turn (ReorderByLooping).                        *)
(* The slot ids have enough bits for one more id than there are threads. *)
LEMMA Wide ==
    ASSUME PowersOfTwo, Loop!ReorderByLoopingAssumption
    PROVE  2^Loop!SlotBits \in Nat /\ LoopThreads < 2^Loop!SlotBits
  <1> DEFINE n == Loop!Larger(LoopFifoDepth, LoopThreads)
             b == Loop!Log2RoundUp(n)
  <1>1. n \in Nat /\ n > 0 /\ LoopThreads <= n /\ LoopThreads \in Nat
    BY DEF Loop!ReorderByLoopingAssumption, Loop!Larger
  <1> HIDE DEF n
  <1>2. b \in 0..n /\ 2^b >= n
    <2>1. \E k \in 0..n : 2^k >= n /\ \A c \in 0..(k - 1) : 2^c < n
      BY <1>1, LeastPower
    <2> QED BY <2>1 DEF Loop!Log2RoundUp
  <1> HIDE DEF b
  <1>3. b \in Nat
    BY <1>1, <1>2
  <1>4. 2^b \in Nat
    BY <1>3, PowerExceeds
  <1>5. 2^(b + 1) = 2 * 2^b
    BY <1>3 DEF PowersOfTwo
  <1> DEFINE p == 2^b
             r == 2^(b + 1)
  <1>6. p \in Nat /\ p >= n /\ r = 2 * p
    BY <1>2, <1>4, <1>5
  <1> HIDE DEF p, r
  <1>7. r \in Nat /\ LoopThreads < r
    BY <1>1, <1>6
  <1> QED BY <1>7 DEF Loop!SlotBits, r, b, n

(* Counting round a circle of M ids, further than L < M never at a time. *)
LEMMA Turns ==
    ASSUME NEW M \in Nat, NEW L \in Nat, L < M, NEW e \in 0..(M - 1)
    PROVE  /\ \A k \in 0..L : (e + k) % M \in 0..(M - 1)
           /\ \A k \in 1..L : (e + k) % M # e
           /\ e % M = e
           /\ \A k \in 0..(L - 1) : (((e + 1) % M) + k) % M = (e + k + 1) % M
           /\ \A k \in 0..(L - 1) : (((e + k) % M) + 1) % M = (e + k + 1) % M
  <1>1. \A n \in 0..(2 * M - 1) : n % M = IF n < M THEN n ELSE n - M
    BY Remainder
  <1>2. \A k \in 0..L : e + k \in 0..(2 * M - 1)
    OBVIOUS
  <1>3. \A k \in 0..L : (e + k) % M = IF e + k < M THEN e + k ELSE e + k - M
    BY <1>1, <1>2
  <1>4. (e + 1) % M = IF e + 1 < M THEN e + 1 ELSE e + 1 - M
    <2>1. e + 1 \in 0..(2 * M - 1)
      OBVIOUS
    <2> QED BY <1>1, <2>1
  <1>5. e % M = e
    BY <1>1
  <1>6. ASSUME NEW k \in 0..(L - 1) 
        PROVE (((e + 1) % M) + k) % M = (e + k + 1) % M
    <2> DEFINE x == (e + 1) % M
    <2>1. x = IF e + 1 < M THEN e + 1 ELSE e + 1 - M
      BY <1>4
    <2> HIDE DEF x
    <2>2. x \in Nat /\ x + k \in 0..(2 * M - 1) /\ e + k + 1 \in 0..(2 * M - 1)
      BY <2>1
    <2>3. (x + k) % M = IF x + k < M THEN x + k ELSE x + k - M
      BY <1>1, <2>2
    <2>4. (e + k + 1) % M = IF e + k + 1 < M THEN e + k + 1 ELSE e + k + 1 - M
      BY <1>1, <2>2
    <2> DEFINE u == (x + k) % M
               v == (e + k + 1) % M
    <2>5. /\ u = IF x + k < M THEN x + k ELSE x + k - M
          /\ v = IF e + k + 1 < M THEN e + k + 1 ELSE e + k + 1 - M
      BY <2>3, <2>4
    <2> HIDE DEF u, v
    <2>6. u = v
      BY <2>1, <2>5
    <2> QED BY <2>6 DEF u, v, x
  <1>7. ASSUME NEW k \in 0..(L - 1)
        PROVE (((e + k) % M) + 1) % M = (e + k + 1) % M
    <2> DEFINE x == (e + k) % M
    <2>1. x = IF e + k < M THEN e + k ELSE e + k - M
      BY <1>3
    <2> HIDE DEF x
    <2>2. x \in Nat /\ x + 1 \in 0..(2 * M - 1) /\ e + k + 1 \in 0..(2 * M - 1)
      BY <2>1
    <2>3. (x + 1) % M = IF x + 1 < M THEN x + 1 ELSE x + 1 - M
      BY <1>1, <2>2
    <2>4. (e + k + 1) % M = IF e + k + 1 < M THEN e + k + 1 ELSE e + k + 1 - M
      BY <1>1, <2>2
    <2> DEFINE u == (x + 1) % M
               v == (e + k + 1) % M
    <2>5. /\ u = IF x + 1 < M THEN x + 1 ELSE x + 1 - M
          /\ v = IF e + k + 1 < M THEN e + k + 1 ELSE e + k + 1 - M
      BY <2>3, <2>4
    <2> HIDE DEF u, v
    <2>6. u = v
      BY <2>1, <2>5
    <2> QED BY <2>6 DEF u, v, x
  <1>8. \A k \in 0..L : (e + k) % M \in 0..(M - 1)
    BY <1>3
  <1>9. \A k \in 1..L : (e + k) % M # e
    BY <1>3
  <1> QED BY <1>5, <1>6, <1>7, <1>8, <1>9

(* Removing the first occurrence of the head leaves the tail. *)
LEMMA RemoveHead ==
    ASSUME NEW S, NEW s \in Seq(S), s # <<>>
    PROVE  Loop!RemoveFirst(s, s[1]) = Tail(s)
  <1> DEFINE I == {i \in 1..Len(s) : s[i] = s[1]}
  <1>0. Len(s) \in Nat /\ Len(s) > 0
    OBVIOUS
  <1>1. 1 \in I /\ \A i \in I : 1 <= i
    BY <1>0
  <1>2. Loop!Min(I) = 1
    <2> HIDE DEF I
    <2>1. \A x \in I : (\A y \in I : x <= y) => x = 1
      <3>1. \A i \in I : i \in Nat BY DEF I
      <3> QED BY <3>1, <1>1
    <2> QED BY <1>1, <2>1 DEF Loop!Min
  <1>3. Loop!SelectInSeq(s, LAMBDA v : v = s[1]) = 1
    BY <1>1, <1>2 DEF Loop!SelectInSeq
  <1>4. Loop!RemoveFirst(s, s[1]) = Loop!RemoveAt(s, 1)
    BY <1>0, <1>3 DEF Loop!RemoveFirst
  <1>5. Loop!RemoveAt(s, 1) = Tail(s)
    BY <1>0 DEF Loop!RemoveAt
  <1> QED BY <1>4, <1>5

(* What a pass through the loop's block does: a thread that neither runs   *)
(* its body again nor waits for its turn has made its trips.               *)
LEMMA Postamble ==
    ASSUME Loop!ReorderByLoopingAssumption, NEW t \in Loop!Threads,
           NEW u, u = Loop!ReorderByLoopingEmitPostamble(t).thread
    PROVE  /\ u \in Loop!Threads /\ u.slot = t.slot
           /\ Loop!ReorderByLoopingEmitPostamble(t).again
                <=> (u.body_valid \/ t.slot # exit_slot)
           /\ u.body_valid \/ t.trips <= 1 \/ ~t.body_valid
  <1> DEFINE ran == Loop!Body(t)
             v == [ran EXCEPT !.body_valid = @ /\ Loop!LoopCondition(ran)]
             types == [slot : Loop!SlotIds, body_valid : BOOLEAN, trips : 0..MaxTrips]
  <1>0. MaxTrips \in Nat
    BY DEF Loop!ReorderByLoopingAssumption
  <1>1. t \in types /\ (t.body_valid => t.trips > 0)
    BY DEF Loop!Threads
  <1>2. ran \in types /\ ran.slot = t.slot /\ ran.body_valid = t.body_valid
        /\ ran.trips = IF t.body_valid THEN t.trips - 1 ELSE t.trips
    BY <1>0, <1>1 DEF Loop!Body
  <1> HIDE DEF ran
  <1>3. v \in types /\ v.slot = t.slot /\ v.trips = ran.trips
        /\ v.body_valid = (t.body_valid /\ ran.trips > 0)
    BY <1>2 DEF Loop!LoopCondition
  <1>4. u = v /\ Loop!ReorderByLoopingEmitPostamble(t).again = Loop!LoopAgain(v)
    BY DEF Loop!ReorderByLoopingEmitPostamble, ran
  <1> HIDE DEF v
  <1>5. v \in Loop!Threads
    BY <1>2, <1>3 DEF Loop!Threads
  <1>6. v.body_valid \/ t.trips <= 1 \/ ~t.body_valid
    BY <1>1, <1>2, <1>3
  <1> QED BY <1>3, <1>4, <1>5, <1>6 DEF Loop!LoopAgain

(* No thread in a queue has this slot id. *)
Lacks(queue, slot) == \A i \in 1..Len(queue) : queue[i].slot # slot

(* The threads of one queue are threads of another, or t is one of them. *)
Within(queue, whole) == \A i \in 1..Len(queue) : \E j \in 1..Len(whole) : queue[i] = whole[j]
IsIn(t, whole) == \E j \in 1..Len(whole) : t = whole[j]

(* A thread that is in no queue goes to the end of one. *)
LEMMA Enqueue ==
    ASSUME NEW s \in Seq(Loop!Threads), NEW t \in Loop!Threads,
           Loop!AllInside(s), Loop!OneEach(s), Lacks(s, t.slot),
           \E k \in 1..Len(inside) : t.slot = inside[k],
           NEW a, a = Append(s, t)
    PROVE  /\ a \in Seq(Loop!Threads) /\ Loop!AllInside(a) /\ Loop!OneEach(a)
           /\ \A other : Lacks(other, t.slot) /\ Loop!Apart(other, s) => Loop!Apart(other, a)
  <1>1. /\ a \in Seq(Loop!Threads) /\ Len(s) \in Nat /\ Len(a) = Len(s) + 1
        /\ a[Len(s) + 1] = t /\ \A i \in 1..Len(s) : a[i] = s[i]
    OBVIOUS
  <1>2. \A i \in 1..Len(a) : i = Len(s) + 1 \/ i \in 1..Len(s)
    BY <1>1
  <1>3. Loop!AllInside(a)
    BY <1>1, <1>2 DEF Loop!AllInside
  <1>4. Loop!OneEach(a)
    BY <1>1, <1>2, SMTT(30) DEF Loop!OneEach, Lacks
  <1>5. ASSUME NEW other, Lacks(other, t.slot), Loop!Apart(other, s)
        PROVE  Loop!Apart(other, a)
    BY <1>1, <1>2, <1>5 DEF Loop!Apart, Lacks
  <1> QED BY <1>1, <1>3, <1>4, <1>5

(* A thread t ends a pass, and r is the rest of the pipeline: the          *)
(* invariant holds again, and only the oldest thread leaves, done.         *)
LEMMA PassKeeps ==
    ASSUME PowersOfTwo, Loop!ReorderByLoopingAssumption, Loop!IInv,
           NEW t \in Loop!Threads, NEW r \in Seq(Loop!Threads),
           Loop!AllInside(r), Loop!OneEach(r), Loop!Apart(entry, r), Loop!Apart(backward, r),
           \E k \in 1..Len(inside) : t.slot = inside[k],
           Lacks(entry, t.slot), Lacks(backward, t.slot), Lacks(r, t.slot),
           block' = r, entry' = entry, loop_slot_allocator' = loop_slot_allocator,
           Loop!Pass(Loop!ReorderByLoopingEmitPostamble(t))
    PROVE  /\ Loop!IInv'
           /\ inside' # inside => /\ inside' = Tail(inside) /\ t.slot = Head(inside)
                                  /\ t.trips <= 1 \/ ~t.body_valid
  <1> DEFINE M == 2^Loop!SlotBits
             u == Loop!ReorderByLoopingEmitPostamble(t).thread
             L == Len(inside)
  <1>0. M \in Nat /\ LoopThreads < M /\ LoopThreads \in Nat
    BY Wide DEF Loop!ReorderByLoopingAssumption
  <1>1. /\ u \in Loop!Threads /\ u.slot = t.slot
        /\ Loop!ReorderByLoopingEmitPostamble(t).again <=> (u.body_valid \/ t.slot # exit_slot)
        /\ u.body_valid \/ t.trips <= 1 \/ ~t.body_valid
    BY Postamble
  <1>2. /\ exit_slot \in 0..(M - 1) /\ loop_slot_allocator \in 0..(M - 1)
        /\ inside \in Seq(Loop!SlotIds) /\ Loop!SlotIds = 0..(M - 1)
        /\ L \in Nat /\ L <= LoopThreads
        /\ \A k \in 1..L : inside[k] = (exit_slot + k - 1) % M
        /\ loop_slot_allocator = (exit_slot + L) % M
        /\ entry \in Seq(Loop!Threads) /\ backward \in Seq(Loop!Threads)
    BY DEF Loop!IInv, Loop!TypeOK, Loop!InTurn, Loop!SlotIds
  <1>3. CASE Loop!ReorderByLoopingEmitPostamble(t).again
    <2>1. backward' = Append(backward, u) /\ UNCHANGED <<exit_slot, inside>>
      BY <1>3 DEF Loop!Pass
    <2> HIDE DEF u
    <2>2. Loop!TypeOK' /\ Loop!InTurn'
      BY <1>1, <1>2, <2>1 DEF Loop!IInv, Loop!TypeOK, Loop!InTurn
    <2> DEFINE a == Append(backward, u)
    <2>3. backward' = a /\ a = Append(backward, u)
      BY <2>1
    <2> HIDE DEF a
    <2>4. /\ Loop!AllInside(entry) /\ Loop!AllInside(backward) /\ Loop!OneEach(backward)
          /\ Loop!OneEach(entry) /\ Loop!Apart(entry, backward)
      BY DEF Loop!IInv
    <2>5. Loop!Apart(r, backward) /\ inside' = inside
      BY <2>1 DEF Loop!Apart
    <2>6. /\ Loop!AllInside(a) /\ Loop!OneEach(a)
          /\ Loop!Apart(entry, a) /\ Loop!Apart(r, a)
      BY <1>1, <1>2, <2>3, <2>4, <2>5, Enqueue
    <2>7. Loop!AllInside(entry)' /\ Loop!AllInside(backward)' /\ Loop!AllInside(block)'
      BY <2>3, <2>4, <2>5, <2>6 DEF Loop!AllInside
    <2>8. Loop!OneEach(entry)' /\ Loop!OneEach(backward)' /\ Loop!OneEach(block)'
      BY <2>3, <2>4, <2>6 DEF Loop!OneEach
    <2>9. /\ Loop!Apart(entry, backward)' /\ Loop!Apart(entry, block)'
          /\ Loop!Apart(backward, block)'
      BY <2>3, <2>6 DEF Loop!Apart
    <2> QED BY <2>1, <2>2, <2>7, <2>8, <2>9 DEF Loop!IInv
  <1>4. CASE ~Loop!ReorderByLoopingEmitPostamble(t).again
    <2>1. t.slot = exit_slot /\ u.slot = exit_slot /\ ~u.body_valid
      BY <1>1, <1>4
    <2>2. backward' = backward /\ exit_slot' = (exit_slot + 1) % M
          /\ inside' = Loop!RemoveFirst(inside, exit_slot)
      BY <1>4, <2>1 DEF Loop!Pass, Loop!NextSlot
    <2> HIDE DEF M, u
    <2>3. L > 0 /\ inside # <<>>
      BY <1>2
    <2>4. inside[1] = exit_slot
      <3>1. inside[1] = (exit_slot + 1 - 1) % M
        BY <1>2, <2>3
      <3>2. exit_slot + 1 - 1 = exit_slot
        BY <1>2
      <3>3. exit_slot % M = exit_slot
        BY <1>0, <1>2, Turns
      <3> QED BY <3>1, <3>2, <3>3
    <2>5. inside' = Tail(inside) /\ Head(inside) = exit_slot
      <3>1. inside \in Seq(Loop!SlotIds) /\ Head(inside) = inside[1]
        BY <1>2, <2>3
      <3>2. Loop!RemoveFirst(inside, inside[1]) = Tail(inside)
        BY <2>3, <3>1, RemoveHead
      <3> QED BY <2>2, <2>4, <3>1, <3>2
    <2>6. /\ inside' \in Seq(Loop!SlotIds) /\ Len(inside') = L - 1
          /\ \A k \in 1..(L - 1) : inside'[k] = inside[k + 1]
      BY <1>2, <2>3, <2>5
    <2>7. exit_slot' \in 0..(M - 1)
          /\ \A k \in 0..(L - 1) : (exit_slot' + k) % M = (exit_slot + k + 1) % M
      <3> HIDE DEF L
      <3>1. L < M
        BY <1>0, <1>2
      <3>2. \A k \in 0..(L - 1) : (((exit_slot + 1) % M) + k) % M = (exit_slot + k + 1) % M
        BY <1>0, <1>2, <3>1, Turns, ZenonT(60)
      <3>3. (exit_slot + 1) % M \in 0..(M - 1)
        BY <1>0, <1>2, <2>3, <3>1, Turns
      <3> QED BY <2>2, <3>2, <3>3
    <2>8. Loop!TypeOK'
      BY <1>2, <2>2, <2>6, <2>7 DEF Loop!TypeOK
    <2>9. Loop!InTurn'
      <3>1. \A k \in 1..Len(inside') : inside'[k] = (exit_slot' + k - 1) % M
        <4> SUFFICES ASSUME NEW k \in 1..(L - 1)
                     PROVE  inside'[k] = (exit_slot' + k - 1) % M
          BY <2>6
        <4>1. inside[k + 1] = (exit_slot + (k + 1) - 1) % M
          BY <1>2
        <4>2. (exit_slot' + (k - 1)) % M = (exit_slot + (k - 1) + 1) % M
          BY <1>2, <2>7
        <4>3. exit_slot + (k + 1) - 1 = exit_slot + (k - 1) + 1
              /\ exit_slot' + (k - 1) = exit_slot' + k - 1
          BY <1>2, <2>7
        <4> QED BY <2>6, <4>1, <4>2, <4>3
      <3>2. loop_slot_allocator' = (exit_slot' + Len(inside')) % M
        <4>1. (exit_slot' + (L - 1)) % M = (exit_slot + (L - 1) + 1) % M
          BY <1>2, <2>3, <2>7
        <4>2. exit_slot + (L - 1) + 1 = exit_slot + L
          BY <1>2
        <4> QED BY <1>2, <2>6, <4>1, <4>2
      <3> QED BY <1>0, <1>2, <2>6, <3>1, <3>2 DEF Loop!InTurn, M
    <2>10. ASSUME NEW s \in Seq(Loop!Threads), Loop!AllInside(s),
                  Lacks(s, t.slot)
           PROVE  \A i \in 1..Len(s) : \E k \in 1..Len(inside') : s[i].slot = inside'[k]
      <3> SUFFICES ASSUME NEW i \in 1..Len(s)
                   PROVE  \E k \in 1..Len(inside') : s[i].slot = inside'[k]
        OBVIOUS
      <3>1. PICK k \in 1..L : s[i].slot = inside[k]
        BY <2>10 DEF Loop!AllInside
      <3>2. k # 1
        BY <2>1, <2>4, <2>10, <3>1 DEF Lacks
      <3>3. k - 1 \in 1..(L - 1) /\ (k - 1) + 1 = k
        BY <1>2, <3>2
      <3>4. inside'[k - 1] = inside[k]
        BY <2>6, <3>3
      <3> QED BY <2>6, <3>1, <3>3, <3>4
    <2>11. Loop!AllInside(entry)' /\ Loop!AllInside(backward)' /\ Loop!AllInside(block)'
      <3>1. Loop!AllInside(entry) /\ Loop!AllInside(backward)
        BY DEF Loop!IInv
      <3> QED BY <1>2, <2>2, <2>10, <3>1 DEF Loop!AllInside
    <2>12. Loop!OneEach(entry)' /\ Loop!OneEach(backward)' /\ Loop!OneEach(block)'
      BY <2>2 DEF Loop!IInv, Loop!OneEach
    <2>13. /\ Loop!Apart(entry, backward)' /\ Loop!Apart(entry, block)'
           /\ Loop!Apart(backward, block)'
      BY <2>2 DEF Loop!IInv, Loop!Apart
    <2> QED BY <1>1, <2>1, <2>5, <2>8, <2>9, <2>11, <2>12, <2>13 DEF Loop!IInv
  <1> QED BY <1>3, <1>4

(* The head of a queue and the rest of it. *)
LEMMA Dequeue ==
    ASSUME NEW s \in Seq(Loop!Threads), s # <<>>, Loop!AllInside(s), Loop!OneEach(s),
           NEW t, t = Head(s), NEW r, r = Tail(s)
    PROVE  /\ t \in Loop!Threads /\ r \in Seq(Loop!Threads)
           /\ Loop!AllInside(r) /\ Loop!OneEach(r) /\ Lacks(r, t.slot)
           /\ \E k \in 1..Len(inside) : t.slot = inside[k]
           /\ \A x \in Loop!Range(s) : x.slot = t.slot => x = t
           /\ Within(r, s) /\ IsIn(t, s)
  <1>1. /\ Len(s) \in Nat /\ Len(s) > 0 /\ t \in Loop!Threads /\ r \in Seq(Loop!Threads)
        /\ t = s[1] /\ Len(r) = Len(s) - 1
        /\ \A i \in 1..Len(r) : r[i] = s[i + 1]
    OBVIOUS
  <1>2. 1 \in 1..Len(s) /\ \A i \in 1..Len(r) : i + 1 \in 1..Len(s)
    BY <1>1
  <1>3. Loop!AllInside(r)
    BY <1>1, <1>2 DEF Loop!AllInside
  <1>4. Loop!OneEach(r)
    <2> SUFFICES ASSUME NEW i \in 1..Len(r), NEW j \in 1..Len(r), r[i].slot = r[j].slot
                 PROVE  i = j
      BY DEF Loop!OneEach
    <2>1. i + 1 = j + 1
      BY <1>1, <1>2 DEF Loop!OneEach
    <2> QED BY <1>1, <2>1
  <1>5. \E k \in 1..Len(inside) : t.slot = inside[k]
    BY <1>1, <1>2 DEF Loop!AllInside
  <1>6. \A i \in 1..Len(s) : s[i].slot = t.slot => i = 1
    BY <1>1, <1>2 DEF Loop!OneEach
  <1>7. \A i \in 1..Len(r) : r[i].slot # t.slot
    <2> SUFFICES ASSUME NEW i \in 1..Len(r), r[i].slot = t.slot PROVE FALSE
      OBVIOUS
    <2>1. i + 1 = 1
      BY <1>1, <1>2, <1>6
    <2> QED BY <1>1, <2>1
  <1>8. \A x \in Loop!Range(s) : \E i \in 1..Len(s) : x = s[i]
    BY DEF Loop!Range
  <1>9. \A x \in Loop!Range(s) : x.slot = t.slot => x = t
    BY <1>1, <1>6, <1>8
  <1>10. \A i \in 1..Len(r) : \E j \in 1..Len(s) : r[i] = s[j]
    BY <1>1, <1>2
  <1> QED BY <1>1, <1>2, <1>3, <1>4, <1>5, <1>7, <1>9, <1>10 DEF Lacks, Within, IsIn

(* What is apart from a queue is apart from its rest and from its head. *)
LEMMA DequeueApart ==
    ASSUME NEW s, NEW other, Loop!Apart(s, other) \/ Loop!Apart(other, s),
           NEW t, NEW r, IsIn(t, s), Within(r, s)
    PROVE  /\ Lacks(other, t.slot) /\ Loop!Apart(r, other) /\ Loop!Apart(other, r)
           /\ \A x \in Loop!Range(other) : x.slot # t.slot
  <1>1. \A i \in 1..Len(s), j \in 1..Len(other) : s[i].slot # other[j].slot
    BY DEF Loop!Apart
  <1>2. \A i \in 1..Len(r), j \in 1..Len(other) : r[i].slot # other[j].slot
    BY <1>1 DEF Within
  <1>3. \A j \in 1..Len(other) : other[j].slot # t.slot
    BY <1>1 DEF IsIn
  <1>4. \A x \in Loop!Range(other) : \E i \in 1..Len(other) : x = other[i]
    BY DEF Loop!Range
  <1> QED BY <1>2, <1>3, <1>4 DEF Lacks, Loop!Apart

(* The block starts a thread from one of its two FIFOs. *)
LEMMA StartKeeps ==
    ASSUME Loop!IInv, Loop!StartNew \/ Loop!StartLooping
    PROVE  Loop!IInv' /\ inside' = inside
  <1>1. /\ Loop!TypeOK /\ Loop!InTurn /\ entry \in Seq(Loop!Threads)
        /\ backward \in Seq(Loop!Threads) /\ block \in Seq(Loop!Threads)
        /\ Loop!AllInside(entry) /\ Loop!AllInside(backward) /\ Loop!AllInside(block)
        /\ Loop!OneEach(entry) /\ Loop!OneEach(backward) /\ Loop!OneEach(block)
        /\ Loop!Apart(entry, backward) /\ Loop!Apart(entry, block)
        /\ Loop!Apart(backward, block)
    BY DEF Loop!IInv, Loop!TypeOK
  <1>2. UNCHANGED <<loop_slot_allocator, exit_slot, inside>>
    BY DEF Loop!StartNew, Loop!StartLooping
  <1>3. Loop!InTurn'
    BY <1>1, <1>2 DEF Loop!InTurn
  <1>5. CASE Loop!StartNew
    <2> DEFINE t == Head(entry)
               r == Tail(entry)
               a == Append(block, t)
    <2>1. entry # <<>> /\ entry' = r /\ block' = a /\ backward' = backward
      BY <1>5 DEF Loop!StartNew
    <2>2. t = Head(entry) /\ r = Tail(entry) /\ a = Append(block, t)
      OBVIOUS
    <2> HIDE DEF t, r, a
    <2>3. /\ t \in Loop!Threads /\ r \in Seq(Loop!Threads) /\ Loop!AllInside(r)
          /\ Loop!OneEach(r) /\ Lacks(r, t.slot)
          /\ \E k \in 1..Len(inside) : t.slot = inside[k]
          /\ Within(r, entry) /\ IsIn(t, entry)
      <3>1. /\ entry \in Seq(Loop!Threads) /\ entry # <<>>
            /\ Loop!AllInside(entry) /\ Loop!OneEach(entry)
        BY <1>1, <2>1
      <3> QED BY <2>2, <3>1, Dequeue
    <2>4. /\ Lacks(backward, t.slot) /\ Lacks(block, t.slot)
          /\ Loop!Apart(r, backward) /\ Loop!Apart(r, block)
      BY <1>1, <2>3, DequeueApart
    <2>5. /\ a \in Seq(Loop!Threads) /\ Loop!AllInside(a) /\ Loop!OneEach(a)
          /\ Loop!Apart(r, a) /\ Loop!Apart(backward, a)
      BY <1>1, <2>2, <2>3, <2>4, Enqueue
    <2>6. Loop!TypeOK'
      BY <1>1, <1>2, <2>1, <2>3, <2>5 DEF Loop!TypeOK
    <2>7. Loop!AllInside(entry)' /\ Loop!AllInside(backward)' /\ Loop!AllInside(block)'
      <3>1. inside' = inside /\ Loop!AllInside(r) /\ Loop!AllInside(a)
            /\ Loop!AllInside(entry) /\ Loop!AllInside(backward)
        BY <1>1, <1>2, <2>3, <2>5
      <3> QED BY <2>1, <3>1 DEF Loop!AllInside
    <2>8. Loop!OneEach(entry)' /\ Loop!OneEach(backward)' /\ Loop!OneEach(block)'
      BY <1>1, <2>1, <2>3, <2>5 DEF Loop!OneEach
    <2>9. /\ Loop!Apart(entry, backward)' /\ Loop!Apart(entry, block)'
          /\ Loop!Apart(backward, block)'
      BY <2>1, <2>4, <2>5 DEF Loop!Apart
    <2> QED BY <1>2, <1>3, <2>6, <2>7, <2>8, <2>9 DEF Loop!IInv
  <1>6. CASE Loop!StartLooping
    <2> DEFINE t == Head(backward)
               r == Tail(backward)
               a == Append(block, t)
    <2>1. backward # <<>> /\ backward' = r /\ block' = a /\ entry' = entry
      BY <1>6 DEF Loop!StartLooping
    <2>2. t = Head(backward) /\ r = Tail(backward) /\ a = Append(block, t)
      OBVIOUS
    <2> HIDE DEF t, r, a
    <2>3. /\ t \in Loop!Threads /\ r \in Seq(Loop!Threads) /\ Loop!AllInside(r)
          /\ Loop!OneEach(r) /\ Lacks(r, t.slot)
          /\ \E k \in 1..Len(inside) : t.slot = inside[k]
          /\ Within(r, backward) /\ IsIn(t, backward)
      <3>1. /\ backward \in Seq(Loop!Threads) /\ backward # <<>>
            /\ Loop!AllInside(backward) /\ Loop!OneEach(backward)
        BY <1>1, <2>1
      <3> QED BY <2>2, <3>1, Dequeue
    <2>4. /\ Lacks(entry, t.slot) /\ Lacks(block, t.slot)
          /\ Loop!Apart(entry, r) /\ Loop!Apart(r, block)
      BY <1>1, <2>3, DequeueApart
    <2>5. /\ a \in Seq(Loop!Threads) /\ Loop!AllInside(a) /\ Loop!OneEach(a)
          /\ Loop!Apart(r, a) /\ Loop!Apart(entry, a)
      BY <1>1, <2>2, <2>3, <2>4, Enqueue
    <2>6. Loop!TypeOK'
      BY <1>1, <1>2, <2>1, <2>3, <2>5 DEF Loop!TypeOK
    <2>7. Loop!AllInside(entry)' /\ Loop!AllInside(backward)' /\ Loop!AllInside(block)'
      <3>1. inside' = inside /\ Loop!AllInside(r) /\ Loop!AllInside(a)
            /\ Loop!AllInside(entry) /\ Loop!AllInside(backward)
        BY <1>1, <1>2, <2>3, <2>5
      <3> QED BY <2>1, <3>1 DEF Loop!AllInside
    <2>8. Loop!OneEach(entry)' /\ Loop!OneEach(backward)' /\ Loop!OneEach(block)'
      BY <1>1, <2>1, <2>3, <2>5 DEF Loop!OneEach
    <2>9. /\ Loop!Apart(entry, backward)' /\ Loop!Apart(entry, block)'
          /\ Loop!Apart(backward, block)'
      BY <2>1, <2>4, <2>5 DEF Loop!Apart
    <2> QED BY <1>2, <1>3, <2>6, <2>7, <2>8, <2>9 DEF Loop!IInv
  <1> QED BY <1>5, <1>6

(* The thread at the end of the pipeline goes round again or leaves. *)
LEMMA EndPassKeeps ==
    ASSUME PowersOfTwo, Loop!ReorderByLoopingAssumption, Loop!IInv, Loop!EndPass
    PROVE  /\ Loop!IInv'
           /\ inside' # inside =>
                /\ inside' = Tail(inside)
                /\ \A x \in Loop!Range(entry) \cup Loop!Range(backward) \cup Loop!Range(block) :
                     x.slot = Head(inside) => x.trips <= 1 \/ ~x.body_valid
  <1> DEFINE t == Head(block)
             r == Tail(block)
  <1>1. /\ block # <<>> /\ block' = r /\ entry' = entry
        /\ loop_slot_allocator' = loop_slot_allocator
        /\ Loop!Pass(Loop!ReorderByLoopingEmitPostamble(t))
    BY DEF Loop!EndPass
  <1>2. t = Head(block) /\ r = Tail(block)
    OBVIOUS
  <1> HIDE DEF t, r
  <1>3. /\ block \in Seq(Loop!Threads) /\ Loop!AllInside(block) /\ Loop!OneEach(block)
        /\ Loop!Apart(entry, block) /\ Loop!Apart(backward, block)
    BY DEF Loop!IInv, Loop!TypeOK
  <1>4. /\ t \in Loop!Threads /\ r \in Seq(Loop!Threads) /\ Loop!AllInside(r)
        /\ Loop!OneEach(r) /\ Lacks(r, t.slot)
        /\ \E k \in 1..Len(inside) : t.slot = inside[k]
        /\ \A x \in Loop!Range(block) : x.slot = t.slot => x = t
        /\ Within(r, block) /\ IsIn(t, block)
    BY <1>1, <1>2, <1>3, Dequeue
  <1>5. /\ Lacks(entry, t.slot) /\ Lacks(backward, t.slot)
        /\ Loop!Apart(entry, r) /\ Loop!Apart(backward, r)
        /\ \A x \in Loop!Range(entry) \cup Loop!Range(backward) : x.slot # t.slot
    BY <1>3, <1>4, DequeueApart
  <1>6. /\ Loop!IInv'
        /\ inside' # inside => /\ inside' = Tail(inside) /\ t.slot = Head(inside)
                               /\ t.trips <= 1 \/ ~t.body_valid
    BY <1>1, <1>4, <1>5, PassKeeps
  <1> QED BY <1>4, <1>5, <1>6

(* A thread enters the loop: its id is new. *)
LEMMA EnterKeeps ==
    ASSUME PowersOfTwo, Loop!ReorderByLoopingAssumption, Loop!IInv,
           NEW predicate \in BOOLEAN, NEW trips \in 1..MaxTrips,
           Loop!ReorderByLoopingEmitPreamble(predicate, trips)
    PROVE  Loop!IInv' /\ Len(inside') > Len(inside)
  <1> DEFINE M == 2^Loop!SlotBits
             L == Len(inside)
             t == Loop!Thread(loop_slot_allocator, predicate, trips)
  <1>0. M \in Nat /\ LoopThreads < M /\ LoopThreads \in Nat /\ MaxTrips \in Nat
    BY Wide DEF Loop!ReorderByLoopingAssumption
  <1>1. /\ exit_slot \in 0..(M - 1) /\ loop_slot_allocator \in 0..(M - 1)
        /\ inside \in Seq(Loop!SlotIds) /\ Loop!SlotIds = 0..(M - 1)
        /\ entry \in Seq(Loop!Threads) /\ backward \in Seq(Loop!Threads)
        /\ block \in Seq(Loop!Threads) /\ L \in Nat
        /\ \A k \in 1..L : inside[k] = (exit_slot + k - 1) % M
        /\ loop_slot_allocator = (exit_slot + L) % M
    BY DEF Loop!IInv, Loop!TypeOK, Loop!InTurn, Loop!SlotIds
  <1>2. /\ L < LoopThreads
        /\ loop_slot_allocator' = (loop_slot_allocator + 1) % M
        /\ entry' = Append(entry, t) /\ inside' = Append(inside, loop_slot_allocator)
        /\ UNCHANGED <<exit_slot, backward, block>>
    BY DEF Loop!ReorderByLoopingEmitPreamble, Loop!NextSlot
  <1>3. t \in Loop!Threads /\ t.slot = loop_slot_allocator
    BY <1>0, <1>1 DEF Loop!Threads, Loop!Thread
  <1> HIDE DEF M, t
  <1>4. /\ Len(inside') = L + 1 /\ inside' \in Seq(Loop!SlotIds)
        /\ inside'[L + 1] = loop_slot_allocator
        /\ \A k \in 1..L : inside'[k] = inside[k]
    BY <1>1, <1>2
  <1>5. /\ Len(entry') = Len(entry) + 1 /\ entry' \in Seq(Loop!Threads)
        /\ entry'[Len(entry) + 1] = t
        /\ \A i \in 1..Len(entry) : entry'[i] = entry[i]
    BY <1>1, <1>2, <1>3
  <1> HIDE DEF L
  <1>6. loop_slot_allocator' = (exit_slot + (L + 1)) % M /\ loop_slot_allocator' \in 0..(M - 1)
    <2> DEFINE K == L + 1
    <2>1. K \in Nat /\ K < M /\ L \in 0..(K - 1) /\ K \in 0..K
      BY <1>0, <1>1, <1>2
    <2> HIDE DEF K
    <2>2. (((exit_slot + L) % M) + 1) % M = (exit_slot + L + 1) % M
      <3>1. \A k \in 0..(K - 1) :
              (((exit_slot + k) % M) + 1) % M = (exit_slot + k + 1) % M
        BY <1>0, <1>1, <2>1, Turns, ZenonT(60)
      <3> QED BY <2>1, <3>1
    <2>3. (exit_slot + K) % M \in 0..(M - 1)
      BY <1>0, <1>1, <2>1, Turns
    <2>4. exit_slot + L + 1 = exit_slot + K
      BY <1>1 DEF K
    <2> QED BY <1>1, <1>2, <2>2, <2>3, <2>4 DEF K
  <1>7. \A k \in 1..L : inside[k] # loop_slot_allocator
    <2> SUFFICES ASSUME NEW k \in 1..L PROVE inside[k] # loop_slot_allocator
      OBVIOUS
    <2>1. \A n \in 0..(2 * M - 1) : n % M = IF n < M THEN n ELSE n - M
      BY <1>0, Remainder
    <2> DEFINE x == exit_slot + k - 1
               y == exit_slot + L
    <2>2. x \in 0..(2 * M - 1) /\ y \in 0..(2 * M - 1) /\ x < y /\ y < x + M
      BY <1>0, <1>1, <1>2
    <2>3. inside[k] = x % M /\ loop_slot_allocator = y % M
      BY <1>1
    <2> HIDE DEF x, y
    <2>4. /\ x % M = IF x < M THEN x ELSE x - M
          /\ y % M = IF y < M THEN y ELSE y - M
      BY <2>1, <2>2
    <2>5. x % M # y % M
      BY <1>0, <2>2, <2>4
    <2> QED BY <2>3, <2>5
  <1>8. Loop!TypeOK'
    BY <1>1, <1>2, <1>4, <1>5, <1>6 DEF Loop!TypeOK
  <1>9. Loop!InTurn'
    <2>1. inside'[L + 1] = (exit_slot + (L + 1) - 1) % M
      <3>1. exit_slot + (L + 1) - 1 = exit_slot + L
        BY <1>1
      <3> QED BY <1>1, <1>4, <3>1
    <2>2. \A k \in 1..(L + 1) : inside'[k] = (exit_slot + k - 1) % M
      <3> SUFFICES ASSUME NEW k \in 1..(L + 1), k # L + 1
                   PROVE  inside'[k] = (exit_slot + k - 1) % M
        BY <2>1
      <3>1. k \in 1..L
        BY <1>1
      <3> QED BY <1>1, <1>4, <3>1
    <2>3. Len(inside') <= LoopThreads
      BY <1>0, <1>1, <1>2, <1>4
    <2> QED BY <1>2, <1>4, <1>6, <2>2, <2>3 DEF Loop!InTurn, M
  <1>10. \A k \in 1..L : k \in 1..(L + 1)
    BY <1>1
  <1>11. Loop!AllInside(backward)' /\ Loop!AllInside(block)'
    <2>1. ASSUME NEW queue, Loop!AllInside(queue), NEW i \in 1..Len(queue)
          PROVE  \E k \in 1..(L + 1) : queue[i].slot = inside'[k]
      <3>1. PICK k \in 1..L : queue[i].slot = inside[k]
        BY <2>1 DEF Loop!AllInside, L
      <3> QED BY <1>4, <1>10, <3>1
    <2>2. Loop!AllInside(backward) /\ Loop!AllInside(block)
      BY DEF Loop!IInv
    <2> QED BY <1>2, <1>4, <2>1, <2>2 DEF Loop!AllInside
  <1>12. Loop!AllInside(entry)'
    <2> SUFFICES ASSUME NEW i \in 1..(Len(entry) + 1)
                 PROVE  \E k \in 1..(L + 1) : entry'[i].slot = inside'[k]
      BY <1>4, <1>5 DEF Loop!AllInside
    <2>1. CASE i = Len(entry) + 1
      <3>1. L + 1 \in 1..(L + 1)
        BY <1>1
      <3> QED BY <1>3, <1>4, <1>5, <2>1, <3>1
    <2>2. CASE i # Len(entry) + 1
      <3>1. i \in 1..Len(entry)
        BY <1>1, <2>2
      <3>2. PICK k \in 1..L : entry[i].slot = inside[k]
        BY <3>1 DEF Loop!IInv, Loop!AllInside, L
      <3> QED BY <1>4, <1>5, <1>10, <3>1, <3>2
    <2> QED BY <2>1, <2>2
  <1>13. /\ \A i \in 1..Len(entry) : entry[i].slot # t.slot
         /\ \A i \in 1..Len(backward) : backward[i].slot # t.slot
         /\ \A i \in 1..Len(block) : block[i].slot # t.slot
    BY <1>3, <1>7 DEF Loop!IInv, Loop!AllInside, L
  <1>14. Loop!OneEach(entry)'
    <2> SUFFICES ASSUME NEW i \in 1..(Len(entry) + 1), NEW j \in 1..(Len(entry) + 1),
                        entry'[i].slot = entry'[j].slot
                 PROVE  i = j
      BY <1>5 DEF Loop!OneEach
    <2>1. \A k \in 1..(Len(entry) + 1) : k = Len(entry) + 1 \/ k \in 1..Len(entry)
      BY <1>1
    <2> QED BY <1>5, <1>13, <2>1 DEF Loop!IInv, Loop!OneEach
  <1>15. Loop!OneEach(backward)' /\ Loop!OneEach(block)' /\ Loop!Apart(backward, block)'
    BY <1>2 DEF Loop!IInv, Loop!OneEach, Loop!Apart
  <1>16. Loop!Apart(entry, backward)' /\ Loop!Apart(entry, block)'
    <2>1. ASSUME NEW queue, Loop!Apart(entry, queue),
                 \A j \in 1..Len(queue) : queue[j].slot # t.slot,
                 NEW i \in 1..(Len(entry) + 1), NEW j \in 1..Len(queue)
          PROVE  entry'[i].slot # queue[j].slot
      <3>1. i = Len(entry) + 1 \/ i \in 1..Len(entry)
        BY <1>1
      <3> QED BY <1>5, <2>1, <3>1 DEF Loop!Apart
    <2>2. Loop!Apart(entry, backward) /\ Loop!Apart(entry, block)
      BY DEF Loop!IInv
    <2> QED BY <1>2, <1>5, <1>13, <2>1, <2>2 DEF Loop!Apart
  <1>17. Len(inside') > Len(inside)
    BY <1>1, <1>4 DEF L
  <1> QED BY <1>8, <1>9, <1>11, <1>12, <1>14, <1>15, <1>16, <1>17 DEF Loop!IInv

(* For every FIFO depth, number of threads and number of trips a loop      *)
(* reordered by looping lets its threads out in the order in which they    *)
(* entered, and only when they are done.                                   *)
THEOREM LeavesInOrderAndDoneHolds == PowersOfTwo => (Loop!Spec => LeavesInOrderAndDone)
  <1> SUFFICES ASSUME PowersOfTwo PROVE Loop!Spec => LeavesInOrderAndDone
    OBVIOUS
  <1> USE LoopAssumption
  <1> DEFINE Leaves == 
          inside' # inside /\ Len(inside') < Len(inside) =>
          /\ inside' = Tail(inside)
          /\ \A t \in Loop!Range(entry) \cup Loop!Range(backward) \cup Loop!Range(block) :
                t.slot = Head(inside) => t.trips <= 1 \/ ~t.body_valid
  <1>1. Loop!Init => Loop!IInv
    <2> SUFFICES ASSUME Loop!Init PROVE Loop!IInv
      OBVIOUS
    <2>0. 2^Loop!SlotBits \in Nat /\ 0 < 2^Loop!SlotBits /\ LoopThreads \in Nat
      BY Wide DEF Loop!ReorderByLoopingAssumption
    <2> DEFINE M == 2^Loop!SlotBits
    <2> HIDE DEF M
    <2>1. M \in Nat /\ 0 < M /\ (0 + 0) % M = 0
      BY <2>0 DEF M
    <2>2. Loop!TypeOK
      BY <2>1 DEF Loop!Init, Loop!TypeOK, Loop!SlotIds, M
    <2>3. Loop!InTurn
      BY <2>0, <2>1 DEF Loop!Init, Loop!InTurn, M
    <2> QED BY <2>2, <2>3 DEF Loop!Init, Loop!IInv, Loop!AllInside, Loop!OneEach, Loop!Apart
  <1>2. Loop!IInv /\ [Loop!Next]_(Loop!vars) => Loop!IInv'
    <2>1. Loop!IInv /\ Loop!Next => Loop!IInv'
      BY StartKeeps, EndPassKeeps, EnterKeeps DEF Loop!Next, Loop!Block
    <2>2. Loop!IInv /\ UNCHANGED Loop!vars => Loop!IInv'
      <3> SUFFICES ASSUME Loop!IInv, UNCHANGED Loop!vars PROVE Loop!IInv'
        OBVIOUS
      <3>1. UNCHANGED <<loop_slot_allocator, exit_slot, entry, backward, block, inside>>
        BY DEF Loop!vars
      <3>2. Loop!TypeOK' /\ Loop!InTurn'
        BY <3>1 DEF Loop!IInv, Loop!TypeOK, Loop!InTurn
      <3>3. Loop!AllInside(entry)' /\ Loop!AllInside(backward)' /\ Loop!AllInside(block)'
        BY <3>1 DEF Loop!IInv, Loop!AllInside
      <3> QED BY <3>1, <3>2, <3>3 DEF Loop!IInv, Loop!OneEach, Loop!Apart
    <2> QED BY <2>1, <2>2
  <1>3. Loop!IInv /\ [Loop!Next]_(Loop!vars) => [Leaves]_(Loop!vars)
    <2> SUFFICES ASSUME Loop!IInv, Loop!Next PROVE Leaves
      OBVIOUS
    <2>1. CASE Loop!StartNew \/ Loop!StartLooping
      BY <2>1, StartKeeps
    <2>2. ASSUME NEW predicate \in BOOLEAN, NEW trips \in 1..MaxTrips,
                 Loop!ReorderByLoopingEmitPreamble(predicate, trips)
          PROVE  Leaves
      <3>1. Len(inside') > Len(inside)
        BY <2>2, EnterKeeps
      <3>2. inside \in Seq(Loop!SlotIds) /\ inside' \in Seq(Loop!SlotIds)
        BY <2>2, EnterKeeps DEF Loop!IInv, Loop!TypeOK
      <3> QED BY <3>1, <3>2
    <2>3. CASE Loop!EndPass
      BY <2>3, EndPassKeeps
    <2> QED BY <2>1, <2>2, <2>3 DEF Loop!Next, Loop!Block
  <1> QED BY <1>1, <1>2, <1>3, PTL DEF Loop!Spec, LeavesInOrderAndDone, Loop!LeavesInOrderAndDone
=============================================================================
