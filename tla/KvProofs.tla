------------------------------ MODULE KvProofs ------------------------------
(***************************************************************************)
(* For every set of keys and values, every number of banks and every bank  *)
(* size that open accepts: the key-value store over flash is a durable     *)
(* map, no record is programmed over octets that are not erased, and no    *)
(* replay overflows the mirror.                                            *)
(*                                                                         *)
(* The invariant says what each bank is good for.  While the device runs   *)
(* the active bank replays to the mirror up to the cursor and is blank     *)
(* behind the record that may have failed there; every other bank is older *)
(* than the active one, except that a compaction whose header write failed *)
(* may have left the next bank newer, and then it holds the whole mirror.  *)
(* While it is off, one bank is newer than all others and its replay ends  *)
(* at a blank or torn cell with nothing behind it.                         *)
(***************************************************************************)
EXTENDS WearLeveledKv, FiniteSetTheorems, WellFoundedInduction, TLAPS

Fits(m) == IsFiniteSet(LiveKeys(m)) /\ Cardinality(LiveKeys(m)) <= Entries

\* The first n cells replay to m, at no record to more than a mirror holds.
Prefix(cells, n, m) ==
    /\ n \in 0 .. BankRecs
    /\ \A i \in 1 .. n : ~Stops(cells[i])
    /\ \A j \in 1 .. n : Fits(ReplayTo(cells, j))
    /\ ReplayTo(cells, n) = m /\ Fits(m)

BlankBehind(cells, n) == \A i \in Cells : i > n => cells[i] = Blank

\* A replay of the bank ends, and ends with m.
Good(cells, m) ==
    \E n \in 0 .. BankRecs :
        /\ Prefix(cells, n, m)
        /\ BlankBehind(cells, n + 1)
        /\ n < BankRecs => Stops(cells[n + 1])

\* Bank b is newer than every other.
Leads(bs, b) ==
    /\ b \in BankIds /\ bs[b].hdr > 0
    /\ \A c \in BankIds \ {b} : bs[c].hdr < bs[b].hdr

\* A boot finds m.
Kept(bs, m) ==
    \/ ValidBanks(bs) = {} /\ m = EmptyMap
    \/ \E b \in BankIds : Leads(bs, b) /\ Good(bs[b].cells, m)

\* Bank b replays to m up to record n, where a write of o may have failed;
\* generation 0 stands for a medium without a bank.
Ready(bs, b, gen, n, m, o) ==
    /\ bs[b].hdr = gen
    /\ IF gen = 0 THEN m = EmptyMap
       ELSE /\ Prefix(bs[b].cells, n, m)
            /\ BlankBehind(bs[b].cells, n + 1)
            /\ n < BankRecs => bs[b].cells[n + 1] \in {Blank, TornLength, TornPayload, Record(o)}

\* The other banks are older, or the next one holds all of m.
Older(bs, b, next, gen, m) ==
    /\ \A c \in BankIds \ {b, next} : bs[c].hdr = 0 \/ bs[c].hdr < gen
    /\ \/ bs[next].hdr = 0 \/ bs[next].hdr < gen
       \/ bs[next].hdr = gen + 1 /\ Good(bs[next].cells, m)

\* The banks while the device runs.
BanksInv ==
    /\ Ready(banks, active, generation, cursor, mirror, failed)
    /\ Older(banks, active, NextBank, generation, mirror)
    /\ generation = 0 => failed = NoOp /\ compaction_pending
    /\ ~compaction_pending =>
          /\ banks[NextBank].hdr # generation + 1
          /\ cursor < BankRecs => banks[active].cells[cursor + 1] = Blank

\* The part of the mirror the snapshot has pushed.
Pushed == [k \in Keys |-> IF k \in todo THEN Absent ELSE mirror[k]]

\* The operation under way.
OpInv ==
    /\ Fits(mirror)
    /\ op = NoOp <=> pc = "idle"
    /\ RemovesAbsent(mirror, op) <=> pc = "return"
    /\ Fits(Apply(mirror, op))
    /\ Fits(Apply(mirror, failed))
    /\ pc = "record" => ~compaction_pending /\ cursor < BankRecs
    /\ pc \in {"erase", "snapshot"} => compaction_pending /\ generation < MaxGen
    /\ pc = "snapshot" =>
          /\ banks[NextBank].hdr = 0
          /\ todo \in SUBSET LiveKeys(mirror)
          /\ wcur + Cardinality(todo) = Cardinality(LiveKeys(mirror))
          /\ Prefix(banks[NextBank].cells, wcur, Pushed)
          /\ BlankBehind(banks[NextBank].cells, wcur)

OffInv ==
    /\ active = Banks - 1 /\ cursor = 0 /\ generation = 0 /\ compaction_pending
    /\ op = NoOp /\ pc = "idle" /\ failed = NoOp
    /\ Kept(banks, Recovered(banks))

IInv ==
    /\ TypeOK
    /\ IF up THEN BanksInv /\ OpInv ELSE OffInv

-----------------------------------------------------------------------------
(* The mirror.                                                             *)

\* The counts, as single facts.
LEMMA Counts ==
    /\ Entries \in Nat \ {0} /\ Banks \in Nat /\ Banks >= 2
    /\ BankRecs \in Nat /\ Entries + 1 <= BankRecs /\ MaxGen \in Nat
  BY EntriesAssumption, BanksAssumption, BankRecsAssumption, MaxGenAssumption

\* Mirror::upsert and Mirror::remove change the one key.
LEMMA ApplyFacts ==
    ASSUME NEW m \in Maps, NEW o \in Ops \cup {NoOp}
    PROVE  /\ Apply(m, o) \in Maps
           /\ o \in Ops => /\ o.key \in Keys
                           /\ \A k \in Keys : Apply(m, o)[k] =
                                 IF k = o.key THEN Apply(EmptyMap, o)[k] ELSE m[k]
           /\ o \in Puts => Apply(m, o) = [m EXCEPT ![o.key] = o.val]
           /\ o \in Removes => Apply(m, o) = [m EXCEPT ![o.key] = Absent]
  <1>1. CASE o \in Puts
    BY <1>1 DEF Apply, Maps, Puts, Removes, EmptyMap
  <1>2. CASE o \in Removes
    BY <1>2 DEF Apply, Maps, Puts, Removes, EmptyMap
  <1>3. CASE o = NoOp
    BY <1>3 DEF Apply, NoOp, Ops, Puts, Removes
  <1>. QED BY <1>1, <1>2, <1>3 DEF Ops

\* NoOp changes nothing, and is no operation.
LEMMA NoOpFacts ==
    /\ NoOp \notin Ops
    /\ \A m : Apply(m, NoOp) = m
    /\ \A m : ~RemovesAbsent(m, NoOp)
  BY DEF NoOp, Ops, Puts, Removes, Apply, RemovesAbsent

\* What fits, fits without some of its keys.
LEMMA FewerFit ==
    ASSUME NEW m \in Maps, NEW l \in Maps, Fits(m), LiveKeys(l) \subseteq LiveKeys(m)
    PROVE  Fits(l)
  <1>0. PICK S, T : S = LiveKeys(l) /\ T = LiveKeys(m)
    OBVIOUS
  <1>1. S \in SUBSET T /\ IsFiniteSet(T)
    BY <1>0 DEF Fits
  <1>2. IsFiniteSet(S) /\ Cardinality(S) <= Cardinality(T) /\ Cardinality(S) \in Nat
        /\ Cardinality(T) \in Nat
    BY <1>1, FS_Subset, FS_CardinalityType
  <1>3. Cardinality(T) <= Entries
    BY <1>0 DEF Fits
  <1>4. Cardinality(S) <= Entries
    BY <1>2, <1>3, Counts
  <1>. QED BY <1>0, <1>2, <1>4 DEF Fits

\* An empty map fits.
LEMMA EmptyFits == EmptyMap \in Maps /\ Fits(EmptyMap) /\ LiveKeys(EmptyMap) = {}
  <1>1. LiveKeys(EmptyMap) = {} /\ EmptyMap \in Maps
    BY DEF LiveKeys, Contains, EmptyMap, Maps
  <1>2. IsFiniteSet({}) /\ Cardinality({}) = 0
    BY FS_EmptySet
  <1>. QED BY <1>1, <1>2, Counts DEF Fits

\* put and remove are started only when the mirror has room for what they do.
LEMMA RoomFits ==
    ASSUME NEW m \in Maps, NEW o \in Ops, Fits(m),
           o \in Puts => CanUpsert(m, o.key)
    PROVE  Fits(Apply(m, o))
  <1>1. /\ Apply(m, o) \in Maps /\ o.key \in Keys
        /\ o \in Puts => Apply(m, o) = [m EXCEPT ![o.key] = o.val]
        /\ o \in Removes => Apply(m, o) = [m EXCEPT ![o.key] = Absent]
    BY ApplyFacts
  <1>2. CASE o \in Removes
    <2>1. LiveKeys(Apply(m, o)) \subseteq LiveKeys(m)
      BY <1>1, <1>2 DEF LiveKeys, Contains, Maps
    <2>. QED BY <1>1, <2>1, FewerFit
  <1>3. CASE o \in Puts /\ Contains(m, o.key)
    <2>1. LiveKeys(Apply(m, o)) \subseteq LiveKeys(m)
      BY <1>1, <1>3 DEF LiveKeys, Contains, Maps
    <2>. QED BY <1>1, <2>1, FewerFit
  <1>4. CASE o \in Puts /\ ~Contains(m, o.key)
    <2>0. PICK S, T : S = LiveKeys(m) /\ T = LiveKeys(Apply(m, o))
      OBVIOUS
    <2>1. T \subseteq S \cup {o.key} /\ o.key \notin S
      BY <1>1, <1>4, <2>0 DEF LiveKeys, Contains, Maps
    <2>2. IsFiniteSet(S) /\ Cardinality(S) < Entries
      BY <1>4, <2>0 DEF CanUpsert, Fits
    <2>3. IsFiniteSet(S \cup {o.key}) /\ Cardinality(S \cup {o.key}) = Cardinality(S) + 1
      BY <2>1, <2>2, FS_AddElement
    <2>4. IsFiniteSet(T) /\ Cardinality(T) <= Cardinality(S \cup {o.key}) /\ Cardinality(T) \in Nat
          /\ Cardinality(S) \in Nat
      BY <2>1, <2>2, <2>3, FS_Subset, FS_CardinalityType
    <2>5. Cardinality(T) <= Entries
      BY <2>2, <2>3, <2>4, Counts
    <2>. QED BY <2>0, <2>4, <2>5 DEF Fits
  <1>. QED BY <1>2, <1>3, <1>4 DEF Ops

-----------------------------------------------------------------------------
(* Replay.                                                                 *)

\* A set of positions that is not empty has a last one.
LEMMA MaxIsLast ==
    ASSUME NEW n \in Nat, NEW S \in SUBSET (1 .. n), S # {}
    PROVE  Max(S) \in S /\ \A y \in S : y <= Max(S)
  <1> DEFINE T == {m \in 0 .. n : n - m \in S}
  <1>1. \A y \in S : n - y \in T /\ y \in 1 .. n
    OBVIOUS
  <1>2. PICK y \in S : TRUE
    OBVIOUS
  <1>3. T \in SUBSET Nat /\ n - y \in T
    BY <1>1
  <1>4. \E m \in T : \A x \in T : <<x, m>> \notin OpToRel(<, Nat)
    <2>. HIDE DEF T
    <2>. QED BY <1>3, WFMin, NatLessThanWellFounded
  <1>5. \A m, x \in Nat : <<x, m>> \notin OpToRel(<, Nat) => m <= x
    BY DEF OpToRel
  <1>6. PICK m \in T : \A x \in T : m <= x
    BY <1>3, <1>4, <1>5
  <1>7. n - m \in S /\ \A x \in S : n - m >= x
    BY <1>1, <1>6
  <1>. QED BY <1>7 DEF Max

\* The last record of a prefix is the one behind which there is none.
LEMMA MaxOfAll ==
    ASSUME NEW S, NEW x \in S, S \subseteq Nat, \A y \in S : y <= x
    PROVE  Max(S) = x
  <1>1. x \in S /\ \A y \in S : x >= y
    OBVIOUS
  <1>2. Max(S) \in S /\ \A y \in S : Max(S) >= y
    BY <1>1 DEF Max
  <1>3. PICK y \in Nat : y = Max(S)
    BY <1>2
  <1>4. y >= x /\ y <= x /\ x \in Nat
    BY <1>1, <1>2, <1>3
  <1>5. y = x
    BY <1>4
  <1>. QED BY <1>3, <1>5

\* What the length pair, the CRC and the record of a cell tell.
LEMMA CellFacts ==
    ASSUME NEW c \in CellStates
    PROVE  /\ c \in {Blank, TornLength, TornPayload} \/ (c.kind = "rec" /\ c.op \in Ops /\ c = Record(c.op))
           /\ c.kind = "rec" => c.op \in Ops /\ c = Record(c.op) /\ ~Stops(c)
           /\ c \in {Blank, TornLength} <=> Stops(c)
           /\ c = TornPayload => c.kind # "rec" /\ ~Stops(c)
           /\ Stops(c) => c.kind # "rec"
  BY DEF CellStates, Records, Record, Blank, TornLength, TornPayload, Stops

\* Records and torn payloads are walked over.
LEMMA WrittenFacts ==
    /\ Blank \in CellStates /\ TornLength \in CellStates /\ TornPayload \in CellStates
    /\ Stops(Blank) /\ Stops(TornLength) /\ ~Stops(TornPayload) /\ TornPayload.kind # "rec"
    /\ Blank # TornLength /\ Blank # TornPayload
    /\ \A o : Record(o).kind = "rec" /\ Record(o).op = o /\ ~Stops(Record(o)) /\ Record(o) # Blank
    /\ \A o \in Ops : Record(o) \in CellStates
    /\ \A o, p : Record(o) = Record(p) => o = p
  BY DEF CellStates, Records, Record, Blank, TornLength, TornPayload, Stops

\* A prefix of a bank replays to a map.
LEMMA ReplayType ==
    ASSUME NEW cells \in [Cells -> CellStates], NEW n \in 0 .. BankRecs
    PROVE  ReplayTo(cells, n) \in Maps
  <1>1. ASSUME NEW k \in Keys, IntactOn(cells, n, k) # {}
        PROVE  Apply(EmptyMap, cells[Max(IntactOn(cells, n, k))].op)[k] \in Vals \cup {Absent}
    <2>0. PICK S : S = IntactOn(cells, n, k)
      OBVIOUS
    <2>1. S \in SUBSET (1 .. n) /\ S # {} /\ n \in Nat
      BY <1>1, <2>0, Counts DEF IntactOn
    <2>2. Max(S) \in S
      BY <2>1, MaxIsLast
    <2>3. Max(S) \in Cells /\ cells[Max(S)].kind = "rec"
      BY <2>0, <2>1, <2>2, Counts DEF IntactOn, Cells
    <2>4. cells[Max(S)].op \in Ops
      BY <2>3, CellFacts
    <2>5. Apply(EmptyMap, cells[Max(S)].op) \in Maps
      BY <2>4, ApplyFacts, EmptyFits
    <2>. QED BY <2>0, <2>5 DEF Maps
  <1>. QED BY <1>1 DEF ReplayTo, Maps

\* Two banks that agree on their first cells replay them alike.
LEMMA ReplaySame ==
    ASSUME NEW cells \in [Cells -> CellStates], NEW other \in [Cells -> CellStates],
           NEW n \in 0 .. BankRecs, \A i \in 1 .. n : cells[i] = other[i]
    PROVE  ReplayTo(cells, n) = ReplayTo(other, n)
  <1>1. ASSUME NEW k \in Keys
        PROVE  IntactOn(cells, n, k) = IntactOn(other, n, k)
    <2>1. \A i \in 1 .. n : Walked(cells, i) <=> Walked(other, i)
      BY Counts DEF Walked
    <2>. QED BY <2>1 DEF IntactOn
  <1>2. ASSUME NEW k \in Keys, IntactOn(cells, n, k) # {}
        PROVE  cells[Max(IntactOn(cells, n, k))] = other[Max(IntactOn(cells, n, k))]
    <2>0. PICK S : S = IntactOn(cells, n, k)
      OBVIOUS
    <2>1. S \in SUBSET (1 .. n) /\ S # {} /\ n \in Nat
      BY <1>2, <2>0, Counts DEF IntactOn
    <2>2. Max(S) \in S
      BY <2>1, MaxIsLast
    <2>. QED BY <2>0, <2>1, <2>2
  <1>. QED BY <1>1, <1>2 DEF ReplayTo

\* No cell replays to nothing.
LEMMA ReplayNone ==
    ASSUME NEW cells
    PROVE  ReplayTo(cells, 0) = EmptyMap
  <1>1. \A k \in Keys : IntactOn(cells, 0, k) = {}
    BY DEF IntactOn
  <1>. QED BY <1>1 DEF ReplayTo, EmptyMap

\* One more record is one more operation; a torn payload is none.
LEMMA ReplayStep ==
    ASSUME NEW cells \in [Cells -> CellStates], NEW n \in 0 .. BankRecs, n < BankRecs,
           \A i \in 1 .. n + 1 : ~Stops(cells[i])
    PROVE  /\ cells[n + 1] = TornPayload => ReplayTo(cells, n + 1) = ReplayTo(cells, n)
           /\ \A o \in Ops : cells[n + 1] = Record(o) =>
                 ReplayTo(cells, n + 1) = Apply(ReplayTo(cells, n), o)
  <1>. USE Counts
  <1>0. n \in Nat /\ n + 1 \in 0 .. BankRecs
    OBVIOUS
  <1>1. \A i \in 1 .. n + 1 : Walked(cells, i)
    BY DEF Walked
  <1>2. CASE cells[n + 1] = TornPayload
    <2>1. \A k \in Keys : IntactOn(cells, n + 1, k) = IntactOn(cells, n, k)
      BY <1>0, <1>2, WrittenFacts DEF IntactOn
    <2>. QED BY <1>2, <2>1, WrittenFacts DEF ReplayTo
  <1>3. ASSUME NEW o \in Ops, cells[n + 1] = Record(o)
        PROVE  ReplayTo(cells, n + 1) = Apply(ReplayTo(cells, n), o)
    <2>1. cells[n + 1].kind = "rec" /\ cells[n + 1].op = o
      BY <1>3, WrittenFacts
    <2>2. PICK m \in Maps : m = ReplayTo(cells, n)
      BY ReplayType
    <2>3. /\ Apply(m, o) \in Maps /\ o.key \in Keys
          /\ \A k \in Keys : Apply(m, o)[k] = IF k = o.key THEN Apply(EmptyMap, o)[k] ELSE m[k]
      BY ApplyFacts
    <2>4. ASSUME NEW k \in Keys
          PROVE  ReplayTo(cells, n + 1)[k] = Apply(m, o)[k]
      <3>1. CASE k = o.key
        <4>0. PICK S : S = IntactOn(cells, n + 1, k)
          OBVIOUS
        <4>1. n + 1 \in S /\ S \subseteq Nat /\ \A y \in S : y <= n + 1
          BY <1>0, <1>1, <2>1, <3>1, <4>0 DEF IntactOn
        <4>2. Max(S) = n + 1
          BY <4>1, MaxOfAll
        <4>3. ReplayTo(cells, n + 1)[k] = Apply(EmptyMap, cells[n + 1].op)[k]
          BY <4>0, <4>1, <4>2 DEF ReplayTo
        <4>. QED BY <2>1, <2>3, <3>1, <4>3
      <3>2. CASE k # o.key
        <4>1. IntactOn(cells, n + 1, k) = IntactOn(cells, n, k)
          BY <1>0, <2>1, <3>2 DEF IntactOn
        <4>2. ReplayTo(cells, n + 1)[k] = ReplayTo(cells, n)[k]
          BY <4>1 DEF ReplayTo
        <4>. QED BY <2>2, <2>3, <3>2, <4>2
      <3>. QED BY <3>1, <3>2
    <2>5. PICK l \in Maps : l = ReplayTo(cells, n + 1)
      BY <1>0, ReplayType
    <2>6. l = Apply(m, o)
      BY <2>3, <2>4, <2>5 DEF Maps
    <2>. QED BY <2>2, <2>5, <2>6
  <1>. QED BY <1>2, <1>3

\* Nothing behind the cell that stops a replay is read.
LEMMA ReplayEnds ==
    ASSUME NEW cells \in [Cells -> CellStates], NEW n \in 0 .. BankRecs,
           \A i \in 1 .. n : ~Stops(cells[i]), n < BankRecs => Stops(cells[n + 1])
    PROVE  /\ ReplayEnd(cells) = n
           /\ \A j \in n .. BankRecs : ReplayTo(cells, j) = ReplayTo(cells, n)
  <1>. USE Counts
  <1>1. \A i \in Cells : Walked(cells, i) <=> i <= n
    BY DEF Walked, Cells
  <1>2. {i \in Cells : Walked(cells, i)} = 1 .. n
    BY <1>1 DEF Cells
  <1>3. Cardinality(1 .. n) = n
    BY FS_Interval
  <1>4. ASSUME NEW j \in n .. BankRecs, NEW k \in Keys
        PROVE  IntactOn(cells, j, k) = IntactOn(cells, n, k)
    BY <1>1 DEF IntactOn, Cells
  <1>. QED BY <1>2, <1>3, <1>4 DEF ReplayEnd, ReplayTo

-----------------------------------------------------------------------------
(* Banks.                                                                  *)

\* An erased bank holds nothing.
LEMMA BlankHolds ==
    /\ BlankBank.hdr = 0 /\ BlankBank.cells \in [Cells -> CellStates]
    /\ Prefix(BlankBank.cells, 0, EmptyMap) /\ BlankBehind(BlankBank.cells, 0)
  <1>1. BlankBank.hdr = 0 /\ BlankBank.cells = [i \in Cells |-> Blank]
    BY DEF BlankBank
  <1>2. BlankBank.cells \in [Cells -> CellStates]
    BY <1>1, WrittenFacts
  <1>3. ReplayTo(BlankBank.cells, 0) = EmptyMap /\ Fits(EmptyMap)
    BY ReplayNone, EmptyFits
  <1>4. Prefix(BlankBank.cells, 0, EmptyMap)
    BY <1>3, Counts DEF Prefix
  <1>. QED BY <1>1, <1>2, <1>4 DEF BlankBehind

\* A prefix depends on its own cells only.
LEMMA PrefixSame ==
    ASSUME NEW cells \in [Cells -> CellStates], NEW other \in [Cells -> CellStates],
           NEW n, NEW m, Prefix(cells, n, m), \A i \in 1 .. n : cells[i] = other[i]
    PROVE  Prefix(other, n, m)
  <1>. USE Counts
  <1>1. n \in 0 .. BankRecs
    BY DEF Prefix
  <1>2. ASSUME NEW j \in 0 .. BankRecs, j <= n
        PROVE  ReplayTo(cells, j) = ReplayTo(other, j)
    <2>1. \A i \in 1 .. j : cells[i] = other[i]
      BY <1>1, <1>2
    <2>. QED BY <2>1, ReplaySame
  <1>3. ReplayTo(other, n) = m
    BY <1>1, <1>2 DEF Prefix
  <1>4. ASSUME NEW j \in 1 .. n
        PROVE  Fits(ReplayTo(other, j))
    <2>1. j \in 0 .. BankRecs /\ j <= n
      BY <1>1
    <2>2. Fits(ReplayTo(cells, j)) /\ ReplayTo(cells, j) = ReplayTo(other, j)
      BY <1>2, <2>1 DEF Prefix
    <2>. QED BY <2>2
  <1>5. \A i \in 1 .. n : ~Stops(other[i])
    BY DEF Prefix
  <1>. QED BY <1>1, <1>3, <1>4, <1>5 DEF Prefix

\* What is written at the cursor leaves the prefix as it was.
LEMMA PrefixStays ==
    ASSUME NEW cells \in [Cells -> CellStates], NEW n, NEW m, Prefix(cells, n, m), n < BankRecs,
           NEW new \in [Cells -> CellStates], \A i \in Cells \ {n + 1} : new[i] = cells[i]
    PROVE  /\ Prefix(new, n, m)
           /\ BlankBehind(cells, n + 1) => BlankBehind(new, n + 1)
  <1>. USE Counts
  <1>1. n \in 0 .. BankRecs /\ n + 1 \in Cells
    BY DEF Prefix, Cells
  <1>2. \A i \in 1 .. n : cells[i] = new[i]
    BY <1>1 DEF Cells
  <1>3. Prefix(new, n, m)
    BY <1>2, PrefixSame
  <1>4. BlankBehind(cells, n + 1) => BlankBehind(new, n + 1)
    BY <1>1 DEF BlankBehind, Cells
  <1>. QED BY <1>3, <1>4

\* A record that was written completely applies its operation, a torn payload
\* leaves the map as it was.
LEMMA PrefixGrows ==
    ASSUME NEW cells \in [Cells -> CellStates], NEW n, NEW m \in Maps,
           Prefix(cells, n, m), n < BankRecs
    PROVE  /\ cells[n + 1] = TornPayload => Prefix(cells, n + 1, m)
           /\ \A o \in Ops : cells[n + 1] = Record(o) /\ Fits(Apply(m, o))
                 => Prefix(cells, n + 1, Apply(m, o))
  <1>. USE Counts
  <1>1. n \in 0 .. BankRecs /\ n + 1 \in 0 .. BankRecs /\ n \in Nat
    BY DEF Prefix
  <1>2. \A i \in 1 .. n + 1 : i \in 1 .. n \/ i = n + 1
    BY <1>1
  <1>3. ReplayTo(cells, n) = m
    BY DEF Prefix
  <1>4. ASSUME cells[n + 1] = TornPayload
        PROVE  Prefix(cells, n + 1, m)
    <2>1. \A i \in 1 .. n + 1 : ~Stops(cells[i])
      BY <1>2, <1>4, WrittenFacts DEF Prefix
    <2>2. ReplayTo(cells, n + 1) = m
      BY <1>1, <1>3, <1>4, <2>1, ReplayStep
    <2>3. \A j \in 1 .. n + 1 : Fits(ReplayTo(cells, j))
      BY <1>2, <2>2 DEF Prefix
    <2>. QED BY <1>1, <2>1, <2>2, <2>3 DEF Prefix
  <1>5. ASSUME NEW o \in Ops, cells[n + 1] = Record(o), Fits(Apply(m, o))
        PROVE  Prefix(cells, n + 1, Apply(m, o))
    <2>1. \A i \in 1 .. n + 1 : ~Stops(cells[i])
      BY <1>2, <1>5, WrittenFacts DEF Prefix
    <2>2. ReplayTo(cells, n + 1) = Apply(m, o)
      BY <1>1, <1>3, <1>5, <2>1, ReplayStep
    <2>3. \A j \in 1 .. n + 1 : Fits(ReplayTo(cells, j))
      BY <1>2, <1>5, <2>2 DEF Prefix
    <2>. QED BY <1>1, <1>5, <2>1, <2>2, <2>3 DEF Prefix
  <1>. QED BY <1>4, <1>5

\* A bank whose last write failed replays to the map before or after it.
LEMMA EitherGood ==
    ASSUME NEW cells \in [Cells -> CellStates], NEW n, NEW m \in Maps, NEW o \in Ops \cup {NoOp},
           Prefix(cells, n, m), BlankBehind(cells, n + 1), Fits(Apply(m, o)),
           n < BankRecs => cells[n + 1] \in {Blank, TornLength, TornPayload, Record(o)}
    PROVE  Good(cells, m) \/ Good(cells, Apply(m, o))
  <1>. USE Counts
  <1>1. n \in 0 .. BankRecs
    BY DEF Prefix
  <1>2. CASE n = BankRecs
    BY <1>1, <1>2 DEF Good
  <1>3. CASE n < BankRecs /\ Stops(cells[n + 1])
    BY <1>1, <1>3 DEF Good
  <1>4. CASE n < BankRecs /\ ~Stops(cells[n + 1])
    <2>1. n + 1 \in 0 .. BankRecs /\ n + 1 \in Cells
      BY <1>1, <1>4 DEF Cells
    <2>2. n + 1 < BankRecs => Stops(cells[n + 1 + 1])
      <3>1. n + 1 < BankRecs => n + 1 + 1 \in Cells /\ n + 1 + 1 > n + 1
        BY <1>1 DEF Cells
      <3>. QED BY <3>1, WrittenFacts DEF BlankBehind
    <2>3. BlankBehind(cells, n + 1 + 1)
      BY <1>1 DEF BlankBehind, Cells
    <2>4. CASE cells[n + 1] = TornPayload
      <3>1. Prefix(cells, n + 1, m)
        BY <1>4, <2>4, PrefixGrows
      <3>. QED BY <2>1, <2>2, <2>3, <3>1 DEF Good
    <2>5. CASE cells[n + 1] = Record(o)
      <3>1. o \in Ops
        BY <2>1, <2>5, CellFacts, WrittenFacts
      <3>2. Prefix(cells, n + 1, Apply(m, o))
        BY <1>4, <2>5, <3>1, PrefixGrows
      <3>. QED BY <2>1, <2>2, <2>3, <3>2 DEF Good
    <2>. QED BY <1>4, <2>4, <2>5, WrittenFacts
  <1>. QED BY <1>1, <1>2, <1>3, <1>4

\* A bank that is blank behind the cursor replays to its prefix.
LEMMA BlankGood ==
    ASSUME NEW cells, NEW n, NEW m, Prefix(cells, n, m), BlankBehind(cells, n)
    PROVE  Good(cells, m)
  <1>1. n \in 0 .. BankRecs
    BY DEF Prefix
  <1>2. n < BankRecs => Stops(cells[n + 1])
    BY <1>1, Counts, WrittenFacts DEF BlankBehind, Cells
  <1>3. BlankBehind(cells, n + 1)
    BY <1>1, Counts DEF BlankBehind, Cells
  <1>. QED BY <1>1, <1>2, <1>3 DEF Good

\* newest_bank finds the bank that leads.
LEMMA NewestLeads ==
    ASSUME NEW bs, NEW b \in BankIds, Leads(bs, b), \A c \in BankIds : bs[c].hdr \in Nat
    PROVE  NewestBank(bs) = b /\ ValidBanks(bs) # {}
  <1>1. b \in ValidBanks(bs)
    BY DEF Leads, ValidBanks
  <1>2. IsNewest(bs, b)
    BY <1>1 DEF IsNewest, Leads, ValidBanks, BankIds
  <1>3. \A c \in BankIds : IsNewest(bs, c) => c = b
    BY <1>1 DEF IsNewest, Leads, ValidBanks
  <1>. QED BY <1>1, <1>2, <1>3 DEF NewestBank

\* A boot rebuilds what the medium keeps.
LEMMA KeptRecovered ==
    ASSUME NEW bs \in [BankIds -> [hdr: 0 .. MaxGen, cells: [Cells -> CellStates]]],
           NEW m, Kept(bs, m)
    PROVE  Recovered(bs) = m
  <1>1. CASE ValidBanks(bs) = {} /\ m = EmptyMap
    BY <1>1 DEF Recovered
  <1>2. ASSUME NEW b \in BankIds, Leads(bs, b), Good(bs[b].cells, m)
        PROVE  Recovered(bs) = m
    <2>1. NewestBank(bs) = b /\ ValidBanks(bs) # {}
      BY <1>2, NewestLeads, Counts
    <2>2. PICK n \in 0 .. BankRecs : /\ Prefix(bs[b].cells, n, m)
                                     /\ n < BankRecs => Stops(bs[b].cells[n + 1])
      BY <1>2 DEF Good
    <2>3. ReplayTo(bs[b].cells, n) = m /\ \A i \in 1 .. n : ~Stops(bs[b].cells[i])
      BY <2>2 DEF Prefix
    <2>4. \A j \in n .. BankRecs : ReplayTo(bs[b].cells, j) = ReplayTo(bs[b].cells, n)
      BY <2>2, <2>3, ReplayEnds
    <2>5. ReplayTo(bs[b].cells, BankRecs) = m
      BY <2>3, <2>4, Counts
    <2>. QED BY <2>1, <2>5 DEF Recovered
  <1>. QED BY <1>1, <1>2 DEF Kept

\* While the device runs, a power cut leaves the mirror, or the mirror with
\* the operation whose record was being written.
LEMMA ReadyKept ==
    ASSUME NEW bs \in [BankIds -> [hdr: 0 .. MaxGen, cells: [Cells -> CellStates]]],
           NEW b \in BankIds, NEW next \in BankIds, b # next, NEW gen \in 0 .. MaxGen, NEW n,
           NEW m \in Maps, NEW o \in Ops \cup {NoOp}, Fits(Apply(m, o)),
           Ready(bs, b, gen, n, m, o), Older(bs, b, next, gen, m)
    PROVE  Kept(bs, m) \/ Kept(bs, Apply(m, o))
  <1>. USE Counts
  <1>1. \A c \in BankIds : bs[c].hdr \in Nat /\ bs[c].cells \in [Cells -> CellStates]
    OBVIOUS
  <1>2. CASE bs[next].hdr = gen + 1
    <2>1. Good(bs[next].cells, m)
      BY <1>1, <1>2 DEF Older
    <2>2. \A c \in BankIds \ {next} : bs[c].hdr < gen + 1
      BY <1>1 DEF Older, Ready
    <2>3. Leads(bs, next)
      BY <1>1, <1>2, <2>2 DEF Leads
    <2>. QED BY <2>1, <2>3 DEF Kept
  <1>3. CASE bs[next].hdr # gen + 1 /\ gen > 0
    <2>1. \A c \in BankIds \ {b} : bs[c].hdr < gen
      BY <1>1, <1>3 DEF Older
    <2>2. Leads(bs, b)
      BY <1>3, <2>1 DEF Leads, Ready
    <2>3. Good(bs[b].cells, m) \/ Good(bs[b].cells, Apply(m, o))
      BY <1>1, <1>3, EitherGood DEF Ready
    <2>. QED BY <2>2, <2>3 DEF Kept
  <1>4. CASE bs[next].hdr # gen + 1 /\ gen = 0
    <2>1. \A c \in BankIds : bs[c].hdr = 0
      BY <1>1, <1>4 DEF Older, Ready
    <2>2. ValidBanks(bs) = {} /\ m = EmptyMap
      BY <1>4, <2>1 DEF ValidBanks, Ready
    <2>. QED BY <2>2 DEF Kept
  <1>. QED BY <1>2, <1>3, <1>4

-----------------------------------------------------------------------------
(* Writes to the medium.                                                   *)

Medium == [BankIds -> [hdr: 0 .. MaxGen, cells: [Cells -> CellStates]]]

\* The next bank is another one.
LEMMA Successor ==
    ASSUME NEW b \in BankIds
    PROVE  (b + 1) % Banks \in BankIds /\ (b + 1) % Banks # b
  <1>1. b \in 0 .. Banks - 1
    BY DEF BankIds
  <1>2. CASE b = Banks - 1
    <2>1. (b + 1) % Banks = 0
      BY <1>2, Counts
    <2>. QED BY <1>1, <1>2, <2>1, Counts DEF BankIds
  <1>3. CASE b < Banks - 1
    <2>1. (b + 1) % Banks = b + 1
      BY <1>1, <1>3, Counts
    <2>. QED BY <1>1, <1>3, <2>1, Counts DEF BankIds
  <1>. QED BY <1>1, <1>2, <1>3, Counts

\* The state while the device runs, for the steps below.
LEMMA UpFacts ==
    ASSUME IInv, up
    PROVE  /\ TypeOK /\ BanksInv /\ OpInv
           /\ banks \in Medium
           /\ NextBank \in BankIds /\ active \in BankIds /\ NextBank # active
           /\ mirror \in Maps /\ op \in Ops \cup {NoOp} /\ failed \in Ops \cup {NoOp}
           /\ generation \in 0 .. MaxGen /\ cursor \in 0 .. BankRecs
           /\ banks[active].cells \in [Cells -> CellStates]
           /\ banks[NextBank].cells \in [Cells -> CellStates]
           /\ banks[NextBank].hdr \in 0 .. MaxGen
  <1>1. TypeOK /\ BanksInv /\ OpInv
    BY DEF IInv
  <1>2. banks \in Medium
    BY <1>1 DEF TypeOK, Medium
  <1>3. NextBank \in BankIds /\ active \in BankIds /\ NextBank # active
    BY <1>1, Successor DEF TypeOK, NextBank
  <1>4. /\ banks[active].cells \in [Cells -> CellStates]
        /\ banks[NextBank].cells \in [Cells -> CellStates]
        /\ banks[NextBank].hdr \in 0 .. MaxGen
    BY <1>2, <1>3 DEF Medium
  <1>. QED BY <1>1, <1>2, <1>3, <1>4 DEF TypeOK

\* The bank invariants see the medium only through the banks they name.
LEMMA ReadySame ==
    ASSUME NEW bs, NEW new, NEW b \in BankIds, NEW next \in BankIds, NEW gen, NEW n, NEW m, NEW o,
           Ready(bs, b, gen, n, m, o), Older(bs, b, next, gen, m), b # next,
           \A x \in BankIds \ {next} : new[x] = bs[x],
           new[next].hdr = 0 \/ new[next] = bs[next]
    PROVE  Ready(new, b, gen, n, m, o) /\ Older(new, b, next, gen, m)
  <1>1. new[b] = bs[b]
    OBVIOUS
  <1>2. Ready(new, b, gen, n, m, o)
    BY <1>1 DEF Ready
  <1>3. Older(new, b, next, gen, m)
    BY DEF Older
  <1>. QED BY <1>2, <1>3

\* A record write that did not return Ok: before or after the operation.
LEMMA RecordPart ==
    ASSUME IInv, up, pc = "record", NEW new,
           NEW c \in PartlyProgrammed(banks[active].cells[cursor + 1], Record(op)),
           new = [banks EXCEPT ![active].cells[cursor + 1] = c]
    PROVE  /\ new \in Medium /\ op \in Ops /\ generation # 0 /\ cursor < BankRecs
           /\ Ready(new, active, generation, cursor, mirror, op)
           /\ Older(new, active, NextBank, generation, mirror)
           /\ new[NextBank] = banks[NextBank]
           /\ banks[active].cells[cursor + 1] = Blank
  <1>. USE UpFacts
  <1>1. /\ ~compaction_pending /\ cursor < BankRecs /\ op # NoOp /\ op \in Ops /\ generation # 0
        /\ banks[active].cells[cursor + 1] = Blank
    BY DEF OpInv, BanksInv
  <1>2. c \in {Blank, TornLength, TornPayload, Record(op)} /\ c \in CellStates
    BY <1>1, WrittenFacts DEF PartlyProgrammed
  <1>3. cursor + 1 \in Cells
    BY <1>1, Counts DEF Cells
  <1>4. /\ new \in Medium
        /\ new[active].hdr = banks[active].hdr
        /\ new[active].cells = [banks[active].cells EXCEPT ![cursor + 1] = c]
        /\ \A x \in BankIds \ {active} : new[x] = banks[x]
    <2>1. PICK r : r = [banks[active] EXCEPT !.cells[cursor + 1] = c]
      OBVIOUS
    <2>2. /\ r.hdr = banks[active].hdr /\ r.cells = [banks[active].cells EXCEPT ![cursor + 1] = c]
          /\ r \in [hdr: 0 .. MaxGen, cells: [Cells -> CellStates]]
      BY <1>2, <1>3, <2>1 DEF Medium
    <2>3. new = [banks EXCEPT ![active] = r]
      BY <2>1
    <2>. QED BY ZenonT(40), <2>2, <2>3 DEF Medium
  <1>5. /\ Prefix(banks[active].cells, cursor, mirror) /\ BlankBehind(banks[active].cells, cursor + 1)
        /\ banks[active].hdr = generation
    BY <1>1 DEF BanksInv, Ready
  <1>6. /\ Prefix(new[active].cells, cursor, mirror) /\ BlankBehind(new[active].cells, cursor + 1)
        /\ new[active].cells[cursor + 1] = c
    <2>0. PICK cells, cells2 : cells = banks[active].cells /\ cells2 = new[active].cells
      OBVIOUS
    <2>1. /\ cells \in [Cells -> CellStates] /\ Prefix(cells, cursor, mirror)
          /\ BlankBehind(cells, cursor + 1)
          /\ cells2 \in [Cells -> CellStates] /\ cells2[cursor + 1] = c
          /\ \A i \in Cells \ {cursor + 1} : cells2[i] = cells[i]
      BY <1>2, <1>3, <1>4, <1>5, <2>0
    <2>2. Prefix(cells2, cursor, mirror) /\ BlankBehind(cells2, cursor + 1)
      BY <1>1, <2>1, PrefixStays
    <2>. QED BY <2>0, <2>1, <2>2
  <1>7. Ready(new, active, generation, cursor, mirror, op)
    BY <1>1, <1>2, <1>4, <1>5, <1>6 DEF Ready
  <1>8. new[NextBank] = banks[NextBank] /\ \A x \in BankIds \ {active, NextBank} : new[x] = banks[x]
    BY <1>4
  <1>9. Older(new, active, NextBank, generation, mirror)
    BY <1>8 DEF BanksInv, Older
  <1>. QED BY <1>1, <1>4, <1>7, <1>8, <1>9

\* An erase that did not return Ok: the next bank is what it was, or no bank.
LEMMA ErasePart ==
    ASSUME IInv, up, NEW new, NEW v \in PartlyErased(banks[NextBank]),
           new = [banks EXCEPT ![NextBank] = v]
    PROVE  /\ new \in Medium
           /\ Ready(new, active, generation, cursor, mirror, failed)
           /\ Older(new, active, NextBank, generation, mirror)
           /\ new[active] = banks[active]
           /\ new[NextBank].hdr = 0 \/ new[NextBank] = banks[NextBank]
  <1>. USE UpFacts
  <1>1. /\ new \in Medium
        /\ new[NextBank].hdr = 0 \/ new[NextBank] = banks[NextBank]
        /\ \A x \in BankIds \ {NextBank} : new[x] = banks[x]
    <2>1. /\ banks[NextBank] \in [hdr: 0 .. MaxGen, cells: [Cells -> CellStates]]
          /\ BlankBank \in [hdr: 0 .. MaxGen, cells: [Cells -> CellStates]] /\ BlankBank.hdr = 0
      BY Counts, WrittenFacts DEF BlankBank, Medium
    <2>2. /\ v \in [hdr: 0 .. MaxGen, cells: [Cells -> CellStates]]
          /\ v.hdr = 0 \/ v = banks[NextBank]
      BY <2>1, Counts DEF PartlyErased
    <2>. QED BY <2>2 DEF Medium
  <1>2. /\ Ready(banks, active, generation, cursor, mirror, failed)
        /\ Older(banks, active, NextBank, generation, mirror)
    BY DEF BanksInv
  <1>3. /\ Ready(new, active, generation, cursor, mirror, failed)
        /\ Older(new, active, NextBank, generation, mirror)
    BY <1>1, <1>2, ReadySame
  <1>. QED BY <1>1, <1>3

\* The snapshot's next record goes to a blank cell, and the mirror fits.
LEMMA PushRoom ==
    ASSUME IInv, up, pc = "snapshot", NEW k \in todo
    PROVE  /\ wcur \in 0 .. BankRecs /\ wcur < BankRecs /\ wcur + 1 \in Cells
           /\ banks[NextBank].cells[wcur + 1] = Blank
           /\ banks[NextBank].hdr = 0
           /\ SnapshotRecord(k) \in CellStates
           /\ [kind |-> "put", key |-> k, val |-> mirror[k]] \in Puts
           /\ IsFiniteSet(todo) /\ Cardinality(todo \ {k}) = Cardinality(todo) - 1
           /\ Cardinality(todo) \in Nat /\ Cardinality(todo) > 0
  <1>. USE UpFacts, Counts
  <1>1. /\ todo \in SUBSET LiveKeys(mirror) /\ wcur + Cardinality(todo) = Cardinality(LiveKeys(mirror))
        /\ IsFiniteSet(LiveKeys(mirror)) /\ Cardinality(LiveKeys(mirror)) <= Entries
        /\ BlankBehind(banks[NextBank].cells, wcur) /\ banks[NextBank].hdr = 0
    BY DEF OpInv, Fits
  <1>2. wcur \in 0 .. BankRecs
    BY DEF TypeOK
  <1>3. IsFiniteSet(todo)
    BY <1>1, FS_Subset
  <1>4. Cardinality(todo) \in Nat /\ Cardinality(LiveKeys(mirror)) \in Nat /\ Cardinality(todo) # 0
    BY <1>1, <1>3, FS_CardinalityType, FS_EmptySet
  <1>5. Cardinality(todo \ {k}) = Cardinality(todo) - 1
    BY <1>3, FS_RemoveElement
  <1>6. wcur < BankRecs
    BY <1>1, <1>2, <1>4
  <1>7. wcur + 1 \in Cells /\ banks[NextBank].cells[wcur + 1] = Blank
    BY <1>1, <1>2, <1>6 DEF Cells, BlankBehind
  <1>8. k \in Keys /\ mirror[k] \in Vals
    BY <1>1 DEF LiveKeys, Contains, Maps
  <1>9. [kind |-> "put", key |-> k, val |-> mirror[k]] \in Puts
    BY <1>8 DEF Puts
  <1>10. SnapshotRecord(k) \in CellStates
    BY <1>9, WrittenFacts DEF SnapshotRecord, Ops
  <1>. QED BY <1>1, <1>2, <1>3, <1>4, <1>5, <1>6, <1>7, <1>9, <1>10

\* A snapshot write leaves a bank without a header.
LEMMA PushPart ==
    ASSUME IInv, up, pc = "snapshot", NEW k \in todo, NEW new,
           NEW c \in PartlyProgrammed(banks[NextBank].cells[wcur + 1], SnapshotRecord(k)),
           new = [banks EXCEPT ![NextBank].cells[wcur + 1] = c]
    PROVE  /\ new \in Medium /\ new[active] = banks[active] /\ new[NextBank].hdr = 0
           /\ new[NextBank].cells = [banks[NextBank].cells EXCEPT ![wcur + 1] = c]
           /\ c \in CellStates
           /\ Ready(new, active, generation, cursor, mirror, failed)
           /\ Older(new, active, NextBank, generation, mirror)
  <1>. USE UpFacts
  <1>1. /\ wcur + 1 \in Cells /\ banks[NextBank].cells[wcur + 1] = Blank
        /\ banks[NextBank].hdr = 0 /\ SnapshotRecord(k) \in CellStates
    BY PushRoom
  <1>2. c \in CellStates
    BY <1>1, WrittenFacts DEF PartlyProgrammed
  <1>3. PICK b \in BankIds : b = NextBank
    OBVIOUS
  <1>4. /\ new \in Medium
        /\ new[b].hdr = banks[b].hdr
        /\ new[b].cells = [banks[b].cells EXCEPT ![wcur + 1] = c]
        /\ \A x \in BankIds \ {b} : new[x] = banks[x]
    <2>1. PICK r : r = [banks[b] EXCEPT !.cells[wcur + 1] = c]
      OBVIOUS
    <2>2. /\ r.hdr = banks[b].hdr /\ r.cells = [banks[b].cells EXCEPT ![wcur + 1] = c]
          /\ r \in [hdr: 0 .. MaxGen, cells: [Cells -> CellStates]]
      BY <1>1, <1>2, <2>1 DEF Medium
    <2>3. new = [banks EXCEPT ![b] = r]
      BY <1>3, <2>1
    <2>. QED BY ZenonT(40), <2>2, <2>3 DEF Medium
  <1>5. new[NextBank].hdr = 0 /\ new[active] = banks[active]
    BY <1>1, <1>3, <1>4
  <1>6. /\ Ready(banks, active, generation, cursor, mirror, failed)
        /\ Older(banks, active, NextBank, generation, mirror)
    BY DEF BanksInv
  <1>7. \A x \in BankIds \ {NextBank} : new[x] = banks[x]
    BY <1>3, <1>4
  <1>8. /\ Ready(new, active, generation, cursor, mirror, failed)
        /\ Older(new, active, NextBank, generation, mirror)
    BY <1>5, <1>6, <1>7, ReadySame
  <1>. QED BY <1>2, <1>3, <1>4, <1>5, <1>8

\* The header goes to a bank that holds the whole mirror.
LEMMA HeaderPart ==
    ASSUME IInv, up, pc = "snapshot", todo = {}, NEW new, NEW h \in {0, generation + 1},
           new = [banks EXCEPT ![NextBank].hdr = h]
    PROVE  /\ new \in Medium /\ \A x \in BankIds \ {NextBank} : new[x] = banks[x]
           /\ new[NextBank].hdr = h /\ new[NextBank].cells = banks[NextBank].cells
           /\ Prefix(new[NextBank].cells, wcur, mirror) /\ BlankBehind(new[NextBank].cells, wcur)
           /\ wcur < BankRecs /\ generation < MaxGen
           /\ Ready(new, active, generation, cursor, mirror, failed)
           /\ Older(new, active, NextBank, generation, mirror)
  <1>. USE UpFacts, Counts
  <1>1. /\ Prefix(banks[NextBank].cells, wcur, Pushed) /\ BlankBehind(banks[NextBank].cells, wcur)
        /\ wcur + Cardinality(todo) = Cardinality(LiveKeys(mirror)) /\ generation < MaxGen
        /\ Cardinality(LiveKeys(mirror)) <= Entries
    BY DEF OpInv, Fits
  <1>2. Pushed = mirror
    BY DEF Pushed, Maps
  <1>3. wcur < BankRecs
    <2>1. Cardinality(todo) = 0
      BY FS_EmptySet
    <2>2. wcur \in Nat
      BY DEF TypeOK
    <2>. QED BY <1>1, <2>1, <2>2
  <1>4. h \in 0 .. MaxGen
    BY <1>1
  <1>5. PICK b \in BankIds : b = NextBank
    OBVIOUS
  <1>6. new = [banks EXCEPT ![b].hdr = h]
    BY <1>5
  <1>7. /\ new \in Medium
        /\ new[b].hdr = h /\ new[b].cells = banks[b].cells
        /\ \A x \in BankIds \ {b} : new[x] = banks[x]
    BY <1>4, <1>6 DEF Medium
  <1>8. Prefix(new[b].cells, wcur, mirror) /\ BlankBehind(new[b].cells, wcur)
    BY <1>1, <1>2, <1>5, <1>7
  <1>9. Good(new[b].cells, mirror)
    BY <1>8, BlankGood
  <1>10. new[active] = banks[active]
    BY <1>5, <1>7
  <1>11. Ready(new, active, generation, cursor, mirror, failed)
    BY <1>10 DEF BanksInv, Ready
  <1>12. Older(new, active, NextBank, generation, mirror)
    BY <1>5, <1>7, <1>9 DEF BanksInv, Older
  <1>. QED BY <1>1, <1>3, <1>5, <1>7, <1>8, <1>11, <1>12

-----------------------------------------------------------------------------
(* The steps.                                                              *)

\* An operation that returned Err leaves the log to be compacted.
LEMMA FailOK ==
    ASSUME IInv, up, banks' \in Medium,
           Ready(banks', active, generation, cursor, mirror, failed'),
           Older(banks', active, NextBank, generation, mirror),
           compaction_pending' = TRUE, failed' \in Ops \cup {NoOp}, Fits(Apply(mirror, failed')),
           generation = 0 => failed' = NoOp, Idle, UNCHANGED <<up, active, cursor, generation, mirror>>
    PROVE  IInv'
  <1>. USE UpFacts
  <1>1. op' = NoOp /\ pc' = "idle" /\ todo' = {} /\ wcur' = 0
    BY DEF Idle
  <1>2. TypeOK'
    BY <1>1, Counts DEF TypeOK, Medium
  <1>3. NextBank' = NextBank
    BY DEF NextBank
  <1>4. BanksInv'
    BY <1>3 DEF BanksInv
  <1>5. Fits(Apply(mirror', op')) /\ Fits(mirror') /\ ~RemovesAbsent(mirror', op')
    BY <1>1, NoOpFacts DEF OpInv
  <1>6. OpInv'
    BY <1>1, <1>5 DEF OpInv
  <1>. QED BY <1>2, <1>4, <1>6 DEF IInv

\* A record write that reports an error.
LEMMA WriteRecordErrorOK ==
    ASSUME IInv, up, WriteRecordError
    PROVE  IInv'
  <1>. USE UpFacts
  <1>1. PICK c \in PartlyProgrammed(banks[active].cells[cursor + 1], Record(op)) :
            banks' = [banks EXCEPT ![active].cells[cursor + 1] = c]
    BY DEF WriteRecordError
  <1>2. pc = "record" /\ compaction_pending' = TRUE /\ failed' = op /\ Idle
        /\ UNCHANGED <<up, active, cursor, generation, mirror>>
    BY DEF WriteRecordError
  <1>3. /\ banks' \in Medium /\ op \in Ops /\ generation # 0
        /\ Ready(banks', active, generation, cursor, mirror, op)
        /\ Older(banks', active, NextBank, generation, mirror)
    BY <1>1, <1>2, RecordPart
  <1>4. Fits(Apply(mirror, op))
    BY DEF OpInv
  <1>. QED BY <1>2, <1>3, <1>4, FailOK

\* An erase that reports an error.
LEMMA EraseErrorOK ==
    ASSUME IInv, up, EraseError
    PROVE  IInv'
  <1>. USE UpFacts
  <1>1. PICK v \in PartlyErased(banks[NextBank]) : banks' = [banks EXCEPT ![NextBank] = v]
    BY DEF EraseError
  <1>2. compaction_pending' = TRUE /\ failed' = failed /\ Idle
        /\ UNCHANGED <<up, active, cursor, generation, mirror>>
    BY DEF EraseError, logVars, OpInv
  <1>3. /\ banks' \in Medium
        /\ Ready(banks', active, generation, cursor, mirror, failed)
        /\ Older(banks', active, NextBank, generation, mirror)
    BY <1>1, ErasePart
  <1>4. Fits(Apply(mirror, failed)) /\ (generation = 0 => failed = NoOp)
    BY DEF OpInv, BanksInv
  <1>. QED BY <1>2, <1>3, <1>4, FailOK

\* A snapshot write that reports an error.
LEMMA PushErrorOK ==
    ASSUME IInv, up, NEW k \in Keys, PushError(k)
    PROVE  IInv'
  <1>. USE UpFacts
  <1>1. PICK c \in PartlyProgrammed(banks[NextBank].cells[wcur + 1], SnapshotRecord(k)) :
            banks' = [banks EXCEPT ![NextBank].cells[wcur + 1] = c]
    BY DEF PushError
  <1>2. pc = "snapshot" /\ k \in todo /\ compaction_pending' = TRUE /\ failed' = failed /\ Idle
        /\ UNCHANGED <<up, active, cursor, generation, mirror>>
    BY DEF PushError, logVars, OpInv
  <1>3. /\ banks' \in Medium
        /\ Ready(banks', active, generation, cursor, mirror, failed)
        /\ Older(banks', active, NextBank, generation, mirror)
    BY <1>1, <1>2, PushPart
  <1>4. Fits(Apply(mirror, failed)) /\ (generation = 0 => failed = NoOp)
    BY DEF OpInv, BanksInv
  <1>. QED BY <1>2, <1>3, <1>4, FailOK

\* A header write that reports an error may have committed the bank.
LEMMA WriteHeaderErrorOK ==
    ASSUME IInv, up, WriteHeaderError
    PROVE  IInv'
  <1>. USE UpFacts
  <1>1. PICK h \in {0, generation + 1} : banks' = [banks EXCEPT ![NextBank].hdr = h]
    BY DEF WriteHeaderError
  <1>2. pc = "snapshot" /\ todo = {} /\ compaction_pending' = TRUE /\ failed' = failed /\ Idle
        /\ UNCHANGED <<up, active, cursor, generation, mirror>>
    BY DEF WriteHeaderError, logVars, OpInv
  <1>3. /\ banks' \in Medium
        /\ Ready(banks', active, generation, cursor, mirror, failed)
        /\ Older(banks', active, NextBank, generation, mirror)
    BY <1>1, <1>2, HeaderPart
  <1>4. Fits(Apply(mirror, failed)) /\ (generation = 0 => failed = NoOp)
    BY DEF OpInv, BanksInv
  <1>. QED BY <1>2, <1>3, <1>4, FailOK

\* put and remove start where there is room.
LEMMA BeginOK ==
    ASSUME IInv, NEW o \in Ops, Begin(o)
    PROVE  IInv'
  <1>0. up
    BY DEF Begin
  <1>. USE <1>0, UpFacts
  <1>1. /\ op = NoOp /\ op' = o
        /\ o \in Puts => CanUpsert(mirror, o.key)
        /\ UNCHANGED <<banks, up, active, cursor, generation, mirror, todo, wcur, failed>>
    BY DEF Begin
  <1>2. /\ Fits(mirror) /\ Fits(Apply(mirror, o)) /\ Fits(Apply(mirror, failed)) /\ pc = "idle"
        /\ o # NoOp
    BY <1>1, RoomFits, NoOpFacts DEF OpInv
  <1>3. \/ pc' = "return" /\ RemovesAbsent(mirror, o) /\ compaction_pending' = compaction_pending
        \/ /\ ~compaction_pending /\ cursor < BankRecs /\ pc' = "record" /\ ~RemovesAbsent(mirror, o)
           /\ compaction_pending' = compaction_pending
        \/ generation < MaxGen /\ pc' = "erase" /\ compaction_pending' = TRUE /\ ~RemovesAbsent(mirror, o)
    BY DEF Begin
  <1>4. TypeOK'
    BY <1>1, <1>3 DEF TypeOK
  <1>5. NextBank' = NextBank
    BY <1>1 DEF NextBank
  <1>6. BanksInv'
    BY <1>1, <1>3, <1>5 DEF BanksInv
  <1>7. OpInv'
    BY <1>1, <1>2, <1>3 DEF OpInv
  <1>. QED BY <1>1, <1>4, <1>6, <1>7 DEF IInv

\* A remove that returned at once has changed nothing.
LEMMA ReturnAbsentOK ==
    ASSUME IInv, up, ReturnAbsent
    PROVE  IInv'
  <1>. USE UpFacts
  <1>1. /\ op' = NoOp /\ pc' = "idle" /\ todo' = {} /\ wcur' = 0
        /\ UNCHANGED <<banks, up, active, cursor, generation, compaction_pending, mirror, failed>>
    BY DEF ReturnAbsent, Idle, logVars
  <1>2. TypeOK'
    BY <1>1, Counts DEF TypeOK
  <1>3. NextBank' = NextBank
    BY <1>1 DEF NextBank
  <1>4. BanksInv'
    BY <1>1, <1>3 DEF BanksInv
  <1>5. Fits(mirror) /\ Fits(Apply(mirror, NoOp)) /\ ~RemovesAbsent(mirror, NoOp) /\ Fits(Apply(mirror, failed))
    BY NoOpFacts DEF OpInv
  <1>6. OpInv'
    BY <1>1, <1>5 DEF OpInv
  <1>. QED BY <1>1, <1>2, <1>4, <1>6 DEF IInv

\* The record goes to a blank cell and the mirror follows.
LEMMA WriteRecordOK ==
    ASSUME IInv, up, WriteRecord
    PROVE  IInv'
  <1>. USE UpFacts, Counts
  <1>1. PICK c \in Programmed(banks[active].cells[cursor + 1], Record(op)) :
            banks' = [banks EXCEPT ![active].cells[cursor + 1] = c]
    BY DEF WriteRecord
  <1>2. /\ pc = "record" /\ cursor' = cursor + 1 /\ mirror' = Apply(mirror, op) /\ failed' = NoOp /\ Idle
        /\ UNCHANGED <<up, active, generation, compaction_pending>>
    BY DEF WriteRecord
  <1>3. /\ op' = NoOp /\ pc' = "idle" /\ todo' = {} /\ wcur' = 0 /\ NextBank' = NextBank
    BY <1>2 DEF Idle, NextBank
  <1>4. ~compaction_pending /\ cursor < BankRecs /\ Fits(Apply(mirror, op))
        /\ banks[active].cells[cursor + 1] = Blank
    BY <1>2 DEF OpInv, BanksInv
  <1>5. c = Record(op) /\ c \in PartlyProgrammed(banks[active].cells[cursor + 1], Record(op))
    BY <1>4 DEF Programmed, PartlyProgrammed
  <1>6. /\ banks' \in Medium /\ op \in Ops /\ generation # 0
        /\ Ready(banks', active, generation, cursor, mirror, op)
        /\ Older(banks', active, NextBank, generation, mirror)
        /\ banks'[NextBank] = banks[NextBank]
    BY <1>1, <1>2, <1>5, RecordPart
  <1>7. PICK cells \in [Cells -> CellStates] : cells = banks'[active].cells
    BY <1>6 DEF Medium
  <1>8. /\ Prefix(cells, cursor, mirror) /\ BlankBehind(cells, cursor + 1)
        /\ banks'[active].hdr = generation
    BY <1>6, <1>7 DEF Ready
  <1>9. cells[cursor + 1] = Record(op)
    <2>1. cursor + 1 \in Cells
      BY <1>4 DEF Cells
    <2>. QED BY <1>1, <1>5, <1>7, <2>1 DEF Medium
  <1>10. Prefix(cells, cursor + 1, Apply(mirror, op))
    BY <1>4, <1>6, <1>8, <1>9, PrefixGrows
  <1>11. mirror' \in Maps
    BY <1>2, ApplyFacts
  <1>12. TypeOK'
    <2>1. cursor' \in 0 .. BankRecs
      BY <1>2, <1>4
    <2>. QED BY <1>2, <1>3, <1>6, <1>11, <2>1 DEF TypeOK, Medium
  <1>13. /\ BlankBehind(cells, cursor + 1 + 1)
         /\ cursor + 1 < BankRecs => cells[cursor + 1 + 1] = Blank
    BY <1>8 DEF BlankBehind, Cells
  <1>14. Ready(banks', active, generation, cursor', mirror', failed')
    BY <1>2, <1>6, <1>7, <1>8, <1>10, <1>13 DEF Ready
  <1>15. banks'[NextBank].hdr # generation + 1
    BY <1>4, <1>6 DEF BanksInv
  <1>16. Older(banks', active, NextBank, generation, mirror')
    BY <1>6, <1>15 DEF Older
  <1>17. BanksInv'
    BY <1>2, <1>3, <1>6, <1>7, <1>13, <1>14, <1>15, <1>16 DEF BanksInv
  <1>18. OpInv'
    BY <1>2, <1>3, <1>4, NoOpFacts DEF OpInv
  <1>. QED BY <1>2, <1>12, <1>17, <1>18 DEF IInv

\* The snapshot starts with an erased bank.
LEMMA EraseOK ==
    ASSUME IInv, up, Erase
    PROVE  IInv'
  <1>. USE UpFacts, Counts
  <1>1. /\ pc = "erase" /\ banks' = [banks EXCEPT ![NextBank] = BlankBank] /\ pc' = "snapshot"
        /\ todo' = LiveKeys(mirror) /\ wcur' = 0
        /\ UNCHANGED <<up, active, cursor, generation, compaction_pending, mirror, op, failed>>
    BY DEF Erase, logVars
  <1>2. BlankBank \in PartlyErased(banks[NextBank])
    BY DEF PartlyErased
  <1>3. /\ banks' \in Medium
        /\ Ready(banks', active, generation, cursor, mirror, failed)
        /\ Older(banks', active, NextBank, generation, mirror)
        /\ banks'[active] = banks[active]
    BY <1>1, <1>2, ErasePart
  <1>4. banks'[NextBank] = BlankBank /\ NextBank' = NextBank
    BY <1>1 DEF Medium, NextBank
  <1>5. compaction_pending
    BY <1>1 DEF OpInv
  <1>6. TypeOK'
    BY <1>1, <1>3 DEF TypeOK, Medium, LiveKeys
  <1>7. BanksInv'
    BY <1>1, <1>3, <1>4, <1>5 DEF BanksInv
  <1>8. Pushed' = EmptyMap
    BY <1>1 DEF Pushed, EmptyMap, LiveKeys, Contains
  <1>9. wcur' + Cardinality(todo') = Cardinality(LiveKeys(mirror'))
    <2>1. Cardinality(LiveKeys(mirror)) \in Nat
      BY FS_CardinalityType DEF OpInv, Fits
    <2>. QED BY <1>1, <2>1
  <1>10. Prefix(banks'[NextBank].cells, 0, EmptyMap) /\ BlankBehind(banks'[NextBank].cells, 0)
         /\ banks'[NextBank].hdr = 0
    BY <1>4, BlankHolds
  <1>11. OpInv'
    BY <1>1, <1>4, <1>8, <1>9, <1>10 DEF OpInv
  <1>. QED BY <1>1, <1>6, <1>7, <1>11 DEF IInv

\* One more pushed key is one more record of the snapshot.
LEMMA PushOK ==
    ASSUME IInv, up, NEW k \in Keys, Push(k)
    PROVE  IInv'
  <1>. USE UpFacts, Counts
  <1>1. PICK c \in Programmed(banks[NextBank].cells[wcur + 1], SnapshotRecord(k)) :
            banks' = [banks EXCEPT ![NextBank].cells[wcur + 1] = c]
    BY DEF Push
  <1>2. /\ pc = "snapshot" /\ k \in todo /\ wcur' = wcur + 1 /\ todo' = todo \ {k}
        /\ UNCHANGED <<up, active, cursor, generation, compaction_pending, mirror, op, pc, failed>>
    BY DEF Push, logVars
  <1>3. /\ wcur \in 0 .. BankRecs /\ wcur < BankRecs /\ wcur + 1 \in Cells
        /\ banks[NextBank].cells[wcur + 1] = Blank
        /\ [kind |-> "put", key |-> k, val |-> mirror[k]] \in Puts
        /\ Cardinality(todo \ {k}) = Cardinality(todo) - 1
        /\ Cardinality(todo) \in Nat
    BY <1>2, PushRoom
  <1>4. c = SnapshotRecord(k)
        /\ c \in PartlyProgrammed(banks[NextBank].cells[wcur + 1], SnapshotRecord(k))
    BY <1>3 DEF Programmed, PartlyProgrammed
  <1>5. /\ banks' \in Medium /\ banks'[active] = banks[active] /\ banks'[NextBank].hdr = 0
        /\ banks'[NextBank].cells = [banks[NextBank].cells EXCEPT ![wcur + 1] = c]
        /\ c \in CellStates
        /\ Ready(banks', active, generation, cursor, mirror, failed)
        /\ Older(banks', active, NextBank, generation, mirror)
    BY ZenonT(40), <1>1, <1>2, <1>4, PushPart
  <1>6. NextBank' = NextBank
    BY <1>2 DEF NextBank
  <1>7. TypeOK'
    <2>1. wcur' \in 0 .. BankRecs
      BY <1>2, <1>3
    <2>. QED BY <1>2, <1>5, <2>1 DEF TypeOK, Medium
  <1>8. BanksInv'
    <2>1. compaction_pending
      BY <1>2 DEF OpInv
    <2>. QED BY <1>2, <1>5, <1>6, <2>1 DEF BanksInv
  <1>9. /\ todo \in SUBSET LiveKeys(mirror) /\ wcur + Cardinality(todo) = Cardinality(LiveKeys(mirror))
        /\ Prefix(banks[NextBank].cells, wcur, Pushed)
        /\ BlankBehind(banks[NextBank].cells, wcur) /\ Fits(mirror)
    BY <1>2 DEF OpInv
  <1>10. PICK o, old, new :
            /\ o = [kind |-> "put", key |-> k, val |-> mirror[k]]
            /\ old = banks[NextBank].cells /\ new = banks'[NextBank].cells
    OBVIOUS
  <1>11. /\ o \in Puts /\ o \in Ops /\ o.key = k /\ o.val = mirror[k]
         /\ new[wcur + 1] = Record(o)
         /\ old \in [Cells -> CellStates] /\ new \in [Cells -> CellStates]
         /\ \A i \in Cells \ {wcur + 1} : new[i] = old[i]
    BY <1>3, <1>4, <1>5, <1>10 DEF SnapshotRecord, Ops
  <1>12. Pushed \in Maps /\ Pushed' \in Maps
    BY <1>2 DEF Pushed, Maps
  <1>13. Apply(Pushed, o) = Pushed'
    <2>1. Apply(Pushed, o) = [Pushed EXCEPT ![k] = mirror[k]]
      BY <1>11 DEF Apply, Puts
    <2>2. \A x \in Keys : [Pushed EXCEPT ![k] = mirror[k]][x] = Pushed'[x]
      BY <1>2 DEF Pushed
    <2>. QED BY <1>12, <2>1, <2>2 DEF Maps
  <1>14. Fits(Pushed')
    <2>1. PICK m \in Maps : m = Pushed'
      BY <1>12
    <2>2. LiveKeys(m) \subseteq LiveKeys(mirror)
      BY <1>2, <2>1 DEF Pushed, LiveKeys, Contains
    <2>3. Fits(m)
      BY <1>9, <2>2, FewerFit
    <2>. QED BY <2>1, <2>3
  <1>15. Prefix(new, wcur + 1, Apply(Pushed, o))
    <2>1. Prefix(new, wcur, Pushed)
      BY <1>3, <1>9, <1>10, <1>11, PrefixStays
    <2>2. Fits(Apply(Pushed, o))
      BY <1>13, <1>14
    <2>. QED BY <1>3, <1>11, <1>12, <2>1, <2>2, PrefixGrows
  <1>16. BlankBehind(new, wcur + 1)
    <2>1. \A i \in Cells : i > wcur => old[i] = Blank
      BY <1>9, <1>10 DEF BlankBehind
    <2>2. \A i \in Cells : i > wcur + 1 => i > wcur /\ i # wcur + 1
      BY <1>3 DEF Cells
    <2>. QED BY <1>11, <2>1, <2>2 DEF BlankBehind
  <1>17. wcur' + Cardinality(todo') = Cardinality(LiveKeys(mirror'))
    BY <1>2, <1>3, <1>9
  <1>18. Prefix(banks'[NextBank].cells, wcur', Pushed') /\ BlankBehind(banks'[NextBank].cells, wcur')
    BY <1>2, <1>10, <1>13, <1>15, <1>16
  <1>19. OpInv'
    <2>1. todo' \in SUBSET LiveKeys(mirror')
      BY <1>2, <1>9
    <2>. QED BY <1>2, <1>5, <1>6, <1>17, <1>18, <2>1 DEF OpInv
  <1>. QED BY <1>2, <1>7, <1>8, <1>19 DEF IInv

\* The header makes the snapshot the newest bank.
LEMMA WriteHeaderOK ==
    ASSUME IInv, up, WriteHeader
    PROVE  IInv'
  <1>. USE UpFacts, Counts
  <1>1. /\ pc = "snapshot" /\ todo = {} /\ banks' = [banks EXCEPT ![NextBank].hdr = generation + 1]
        /\ active' = NextBank /\ generation' = generation + 1 /\ cursor' = wcur
        /\ compaction_pending' = FALSE /\ pc' = "record" /\ wcur' = 0
        /\ UNCHANGED <<up, mirror, op, todo, failed>>
    BY DEF WriteHeader
  <1>2. PICK h \in {0, generation + 1} : h = generation + 1
    OBVIOUS
  <1>3. /\ banks' \in Medium /\ \A x \in BankIds \ {NextBank} : banks'[x] = banks[x]
        /\ banks'[NextBank].hdr = generation + 1
        /\ Prefix(banks'[NextBank].cells, wcur, mirror) /\ BlankBehind(banks'[NextBank].cells, wcur)
        /\ wcur < BankRecs /\ generation < MaxGen
    <2>1. banks' = [banks EXCEPT ![NextBank].hdr = h]
      BY <1>1, <1>2
    <2>. QED BY <1>1, <1>2, <2>1, HeaderPart
  <1>4. wcur \in Nat /\ wcur \in 0 .. BankRecs
    BY DEF TypeOK
  <1>5. TypeOK'
    <2>1. generation' \in 0 .. MaxGen /\ cursor' \in 0 .. BankRecs /\ active' \in BankIds
      BY <1>1, <1>3, <1>4
    <2>2. compaction_pending' \in BOOLEAN
      BY ONLY <1>1
    <2>3. wcur' \in 0 .. BankRecs
      BY <1>1
    <2>. QED BY <1>1, <1>3, <2>1, <2>2, <2>3 DEF TypeOK, Medium
  <1>6. /\ banks'[NextBank].cells[wcur + 1] = Blank
        /\ BlankBehind(banks'[NextBank].cells, wcur + 1)
    BY <1>3, <1>4 DEF BlankBehind, Cells
  <1>7. Ready(banks', NextBank, generation + 1, wcur, mirror, failed)
    BY <1>3, <1>6 DEF Ready
  <1>8. \A x \in BankIds \ {NextBank} : banks'[x].hdr < generation + 1
    <2>1. banks[active].hdr = generation
      BY DEF BanksInv, Ready
    <2>2. \A x \in BankIds \ {active, NextBank} : banks[x].hdr = 0 \/ banks[x].hdr < generation
      BY DEF BanksInv, Older
    <2>3. \A x \in BankIds : banks[x].hdr \in Nat
      BY DEF Medium
    <2>. QED BY <1>3, <2>1, <2>2, <2>3
  <1>9. NextBank' \in BankIds /\ NextBank' # active'
    BY <1>1, Successor DEF NextBank
  <1>10. banks'[NextBank'].hdr < generation + 1
    BY <1>1, <1>8, <1>9
  <1>11. Older(banks', active', NextBank', generation', mirror')
    BY <1>1, <1>8, <1>10 DEF Older
  <1>12. Ready(banks', active', generation', cursor', mirror', failed')
    BY <1>1, <1>7
  <1>13. banks'[NextBank'].hdr # generation' + 1 /\ generation' # 0
    <2>1. banks'[NextBank'].hdr \in Nat
      BY <1>3, <1>9 DEF Medium
    <2>. QED BY <1>1, <1>10, <2>1
  <1>14. BanksInv'
    BY <1>1, <1>6, <1>11, <1>12, <1>13 DEF BanksInv
  <1>15. OpInv'
    BY <1>1, <1>3 DEF OpInv
  <1>. QED BY <1>1, <1>5, <1>14, <1>15 DEF IInv

\* A boot finds what the medium keeps, and starts where its replay ended.
LEMMA OpenOK ==
    ASSUME IInv, Open
    PROVE  IInv'
  <1>. USE Counts
  <1>1. /\ TypeOK /\ OffInv /\ up' = TRUE /\ mirror' = Recovered(banks)
        /\ UNCHANGED <<banks, op, pc, todo, wcur, failed>>
    BY DEF Open, IInv, opVars
  <1>2. /\ active = Banks - 1 /\ cursor = 0 /\ generation = 0 /\ compaction_pending
        /\ op = NoOp /\ pc = "idle" /\ failed = NoOp
        /\ Kept(banks, Recovered(banks))
    BY <1>1 DEF OffInv
  <1>3. \A x \in BankIds : banks[x].hdr \in Nat /\ banks[x].cells \in [Cells -> CellStates]
                           /\ banks[x].hdr \in 0 .. MaxGen
    BY <1>1 DEF TypeOK
  <1>4. CASE ValidBanks(banks) = {} /\ Recovered(banks) = EmptyMap
    <2>1. UNCHANGED <<active, cursor, generation, compaction_pending>>
      BY <1>4 DEF Open, logVars
    <2>2. TypeOK'
      BY <1>1, <1>4, <2>1, EmptyFits DEF TypeOK
    <2>3. \A x \in BankIds : banks[x].hdr = 0
      BY <1>3, <1>4 DEF ValidBanks
    <2>4. active' \in BankIds /\ NextBank' \in BankIds
      BY <2>2, Successor DEF TypeOK, NextBank
    <2>5. BanksInv'
      BY <1>1, <1>2, <1>4, <2>1, <2>3, <2>4 DEF BanksInv, Ready, Older
    <2>6. OpInv'
      BY <1>1, <1>2, <1>4, EmptyFits, NoOpFacts DEF OpInv
    <2>. QED BY <1>1, <2>2, <2>5, <2>6 DEF IInv
  <1>5. ASSUME NEW b \in BankIds, Leads(banks, b), Good(banks[b].cells, Recovered(banks))
        PROVE  IInv'
    <2>1. NewestBank(banks) = b /\ ValidBanks(banks) # {}
      BY <1>3, <1>5, NewestLeads
    <2>2. /\ active' = b /\ generation' = banks[b].hdr /\ cursor' = ReplayEnd(banks[b].cells)
          /\ compaction_pending' = ReplayTorn(banks[b].cells)
      BY <2>1 DEF Open
    <2>cells. PICK cells \in [Cells -> CellStates] : cells = banks[b].cells
      BY <1>3
    <2>3. PICK m : cells = banks[b].cells /\ m = Recovered(banks)
      BY <2>cells
    <2>4. PICK n \in 0 .. BankRecs : /\ Prefix(cells, n, m) /\ BlankBehind(cells, n + 1)
                                     /\ n < BankRecs => Stops(cells[n + 1])
      BY <1>5, <2>3 DEF Good
    <2>5. ReplayEnd(cells) = n
      BY <2>4, ReplayEnds DEF Prefix
    <2>6. m \in Maps /\ Fits(m)
      BY <2>4, ReplayType DEF Prefix
    <2>7. ReplayTorn(cells) <=> n < BankRecs /\ cells[n + 1] = TornLength
      BY <2>4, <2>5 DEF ReplayTorn, Cells
    <2>8. TypeOK'
      <3>1. ReplayTorn(cells) \in BOOLEAN
        BY DEF ReplayTorn
      <3>. QED BY <1>1, <1>3, <2>2, <2>3, <2>4, <2>5, <2>6, <3>1 DEF TypeOK
    <2>9. NextBank' \in BankIds /\ NextBank' # b
      BY <2>2, Successor DEF NextBank
    <2>10. \A x \in BankIds \ {b} : banks[x].hdr < banks[b].hdr
      BY <1>5 DEF Leads
    <2>11. banks[b].hdr # 0
      BY <1>5 DEF Leads
    <2>12. n < BankRecs => cells[n + 1] \in {Blank, TornLength}
      BY <2>4 DEF Stops
    <2>13. Ready(banks, b, banks[b].hdr, n, m, NoOp)
      BY <2>3, <2>4, <2>11, <2>12 DEF Ready
    <2>14. Older(banks, b, NextBank', banks[b].hdr, m)
      BY <2>9, <2>10 DEF Older
    <2>15. banks[NextBank'].hdr # banks[b].hdr + 1
      BY <1>3, <2>9, <2>10
    <2>16. BanksInv'
      BY <1>1, <1>2, <2>2, <2>3, <2>5, <2>7, <2>11, <2>12, <2>13, <2>14, <2>15 DEF BanksInv
    <2>17. OpInv'
      BY <1>1, <1>2, <2>3, <2>6, NoOpFacts DEF OpInv
    <2>. QED BY <1>1, <2>8, <2>16, <2>17 DEF IInv
  <1>. QED BY <1>2, <1>4, <1>5 DEF Kept

\* Wherever the power is cut, the medium keeps the mirror, or the mirror with
\* the operation under way or with the one that had failed.
LEMMA CrashKept ==
    ASSUME IInv, up, CrashInCall
    PROVE  /\ banks' \in Medium
           /\ \E m \in {mirror, Apply(mirror, op), Apply(mirror, failed)} : Kept(banks', m)
  <1>. USE UpFacts
  <1>1. Fits(Apply(mirror, op)) /\ Fits(Apply(mirror, failed))
    BY DEF OpInv
  <1>2. ASSUME banks' \in Medium,
               Ready(banks', active, generation, cursor, mirror, failed),
               Older(banks', active, NextBank, generation, mirror)
        PROVE  \E m \in {mirror, Apply(mirror, op), Apply(mirror, failed)} : Kept(banks', m)
    <2>1. Kept(banks', mirror) \/ Kept(banks', Apply(mirror, failed))
      BY <1>1, <1>2, ReadyKept DEF Medium
    <2>. QED BY <2>1
  <1>3. CASE banks' = banks
    <2>1. /\ banks' \in Medium
          /\ Ready(banks', active, generation, cursor, mirror, failed)
          /\ Older(banks', active, NextBank, generation, mirror)
      BY <1>3 DEF BanksInv
    <2>. QED BY <1>2, <2>1
  <1>4. ASSUME pc = "record",
               NEW c \in PartlyProgrammed(banks[active].cells[cursor + 1], Record(op)),
               banks' = [banks EXCEPT ![active].cells[cursor + 1] = c]
        PROVE  /\ banks' \in Medium
               /\ \E m \in {mirror, Apply(mirror, op), Apply(mirror, failed)} : Kept(banks', m)
    <2>1. /\ banks' \in Medium /\ op \in Ops
          /\ Ready(banks', active, generation, cursor, mirror, op)
          /\ Older(banks', active, NextBank, generation, mirror)
      BY <1>4, RecordPart
    <2>2. Kept(banks', mirror) \/ Kept(banks', Apply(mirror, op))
      BY <1>1, <2>1, ReadyKept DEF Medium
    <2>. QED BY <2>1, <2>2
  <1>5. ASSUME NEW v \in PartlyErased(banks[NextBank]), banks' = [banks EXCEPT ![NextBank] = v]
        PROVE  /\ banks' \in Medium
               /\ \E m \in {mirror, Apply(mirror, op), Apply(mirror, failed)} : Kept(banks', m)
    <2>1. /\ banks' \in Medium
          /\ Ready(banks', active, generation, cursor, mirror, failed)
          /\ Older(banks', active, NextBank, generation, mirror)
      BY <1>5, ErasePart
    <2>. QED BY <1>2, <2>1
  <1>6. ASSUME pc = "snapshot", NEW k \in todo,
               NEW c \in PartlyProgrammed(banks[NextBank].cells[wcur + 1], SnapshotRecord(k)),
               banks' = [banks EXCEPT ![NextBank].cells[wcur + 1] = c]
        PROVE  /\ banks' \in Medium
               /\ \E m \in {mirror, Apply(mirror, op), Apply(mirror, failed)} : Kept(banks', m)
    <2>1. /\ banks' \in Medium
          /\ Ready(banks', active, generation, cursor, mirror, failed)
          /\ Older(banks', active, NextBank, generation, mirror)
      BY <1>6, PushPart
    <2>. QED BY <1>2, <2>1
  <1>7. ASSUME pc = "snapshot", todo = {}, banks' = [banks EXCEPT ![NextBank].hdr = generation + 1]
        PROVE  /\ banks' \in Medium
               /\ \E m \in {mirror, Apply(mirror, op), Apply(mirror, failed)} : Kept(banks', m)
    <2>1. PICK h \in {0, generation + 1} : h = generation + 1
      OBVIOUS
    <2>2. banks' = [banks EXCEPT ![NextBank].hdr = h]
      BY <1>7, <2>1
    <2>3. /\ banks' \in Medium
          /\ Ready(banks', active, generation, cursor, mirror, failed)
          /\ Older(banks', active, NextBank, generation, mirror)
      BY <1>7, <2>2, HeaderPart
    <2>. QED BY <1>2, <2>3
  <1>. QED BY <1>3, <1>4, <1>5, <1>6, <1>7 DEF CrashInCall

\* What the medium keeps is what the device finds at the next boot.
LEMMA CrashOK ==
    ASSUME IInv, Crash
    PROVE  /\ IInv'
           /\ Recovered(banks') \in {mirror, Apply(mirror, op), Apply(mirror, failed)}
  <1>1. up /\ CrashInCall /\ PowerOff
    BY DEF Crash
  <1>2. PICK m \in {mirror, Apply(mirror, op), Apply(mirror, failed)} : Kept(banks', m)
    BY <1>1, CrashKept
  <1>3. banks' \in Medium
    BY <1>1, CrashKept
  <1>4. Recovered(banks') = m
    BY <1>2, <1>3, KeptRecovered DEF Medium
  <1>5. /\ up' = FALSE /\ active' = Banks - 1 /\ cursor' = 0 /\ generation' = 0
        /\ compaction_pending' = TRUE /\ mirror' = EmptyMap /\ failed' = NoOp
        /\ op' = NoOp /\ pc' = "idle" /\ todo' = {} /\ wcur' = 0
    BY <1>1 DEF PowerOff, Idle
  <1>6. TypeOK'
    <2>1. active' \in BankIds /\ cursor' \in 0 .. BankRecs /\ generation' \in 0 .. MaxGen
          /\ wcur' \in 0 .. BankRecs
      BY <1>5, Counts DEF BankIds
    <2>2. mirror' \in Maps
      BY <1>5, EmptyFits
    <2>3. up' \in BOOLEAN /\ compaction_pending' \in BOOLEAN
      BY ONLY <1>5
    <2>. QED BY <1>3, <1>5, <2>1, <2>2, <2>3 DEF TypeOK, Medium
  <1>7. OffInv'
    BY <1>2, <1>4, <1>5 DEF OffInv
  <1>. QED BY <1>2, <1>4, <1>5, <1>6, <1>7 DEF IInv

\* A region without a valid bank keeps the empty map.
LEMMA InitOK ==
    ASSUME Init
    PROVE  IInv /\ Recovered(banks) = EmptyMap
  <1>. USE Counts
  <1>1. /\ BlankBank \in [hdr: 0 .. MaxGen, cells: [Cells -> CellStates]] /\ BlankBank.hdr = 0
        /\ ForeignBank \in [hdr: 0 .. MaxGen, cells: [Cells -> CellStates]] /\ ForeignBank.hdr = 0
    BY WrittenFacts DEF BlankBank, ForeignBank
  <1>2. banks \in [BankIds -> [hdr: 0 .. MaxGen, cells: [Cells -> CellStates]]]
    BY <1>1 DEF Init
  <1>3. \A b \in BankIds : banks[b].hdr = 0
    BY <1>1 DEF Init
  <1>4. ValidBanks(banks) = {}
    BY <1>3 DEF ValidBanks
  <1>5. Recovered(banks) = EmptyMap /\ Kept(banks, Recovered(banks))
    BY <1>4 DEF Recovered, Kept
  <1>6. TypeOK
    <2>1. active \in BankIds /\ cursor \in 0 .. BankRecs /\ generation \in 0 .. MaxGen
          /\ wcur \in 0 .. BankRecs
      BY DEF Init, BankIds
    <2>2. mirror \in Maps
      BY EmptyFits DEF Init
    <2>3. up \in BOOLEAN /\ compaction_pending \in BOOLEAN
      BY Zenon DEF Init
    <2>. QED BY <1>2, <2>1, <2>2, <2>3 DEF TypeOK, Init
  <1>7. OffInv
    BY <1>5 DEF OffInv, Init
  <1>8. ~up
    BY DEF Init
  <1>. QED BY <1>5, <1>6, <1>7, <1>8 DEF IInv

\* Between two steps of the device the record, erase and snapshot calls are
\* made while it runs.
LEMMA CallsUp ==
    ASSUME IInv, pc # "idle"
    PROVE  up
  BY DEF IInv, OffInv

\* Every step keeps the invariant.
LEMMA NextOK ==
    ASSUME IInv, [Next]_vars
    PROVE  IInv'
  <1>1. CASE Open
    BY <1>1, OpenOK
  <1>2. ASSUME NEW o \in Ops, Begin(o)
        PROVE  IInv'
    BY <1>2, BeginOK
  <1>3. CASE WriteRecord
    <2>1. up
      BY <1>3, CallsUp DEF WriteRecord
    <2>. QED BY <1>3, <2>1, WriteRecordOK
  <1>4. CASE WriteRecordError
    <2>1. up
      BY <1>4, CallsUp DEF WriteRecordError
    <2>. QED BY <1>4, <2>1, WriteRecordErrorOK
  <1>5. CASE Erase
    <2>1. up
      BY <1>5, CallsUp DEF Erase
    <2>. QED BY <1>5, <2>1, EraseOK
  <1>6. CASE EraseError
    <2>1. up
      BY <1>6, CallsUp DEF EraseError
    <2>. QED BY <1>6, <2>1, EraseErrorOK
  <1>7. ASSUME NEW k \in Keys, Push(k)
        PROVE  IInv'
    <2>1. up
      BY <1>7, CallsUp DEF Push
    <2>. QED BY <1>7, <2>1, PushOK
  <1>8. ASSUME NEW k \in Keys, PushError(k)
        PROVE  IInv'
    <2>1. up
      BY <1>8, CallsUp DEF PushError
    <2>. QED BY <1>8, <2>1, PushErrorOK
  <1>9. CASE WriteHeader
    <2>1. up
      BY <1>9, CallsUp DEF WriteHeader
    <2>. QED BY <1>9, <2>1, WriteHeaderOK
  <1>10. CASE WriteHeaderError
    <2>1. up
      BY <1>10, CallsUp DEF WriteHeaderError
    <2>. QED BY <1>10, <2>1, WriteHeaderErrorOK
  <1>11. CASE Crash
    BY <1>11, CrashOK
  <1>12. CASE ReturnAbsent
    <2>1. up
      BY <1>12, CallsUp DEF ReturnAbsent
    <2>. QED BY <1>12, <2>1, ReturnAbsentOK
  <1>13. CASE UNCHANGED vars
    <2>1. UNCHANGED <<banks, up, active, cursor, generation, compaction_pending, mirror, op, pc,
                      todo, wcur, failed>>
      BY <1>13 DEF vars, logVars, opVars
    <2>2. TypeOK'
      BY <2>1 DEF IInv, TypeOK
    <2>3. NextBank' = NextBank /\ Pushed' = Pushed
      BY <2>1 DEF NextBank, Pushed
    <2>4. up => BanksInv' /\ OpInv'
      BY <2>1, <2>3 DEF IInv, BanksInv, OpInv
    <2>5. ~up => OffInv'
      BY <2>1 DEF IInv, OffInv
    <2>. QED BY <2>1, <2>2, <2>4, <2>5 DEF IInv
  <1>. QED BY <1>1, <1>2, <1>3, <1>4, <1>5, <1>6, <1>7, <1>8, <1>9, <1>10, <1>11, <1>12,
              <1>13 DEF Next

\* The strengthened invariant.
THEOREM Invariant == Spec => []IInv
  <1>1. Init => IInv
    BY InitOK
  <1>2. IInv /\ [Next]_vars => IInv'
    BY NextOK
  <1>. QED BY <1>1, <1>2, PTL DEF Spec

\* Every variable keeps its type: no cursor leaves its bank.
THEOREM TypeCorrect == Spec => []TypeOK
  <1>1. IInv => TypeOK
    BY DEF IInv
  <1>. QED BY <1>1, Invariant, PTL

\* Whenever the power is cut, a boot rebuilds the mirror, or the mirror with
\* the one operation whose record write had reported an error.
THEOREM RecoveryIsSafe == Spec => []RecoverySafe
  <1>1. IInv => RecoverySafe
    <2>1. SUFFICES ASSUME IInv, up
                   PROVE  Recovered(banks) \in {mirror, Apply(mirror, failed)}
      BY DEF RecoverySafe
    <2>. USE <2>1, UpFacts
    <2>2. /\ Ready(banks, active, generation, cursor, mirror, failed)
          /\ Older(banks, active, NextBank, generation, mirror)
          /\ Fits(Apply(mirror, failed))
      BY DEF BanksInv, OpInv
    <2>3. Kept(banks, mirror) \/ Kept(banks, Apply(mirror, failed))
      BY <2>2, ReadyKept DEF Medium
    <2>. QED BY <2>3, KeptRecovered DEF Medium
  <1>. QED BY <1>1, Invariant, PTL

\* No record is programmed over octets that are not erased, and none past the
\* end of its bank.
THEOREM NothingReprogrammed == Spec => []NeverReprogrammed
  <1>1. IInv => NeverReprogrammed
    <2>1. SUFFICES ASSUME IInv
                   PROVE  NeverReprogrammed
      OBVIOUS
    <2>2. ASSUME pc = "record"
          PROVE  cursor < BankRecs /\ banks[active].cells[cursor + 1] = Blank
      BY <2>1, <2>2, CallsUp DEF IInv, BanksInv, OpInv
    <2>3. ASSUME pc = "snapshot", todo # {}
          PROVE  wcur < BankRecs /\ banks[NextBank].cells[wcur + 1] = Blank
      <3>1. PICK k \in todo : TRUE
        BY <2>3
      <3>2. up
        BY <2>1, <2>3, CallsUp
      <3>. QED BY <2>1, <2>3, <3>1, <3>2, PushRoom
    <2>. QED BY <2>2, <2>3 DEF NeverReprogrammed
  <1>. QED BY <1>1, Invariant, PTL

\* No replay needs more room than the mirror has, at no record on its way.
THEOREM ReplayAlwaysFits == Spec => []ReplayFits
  <1>1. IInv => ReplayFits
    <2>1. SUFFICES ASSUME IInv, ~up, ValidBanks(banks) # {}
                   PROVE  \A n \in Cells :
                            Cardinality(LiveKeys(ReplayTo(banks[NewestBank(banks)].cells, n))) <= Entries
      BY DEF ReplayFits
    <2>2. banks \in Medium /\ Kept(banks, Recovered(banks))
      BY <2>1 DEF IInv, OffInv, TypeOK, Medium
    <2>3. PICK b \in BankIds : Leads(banks, b) /\ Good(banks[b].cells, Recovered(banks))
      BY <2>1, <2>2 DEF Kept
    <2>4. NewestBank(banks) = b
      <3>1. \A c \in BankIds : banks[c].hdr \in Nat
        BY <2>2, Counts DEF Medium
      <3>. QED BY <2>3, <3>1, NewestLeads
    <2>5. PICK cells \in [Cells -> CellStates] : cells = banks[b].cells
      BY <2>2 DEF Medium
    <2>6. PICK m : m = Recovered(banks)
      OBVIOUS
    <2>7. PICK e \in 0 .. BankRecs : Prefix(cells, e, m) /\ (e < BankRecs => Stops(cells[e + 1]))
      BY <2>3, <2>5, <2>6 DEF Good
    <2>8. /\ \A j \in e .. BankRecs : ReplayTo(cells, j) = ReplayTo(cells, e)
          /\ \A j \in 1 .. e : Fits(ReplayTo(cells, j))
          /\ Fits(ReplayTo(cells, e))
      BY <2>7, ReplayEnds DEF Prefix
    <2>9. \A n \in Cells : Fits(ReplayTo(cells, n))
      <3>1. \A n \in Cells : n \in 1 .. e \/ n \in e .. BankRecs
        BY <2>7, Counts DEF Cells
      <3>. QED BY <2>8, <3>1
    <2>. QED BY <2>4, <2>5, <2>9 DEF Fits
  <1>. QED BY <1>1, Invariant, PTL

-----------------------------------------------------------------------------
(* Refinement: step by step, the store does what a durable map does.       *)

\* The map's operators are the store's.
LEMMA SameMap ==
    /\ Abs!EmptyMap = EmptyMap /\ Abs!NoOp = NoOp /\ Abs!Ops = Ops
    /\ \A m, o : Abs!Apply(m, o) = Apply(m, o)
    /\ \A m, o : Abs!RemovesAbsent(m, o) <=> RemovesAbsent(m, o)
  BY DEF Abs!RemovesAbsent, RemovesAbsent, Abs!Contains, Contains, Abs!EmptyMap, EmptyMap, Abs!NoOp, NoOp, Abs!Ops, Ops, Abs!Puts, Puts, Abs!Removes, Removes,
         Abs!Apply, Apply

\* WearLeveledKv is a durable map: an operation that returned Ok survives
\* every power cut and every failed compaction, and none is half applied.  A
\* remove that returned Ok without finding its key has changed nothing, and a
\* put that failed before it may still surface.
THEOREM StoreIsDurable == Spec => ImplementsDurableMap
  <1>1. Init => Abs!AbsInit
    <2>1. SUFFICES ASSUME Init
                   PROVE  Abs!AbsInit
      OBVIOUS
    <2>2. Recovered(banks) = EmptyMap
      BY <2>1, InitOK
    <2>3. up = FALSE /\ op = NoOp /\ failed = NoOp
      BY <2>1 DEF Init
    <2>. QED BY <2>2, <2>3, SameMap DEF Abs!AbsInit
  <1>2. IInv /\ [Next]_vars => [Abs!AbsNext]_(Abs!absVars)
    <2>1. SUFFICES ASSUME IInv, [Next]_vars
                   PROVE  Abs!AbsNext \/ UNCHANGED Abs!absVars
      OBVIOUS
    <2>. USE <2>1, SameMap
    <2>2. CASE Open
      <3>1. /\ up = FALSE /\ up' = TRUE /\ mirror' = Recovered(banks)
            /\ UNCHANGED <<op, failed>>
        BY <2>2 DEF Open, opVars, IInv, TypeOK
      <3>2. Abs!AbsReboot
        BY <3>1 DEF Abs!AbsReboot
      <3>. QED BY <3>2 DEF Abs!AbsNext
    <2>3. ASSUME NEW o \in Ops, Begin(o)
          PROVE  Abs!AbsNext
      <3>1. up /\ up' /\ op = NoOp /\ op' = o /\ UNCHANGED <<up, mirror, failed>>
        BY <2>3 DEF Begin
      <3>2. Abs!AbsBegin
        BY <3>1 DEF Abs!AbsBegin
      <3>. QED BY <3>2 DEF Abs!AbsNext
    <2>4. CASE WriteRecord
      <3>1. /\ up /\ up' = up /\ op # NoOp /\ op' = NoOp /\ failed' = NoOp
            /\ mirror' = Apply(mirror, op) /\ ~RemovesAbsent(mirror, op)
        BY <2>4, CallsUp DEF WriteRecord, Idle, IInv, OpInv
      <3>2. Abs!AbsSucceed
        BY <3>1 DEF Abs!AbsSucceed
      <3>. QED BY <3>2 DEF Abs!AbsNext
    <2>5. CASE WriteRecordError \/ EraseError \/ WriteHeaderError \/ \E k \in Keys : PushError(k)
      <3>1. /\ pc # "idle" /\ up' = up /\ op' = NoOp /\ failed' \in {failed, op} /\ mirror' = mirror
        BY <2>5 DEF WriteRecordError, EraseError, WriteHeaderError, PushError, Idle
      <3>2. up /\ op # NoOp
        BY <3>1, CallsUp DEF IInv, OpInv
      <3>3. Abs!AbsFail
        BY <3>1, <3>2 DEF Abs!AbsFail
      <3>. QED BY <3>3 DEF Abs!AbsNext
    <2>6. CASE Erase \/ WriteHeader \/ \E k \in Keys : Push(k)
      <3>1. pc # "idle" /\ UNCHANGED <<up, op, failed, mirror>>
        BY <2>6 DEF Erase, WriteHeader, Push
      <3>2. up
        BY <3>1, CallsUp
      <3>. QED BY <3>1, <3>2 DEF Abs!absVars
    <2>7. CASE Crash
      <3>1. /\ up /\ ~up' /\ op' = NoOp /\ failed' = NoOp
        BY <2>7 DEF Crash, PowerOff, Idle
      <3>2. Recovered(banks') \in {mirror, Apply(mirror, op), Apply(mirror, failed)}
        BY <2>7, CrashOK
      <3>3. Recovered(banks)' = Recovered(banks')
        OBVIOUS
      <3>4. Abs!AbsCrash
        BY <3>1, <3>2, <3>3 DEF Abs!AbsCrash
      <3>. QED BY <3>4 DEF Abs!AbsNext
    <2>8. CASE ReturnAbsent
      <3>1. /\ pc = "return" /\ op' = NoOp /\ UNCHANGED <<up, mirror, failed>>
        BY <2>8 DEF ReturnAbsent, Idle
      <3>2. up /\ op # NoOp /\ RemovesAbsent(mirror, op) /\ mirror \in Maps
        BY <3>1, CallsUp DEF IInv, OpInv, TypeOK
      <3>3. Apply(mirror, op) = mirror
        BY <3>2, ApplyFacts DEF RemovesAbsent, Contains, Maps, Ops
      <3>4. Abs!AbsSucceed
        BY <3>1, <3>2, <3>3 DEF Abs!AbsSucceed
      <3>. QED BY <3>4 DEF Abs!AbsNext
    <2>9. CASE UNCHANGED vars
      <3>1. UNCHANGED <<up, mirror, banks, op, failed>>
        BY <2>9 DEF vars, logVars, opVars
      <3>. QED BY <3>1 DEF Abs!absVars
    <2>. QED BY <2>2, <2>3, <2>4, <2>5, <2>6, <2>7, <2>8, <2>9 DEF Next
  <1>. QED BY <1>1, <1>2, Invariant, PTL DEF Spec, ImplementsDurableMap, Abs!AbsSpec

=============================================================================
