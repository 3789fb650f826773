---------------------------- MODULE ConfigProofs ----------------------------
(***************************************************************************)
(* Proofs about ConfigStore: write-through persistence for every set of    *)
(* tables and images, both media and any number of requests, faults and    *)
(* power cuts.                                                             *)
(***************************************************************************)
EXTENDS ConfigStore, FiniteSetTheorems, TLAPS

-----------------------------------------------------------------------------
(* The inductive invariant.                                                *)

CtlLocs == {Ctl(t) : t \in Tables}
ValueOf(l) == IF l \in CtlLocs THEN LoadStates ELSE Values
ChunkWrites == UNION {{ChunkWrite(t, c) : c \in AllOf(t)} : t \in Tables}
CrcWrites == {CrcWrite(t) : t \in Tables}
RecordWrites == {RecordWrite(r) : r \in RecordLocs}
Writes == ChunkWrites \cup CrcWrites \cup RecordWrites
Slot(r) == [gen : 0 .. Gens - 1, val : ValueOf(r), ok : BOOLEAN]
Frames == [k : {"ack", "resp"}] \cup [k : {"restart"}, due : Values]

\* The live state, the dirty tracking and the Flusher.
DeviceType ==
    /\ ram = [l \in Locs |-> ram[l]] /\ \A l \in Locs : ram[l] \in ValueOf(l)
    /\ dirty \in BOOLEAN /\ resync \in BOOLEAN
    /\ ranges \in [Tables -> SUBSET Nat] /\ \A t \in Tables : ranges[t] \subseteq AllOf(t)
    /\ touched \subseteq Locs

\* Both media.
MediumType ==
    /\ kind \in Media
    /\ img \in [ImageLocs -> Values]
    /\ crc = [t \in Tables |-> crc[t]]
    /\ rec = [r \in RecordLocs |-> rec[r]] /\ \A r \in RecordLocs : rec[r] \in ValueOf(r)
    /\ idx = [r \in RecordLocs |-> idx[r]]
    /\ slots = [r \in RecordLocs |-> slots[r]]
    /\ \A r \in RecordLocs : slots[r] \in [{0, 1} -> Slot(r)]
    /\ used \in 0 .. BankRecs /\ pending \in BOOLEAN /\ blocked \in BOOLEAN

\* The router, the storage task and the bounds.
ControlType ==
    /\ pass \in {"idle", "take", "send", "yield", "off"}
    /\ outbox \in Seq(Frames) /\ parked \in Seq(Frames)
    /\ signal \in BOOLEAN /\ request \in Codes \cup {NoRequest}
    /\ task \in [at : {"idle", "drain", "settle", "reset"}, code : Codes \cup {NoRequest}]
    /\ left \in [ops : Nat, faults : 0 .. MaxFaults, cuts : Nat]
    /\ answer \in [src : Values, due : Values] /\ late \in BOOLEAN

\* The flush under way has taken the ranges; only a log is compacted.
FlushOk ==
    /\ flush \in [by : {"none", "send", "end", "task", "compact"}, todo : SUBSET Writes]
    /\ ~Flushing => flush.todo = {}
    /\ Flushing \/ pass = "off" => ranges = NoMark
    /\ flush.by = "compact" => kind = "flash"
    /\ pass = "off" => flush = NoFlush

\* Where the router flushes, and when it has nothing to send.
Control ==
    /\ flush.by \in {"send", "end"} => pass = "take"
    /\ flush.by = "end" => outbox = <<>>
    /\ pass \in {"idle", "off"} => outbox = <<>>

\* An image chunk that differs from its durable copy is known: a flush under
\* way will write it, or the next one will.
ImageKnown ==
    pass # "off" =>
        \A t \in Tables : \A c \in AllOf(t) :
            img[Chunk(t, c)] # ram[Chunk(t, c)] =>
                IF Flushing THEN ChunkWrite(t, c) \in flush.todo ELSE resync \/ c \in ranges[t]

\* A flush under way will write every Record that differs.
RecordKnown == Flushing => \A r \in RecordLocs : ~RecordMatches(r) => RecordWrite(r) \in flush.todo

\* flash: the index names the Record the log holds, unless a write that
\* reported an error landed; then nothing is appended before a compaction,
\* and every flush has something to append.
IndexExact ==
    kind = "flash" /\ pass # "off" /\ (\E r \in RecordLocs : rec[r] # idx[r]) =>
        pending /\ resync /\ (Flushing => flush.todo # {})

\* A tracked change that no flush has covered is flagged.
ChangeFlagged == pass # "off" /\ touched \ {Count} # {} => dirty

\* A marked range belongs to a table the device has written.
RangesTouched == \A t \in Tables : ranges[t] # {} => touched \cap ChunksOf(t) # {}

\* byte: only a medium error leaves a resync behind.
ResyncIsFault == kind = "byte" /\ ~Flushing /\ resync => left.faults < MaxFaults

\* byte: an image's CRC is written after its chunks, and there is a reason
\* why it is written; an image whose CRC does not cover it has that CRC still
\* to come, was left so by a medium error or by an earlier cut, or is the one
\* the power was cut on.
Excused(t) == touched \cap ChunksOf(t) # {} \/ left.faults < MaxFaults \/ Overflow
CrcExcused == \A t \in Tables : CrcWrite(t) \in flush.todo => Excused(t)
CrcFollows ==
    kind = "byte" =>
        \A t \in Tables : \A c \in AllOf(t) :
            ChunkWrite(t, c) \in flush.todo => CrcWrite(t) \in flush.todo
StaleExcused ==
    \A t \in Tables : Stale(t) =>
        \/ left.faults < MaxFaults \/ t \in partial
        \/ IF pass = "off" THEN Excused(t) ELSE CrcWrite(t) \in flush.todo
Crcs == ResyncIsFault /\ CrcExcused /\ CrcFollows /\ StaleExcused

\* A restart response still queued goes out from the address it was due from.
ResponsesDue ==
    /\ parked # <<>> => late
    /\ ~late => \A n \in 1 .. Len(outbox) :
                    outbox[n].k = "restart" => outbox[n].due = ram[IA]

\* Every Record has a valid slot.
RecordsValid == \A r \in RecordLocs : Valid(r) # {}

Data == AckedSurvives /\ RecordsValid /\ ImageKnown /\ RecordKnown /\ IndexExact
StoreInv ==
    /\ DeviceType /\ MediumType /\ FlushOk
    /\ Data /\ ChangeFlagged /\ RangesTouched /\ Crcs
ControlInv == ControlType /\ Control /\ ResponsesDue /\ AnsweredFromOldAddress
ConfigInv == StoreInv /\ ControlInv

-----------------------------------------------------------------------------
(* Locations and writes.                                                   *)

\* Two sections never share a location.
LEMMA LocsDistinct ==
    ASSUME NEW t, NEW u, NEW c, NEW d
    PROVE  /\ IA # Count /\ IA # Ctl(t) /\ Count # Ctl(t)
           /\ (Ctl(t) = Ctl(u) => t = u)
           /\ Chunk(t, c) # IA /\ Chunk(t, c) # Count /\ Chunk(t, c) # Ctl(u)
           /\ (Chunk(t, c) = Chunk(u, d) => t = u /\ c = d)
<1>1. IA # Count
  BY DEF IA, Count
<1>2. IA # Ctl(t) /\ Count # Ctl(t)
  BY Len(IA) = 1, Len(Count) = 1, Len(Ctl(t)) = 2 DEF IA, Count, Ctl
<1>3. Ctl(t) = Ctl(u) => t = u
  BY Ctl(t)[2] = t, Ctl(u)[2] = u DEF Ctl
<1>4. Chunk(t, c) # IA /\ Chunk(t, c) # Count /\ Chunk(t, c) # Ctl(u)
  BY Len(Chunk(t, c)) = 3, Len(IA) = 1, Len(Count) = 1, Len(Ctl(u)) = 2 DEF IA, Count, Ctl, Chunk
<1>5. Chunk(t, c) = Chunk(u, d) => t = u /\ c = d
  BY Chunk(t, c)[2] = t, Chunk(u, d)[2] = u, Chunk(t, c)[3] = c, Chunk(u, d)[3] = d DEF Chunk
<1> QED
  BY <1>1, <1>2, <1>3, <1>4, <1>5

\* What a location is.
LEMMA LocsFacts ==
    /\ Locs = RecordLocs \cup ImageLocs /\ RecordLocs \cap ImageLocs = {}
    /\ IA \in RecordLocs /\ Count \in RecordLocs
    /\ IA \notin CtlLocs /\ Count \notin CtlLocs /\ CtlLocs \subseteq RecordLocs
    /\ RecordLocs = {IA, Count} \cup CtlLocs
    /\ CtlLocs \cap ImageLocs = {}
    /\ \A t \in Tables : Ctl(t) \in CtlLocs /\ \A c \in AllOf(t) : Chunk(t, c) \in ImageLocs
    /\ \A l \in ImageLocs : \E t \in Tables : \E c \in AllOf(t) : l = Chunk(t, c)
    /\ \A l \in CtlLocs : \E t \in Tables : l = Ctl(t)
<1>1. \A t \in Tables : Ctl(t) \in CtlLocs
  BY DEF CtlLocs
<1>2. \A t \in Tables : \A c \in AllOf(t) : Chunk(t, c) \in ImageLocs
  BY DEF ImageLocs, ChunksOf, AllOf
<1>3. \A l \in ImageLocs : \E t \in Tables : \E c \in AllOf(t) : l = Chunk(t, c)
  BY DEF ImageLocs, ChunksOf, AllOf
<1>4. \A l \in CtlLocs : \E t \in Tables : l = Ctl(t)
  BY DEF CtlLocs
<1>5. RecordLocs = {IA, Count} \cup CtlLocs
  BY DEF RecordLocs, CtlLocs
<1>6. IA \notin CtlLocs /\ Count \notin CtlLocs
  BY <1>4, LocsDistinct
<1>7. RecordLocs \cap ImageLocs = {} /\ CtlLocs \cap ImageLocs = {}
  BY <1>3, <1>4, <1>5, LocsDistinct
<1> QED
  BY <1>1, <1>2, <1>3, <1>4, <1>5, <1>6, <1>7 DEF Locs

\* The chunks of a table are its own.
LEMMA ChunksFacts ==
    ASSUME NEW t \in Tables
    PROVE  /\ \A c \in AllOf(t) : Chunk(t, c) \in ChunksOf(t)
           /\ \A l \in ChunksOf(t) : \E c \in AllOf(t) : l = Chunk(t, c)
           /\ ChunksOf(t) \subseteq ImageLocs
           /\ \A u \in Tables : \A c \in AllOf(u) : Chunk(u, c) \in ChunksOf(t) => u = t
<1>1. /\ \A c \in AllOf(t) : Chunk(t, c) \in ChunksOf(t)
      /\ \A l \in ChunksOf(t) : \E c \in AllOf(t) : l = Chunk(t, c)
  BY DEF ChunksOf, AllOf
<1>2. ChunksOf(t) \subseteq ImageLocs
  BY DEF ImageLocs
<1>3. \A u \in Tables : \A c \in AllOf(u) : Chunk(u, c) \in ChunksOf(t) => u = t
  BY <1>1, LocsDistinct
<1> QED
  BY <1>1, <1>2, <1>3

LEMMA AllOfFacts ==
    ASSUME NEW t \in Tables
    PROVE  AllOf(t) \subseteq Nat /\ 1 \in AllOf(t) /\ Size[t] + 1 \notin AllOf(t)
BY SizeAssumption DEF AllOf

\* Three kinds of write, told apart by what they carry.
LEMMA WriteFacts ==
    /\ \A t, u \in Tables : \A c, d :
          /\ ChunkWrite(t, c) # CrcWrite(u)
          /\ (ChunkWrite(t, c) = ChunkWrite(u, d) => t = u /\ c = d)
          /\ (CrcWrite(t) = CrcWrite(u) => t = u)
    /\ \A t \in Tables : \A c, r : ChunkWrite(t, c) # RecordWrite(r) /\ CrcWrite(t) # RecordWrite(r)
    /\ \A q, r : RecordWrite(q) = RecordWrite(r) => q = r
<1>1. \A t, u, c, d : /\ ChunkWrite(t, c).w = "chunk" /\ ChunkWrite(t, c).t = t /\ ChunkWrite(t, c).c = c
                      /\ CrcWrite(t).w = "crc" /\ CrcWrite(t).t = t
  BY DEF ChunkWrite, CrcWrite
<1>2. \A r : RecordWrite(r).w = "record" /\ RecordWrite(r).l = r
  BY DEF RecordWrite
<1> QED
  BY <1>1, <1>2

\* What a write is, by its kind.
LEMMA WriteKinds ==
    ASSUME NEW i \in Writes
    PROVE  \/ \E t \in Tables : \E c \in AllOf(t) :
                i = ChunkWrite(t, c) /\ i.w = "chunk" /\ i.t = t /\ i.c = c
           \/ \E t \in Tables : i = CrcWrite(t) /\ i.w = "crc" /\ i.t = t /\ i.c = Size[t] + 1
           \/ \E r \in RecordLocs : i = RecordWrite(r) /\ i.w = "record" /\ i.l = r
<1>1. CASE i \in ChunkWrites
  <2>1. PICK t \in Tables : i \in {ChunkWrite(t, c) : c \in AllOf(t)}
    BY <1>1 DEF ChunkWrites
  <2>2. PICK c \in AllOf(t) : i = ChunkWrite(t, c)
    BY <2>1
  <2> QED
    BY <2>2 DEF ChunkWrite
<1>2. CASE i \in CrcWrites
  <2>1. PICK t \in Tables : i = CrcWrite(t)
    BY <1>2 DEF CrcWrites
  <2>2. CrcWrite(t).w = "crc" /\ CrcWrite(t).t = t /\ CrcWrite(t).c = Size[t] + 1
    BY DEF CrcWrite
  <2> QED
    BY <2>1, <2>2
<1>3. CASE i \in RecordWrites
  <2>1. PICK r \in RecordLocs : i = RecordWrite(r)
    BY <1>3 DEF RecordWrites
  <2>2. RecordWrite(r).w = "record" /\ RecordWrite(r).l = r
    BY DEF RecordWrite
  <2> QED
    BY <2>1, <2>2
<1> QED
  BY <1>1, <1>2, <1>3 DEF Writes

-----------------------------------------------------------------------------
(* The byte medium's slots.                                                *)

LEMMA GensFacts == Gens \in Nat /\ Gens >= 4 /\ Gens \div 2 >= 2 /\ Gens \div 2 <= Gens - 2
BY BoundsAssumption

\* Generations that follow each other compare as newer and as older, across
\* the wrap too.
LEMMA NextGeneration ==
    ASSUME NEW g \in 0 .. Gens - 1, NEW h, h = (g + 1) % Gens
    PROVE  h \in 0 .. Gens - 1 /\ (h - g) % Gens = 1 /\ (g - h) % Gens = Gens - 1
<1>1. CASE g = Gens - 1
  <2>1. h = 0
    BY <1>1, GensFacts
  <2>2. (0 - g) % Gens = 1
    BY <1>1, GensFacts
  <2>3. (g - 0) % Gens = Gens - 1
    BY <1>1, GensFacts
  <2> QED
    BY <2>1, <2>2, <2>3, GensFacts
<1>2. CASE g < Gens - 1
  <2>1. h = g + 1
    BY <1>2, GensFacts
  <2>2. ((g + 1) - g) % Gens = 1
    BY <1>2, GensFacts
  <2>3. (g - (g + 1)) % Gens = Gens - 1
    BY <1>2, GensFacts
  <2> QED
    BY <1>2, <2>1, <2>2, <2>3, GensFacts
<1> QED
  BY <1>1, <1>2, GensFacts

\* The newest slot of a Record is a valid one.
LEMMA NewestFacts ==
    ASSUME NEW r, Valid(r) # {}
    PROVE  Newest(r) \in {0, 1} /\ Newest(r) \in Valid(r) /\ TargetSlot(r) = 1 - Newest(r)
           /\ TargetSlot(r) \in {0, 1} /\ TargetSlot(r) # Newest(r)
<1>1. Valid(r) \subseteq {0, 1}
  BY DEF Valid
<1>2. CASE Valid(r) = {0}
  <2>1. Newest(r) = 0
    BY <1>2 DEF Newest
  <2> QED
    BY <1>2, <2>1 DEF TargetSlot
<1>3. CASE Valid(r) = {1}
  <2>1. {0} # {1}
    BY 0 \in {0}, 0 \notin {1}
  <2>2. Newest(r) = 1
    BY <1>3, <2>1 DEF Newest
  <2> QED
    BY <1>3, <2>2 DEF TargetSlot
<1>4. CASE Valid(r) = {0, 1}
  <2>1. {0, 1} # {1} /\ {0, 1} # {0}
    BY 0 \in {0, 1}, 0 \notin {1}, 1 \in {0, 1}, 1 \notin {0}
  <2>2. Newest(r) = 0 \/ Newest(r) = 1
    BY <1>4, <2>1 DEF Newest
  <2> QED
    BY <1>4, <2>2 DEF TargetSlot
<1> QED
  BY <1>1, <1>2, <1>3, <1>4

\* A slot written in full becomes the newest, for every pair of generations
\* the slots may have had; a slot cut short leaves the newest what it was.
LEMMA SlotStep ==
    ASSUME NEW r \in RecordLocs, MediumType, Valid(r) # {}, NEW v \in ValueOf(r), NEW b \in BOOLEAN,
           slots'[r] = [s \in {0, 1} |-> slots'[r][s]],
           slots'[r][TargetSlot(r)] = [gen |-> NextGen(r), val |-> v, ok |-> b],
           \A s \in {0, 1} : s # TargetSlot(r) => slots'[r][s] = slots[r][s]
    PROVE  /\ Valid(r)' # {}
           /\ slots'[r] \in [{0, 1} -> Slot(r)]
           /\ b => slots'[r][Newest(r)'].val = v
           /\ ~b => slots'[r][Newest(r)'].val = slots[r][Newest(r)].val
<1> DEFINE n == Newest(r)
           m == 1 - n
<1>1. /\ n \in {0, 1} /\ slots[r][n].ok /\ TargetSlot(r) = m /\ m \in {0, 1} /\ m # n
  BY NewestFacts DEF Valid
<1>2. slots[r] \in [{0, 1} -> Slot(r)]
  BY DEF MediumType
<1>3. slots[r][n] \in Slot(r)
  BY <1>1, <1>2
<1>4. slots[r][n].gen \in 0 .. Gens - 1
  BY <1>3 DEF Slot
<1>5. PICK g \in 0 .. Gens - 1 : g = slots[r][n].gen
  BY <1>4
<1>6. PICK h : h = (g + 1) % Gens /\ NextGen(r) = h
  BY <1>5 DEF NextGen
<1>7. h \in 0 .. Gens - 1 /\ (h - g) % Gens = 1 /\ (g - h) % Gens = Gens - 1
  BY <1>6, NextGeneration
<1>8. [gen |-> NextGen(r), val |-> v, ok |-> b] \in Slot(r)
  BY <1>6, <1>7 DEF Slot
<1>9. slots'[r] \in [{0, 1} -> Slot(r)]
  <2>1. \A s \in {0, 1} : slots'[r][s] \in Slot(r)
    BY <1>1, <1>2, <1>8
  <2> QED
    BY <2>1
<1>10. /\ slots'[r][n] = slots[r][n]
       /\ slots'[r][m].gen = h /\ slots'[r][m].val = v /\ slots'[r][m].ok = b
  BY <1>1, <1>2, <1>6
<1> HIDE DEF n, m
<1>11. Valid(r)' = {s \in {0, 1} : slots'[r][s].ok}
  BY DEF Valid
<1>12. {0, 1} = {n, m}
  BY <1>1 DEF m
<1>13. CASE b
  <2>1. Valid(r)' = {0, 1}
    BY <1>10, <1>11, <1>12, <1>13, <1>1
  <2>0. {0, 1} # {1} /\ {0, 1} # {0}
    BY 0 \in {0, 1}, 0 \notin {1}, 1 \in {0, 1}, 1 \notin {0}
  <2>2. Newest(r)' = IF (slots'[r][1].gen - slots'[r][0].gen) % Gens \in 1 .. (Gens \div 2 - 1)
                     THEN 1 ELSE 0
    BY <2>0, <2>1 DEF Newest
  <2>3. Newest(r)' = m
    <3>1. CASE n = 0
      <4>1. m = 1
        BY <3>1 DEF m
      <4>2. slots'[r][1].gen = h /\ slots'[r][0].gen = g
        BY <3>1, <4>1, <1>5, <1>10
      <4>3. 1 \in 1 .. (Gens \div 2 - 1)
        BY GensFacts
      <4> QED
        BY <1>7, <2>2, <4>1, <4>2, <4>3
    <3>2. CASE n = 1
      <4>1. m = 0
        BY <3>2 DEF m
      <4>2. slots'[r][0].gen = h /\ slots'[r][1].gen = g
        BY <3>2, <4>1, <1>5, <1>10
      <4>3. Gens - 1 \notin 1 .. (Gens \div 2 - 1)
        BY GensFacts
      <4> QED
        BY <1>7, <2>2, <4>1, <4>2, <4>3
    <3> QED
      BY <1>1, <3>1, <3>2
  <2> QED
    BY <1>9, <1>10, <1>13, <2>1, <2>3
<1>14. CASE ~b
  <2>1. Valid(r)' = {n}
    BY <1>10, <1>11, <1>12, <1>14, <1>1
  <2>2. Newest(r)' = n
    <3>1. {0} # {1}
      BY 0 \in {0}, 0 \notin {1}
    <3>2. CASE n = 0
      BY <3>2, <2>1 DEF Newest
    <3>3. CASE n = 1
      BY <3>1, <3>3, <2>1 DEF Newest
    <3> QED
      BY <1>1, <3>2, <3>3
  <2> QED
    BY <1>9, <1>10, <1>14, <2>1, <2>2 DEF n
<1> QED
  BY <1>13, <1>14

-----------------------------------------------------------------------------
(* Changes of the live state.                                              *)

\* Arguments of Apply: marks lie within the images and cover every chunk that
\* changes, and an untracked change concerns the counters only.
ApplyOk(new, M, tracked) ==
    /\ new = [l \in Locs |-> new[l]] /\ \A l \in Locs : new[l] \in ValueOf(l)
    /\ \A t \in Tables : M[t] \subseteq AllOf(t)
    /\ \A t \in Tables : \A c \in AllOf(t) : new[Chunk(t, c)] # ram[Chunk(t, c)] => c \in M[t]
    /\ tracked \in BOOLEAN
    /\ ~tracked => (\A t \in Tables : M[t] = {}) /\ \A l \in Locs \ {Count} : new[l] = ram[l]

\* What a change of the live state leaves behind.
LiveStep ==
    /\ DeviceType'
    /\ touched \subseteq touched' /\ \A l \in Locs \ touched' : ram'[l] = ram[l]
    /\ \A t \in Tables : ranges[t] \subseteq ranges'[t]
    /\ \A t \in Tables : \A c \in AllOf(t) :
          ram'[Chunk(t, c)] # ram[Chunk(t, c)] => c \in ranges'[t]
    /\ \A t \in Tables : ranges'[t] # {} => ranges[t] # {} \/ touched' \cap ChunksOf(t) # {}
    /\ touched' \ {Count} # {} => touched \ {Count} # {} \/ dirty'
    /\ dirty => dirty'

LEMMA MergeFacts ==
    ASSUME NEW t \in Tables, NEW S, S \subseteq AllOf(t), ranges[t] \subseteq AllOf(t)
    PROVE  /\ Merge(t, S) \subseteq AllOf(t) /\ S \subseteq Merge(t, S) /\ ranges[t] \subseteq Merge(t, S)
           /\ (Merge(t, S) # {} => ranges[t] # {} \/ S # {})
<1>1. AllOf(t) \subseteq Nat
  BY AllOfFacts
<1>2. Merge(t, S) = {c \in AllOf(t) : \E a, b \in ranges[t] \cup S : a <= c /\ c <= b}
  BY DEF Merge, AllOf
<1>3. \A c \in ranges[t] \cup S : c \in AllOf(t) /\ c <= c
  BY <1>1
<1> QED
  BY <1>2, <1>3

LEMMA ApplyStep ==
    ASSUME NEW new, NEW M, NEW tracked, DeviceType, resync' = resync,
           ApplyOk(new, M, tracked), Apply(new, M, tracked)
    PROVE  LiveStep
<1>1. /\ ram' = new /\ ranges' = [t \in Tables |-> Merge(t, M[t])]
      /\ dirty' = (dirty \/ tracked)
      /\ touched' = (touched \cup {l \in Locs : new[l] # ram[l]})
                      \cup UNION {{Chunk(t, c) : c \in M[t]} : t \in Tables}
  BY DEF Apply
<1>2. \A t \in Tables : /\ ranges'[t] \subseteq AllOf(t) /\ M[t] \subseteq ranges'[t]
                        /\ ranges[t] \subseteq ranges'[t]
                        /\ (ranges'[t] # {} => ranges[t] # {} \/ M[t] # {})
  BY <1>1, MergeFacts DEF DeviceType, ApplyOk
<1>3. ranges' \in [Tables -> SUBSET Nat]
  BY <1>1, <1>2, AllOfFacts
<1>4. \A l : l \in touched' <=> \/ l \in touched
                                \/ l \in Locs /\ new[l] # ram[l]
                                \/ \E t \in Tables : \E c \in M[t] : l = Chunk(t, c)
  BY <1>1
<1>5. \A t \in Tables : \A c \in M[t] : Chunk(t, c) \in Locs /\ Chunk(t, c) \in ChunksOf(t)
  BY LocsFacts, ChunksFacts DEF ApplyOk
<1>6. touched' \subseteq Locs
  BY <1>4, <1>5 DEF DeviceType
<1>7. dirty' \in BOOLEAN /\ (dirty => dirty') /\ (tracked => dirty')
  BY <1>1 DEF DeviceType, ApplyOk
<1>8. ram' = [l \in Locs |-> ram'[l]] /\ \A l \in Locs : ram'[l] \in ValueOf(l)
  BY <1>1 DEF ApplyOk
<1>9. DeviceType'
  BY <1>2, <1>3, <1>6, <1>7, <1>8 DEF DeviceType, ValueOf, LoadStates, CtlLocs, AllOf
<1>10. \A t \in Tables : ranges'[t] # {} => ranges[t] # {} \/ touched' \cap ChunksOf(t) # {}
  BY <1>2, <1>4, <1>5
<1>11. touched' \ {Count} # {} => touched \ {Count} # {} \/ dirty'
  <2>1. CASE tracked
    BY <2>1, <1>7
  <2>2. CASE ~tracked
    BY <2>2, <1>4 DEF ApplyOk
  <2> QED
    BY <2>1, <2>2
<1>12. touched \subseteq touched' /\ \A l \in Locs \ touched' : ram'[l] = ram[l]
  BY <1>1, <1>4
<1>13. \A t \in Tables : \A c \in AllOf(t) :
          ram'[Chunk(t, c)] # ram[Chunk(t, c)] => c \in ranges'[t]
  BY <1>1, <1>2 DEF ApplyOk
<1> QED
  BY <1>2, <1>7, <1>9, <1>10, <1>11, <1>12, <1>13 DEF LiveStep

LEMMA NoMarkFacts ==
    /\ NoMark \in [Tables -> SUBSET Nat] /\ \A t \in Tables : NoMark[t] = {}
    /\ \A t, u \in Tables : \A S : MarkOnly(t, S)[u] = IF u = t THEN S ELSE {}
BY DEF NoMark, MarkOnly

\* A change of one Record, whatever it marks.
LEMMA RecordChange ==
    ASSUME DeviceType, NEW r \in RecordLocs, NEW v \in ValueOf(r), NEW M,
           \A t \in Tables : M[t] \subseteq AllOf(t)
    PROVE  ApplyOk([ram EXCEPT ![r] = v], M, TRUE)
<1> DEFINE new == [ram EXCEPT ![r] = v]
<1>1. ram = [l \in Locs |-> ram[l]] /\ r \in Locs
  BY LocsFacts DEF DeviceType
<1>2. new = [l \in Locs |-> IF l = r THEN v ELSE ram[l]]
  BY <1>1
<1> HIDE DEF new
<1>3. \A l \in Locs : new[l] = IF l = r THEN v ELSE ram[l]
  BY <1>2
<1>4. new = [l \in Locs |-> new[l]]
  BY <1>2
<1>5. \A l \in Locs : new[l] \in ValueOf(l)
  BY <1>3 DEF DeviceType
<1>6. \A t \in Tables : \A c \in AllOf(t) : new[Chunk(t, c)] = ram[Chunk(t, c)]
  BY <1>3, LocsFacts
<1>7. ApplyOk(new, M, TRUE)
  BY <1>4, <1>5, <1>6 DEF ApplyOk
<1> QED
  BY <1>7 DEF new

\* A change of chunks of one table, all of them marked.
LEMMA ChunkChange ==
    ASSUME DeviceType, NEW t \in Tables, NEW S \in SUBSET AllOf(t), NEW v \in Values, NEW new,
           new = [l \in Locs |-> IF l \in {Chunk(t, c) : c \in S} THEN v ELSE ram[l]]
    PROVE  ApplyOk(new, MarkOnly(t, S), TRUE)
<1>1. \A l \in Locs : new[l] = IF l \in {Chunk(t, c) : c \in S} THEN v ELSE ram[l]
  OBVIOUS
<1>2. new = [l \in Locs |-> new[l]]
  OBVIOUS
<1>3. \A l \in Locs : new[l] \in ValueOf(l)
  <2> SUFFICES ASSUME NEW l \in Locs PROVE new[l] \in ValueOf(l)
    OBVIOUS
  <2>1. CASE l \in {Chunk(t, c) : c \in S}
    <3>1. l \in ImageLocs
      BY <2>1, LocsFacts
    <3>2. l \notin CtlLocs
      BY <3>1, LocsFacts
    <3> QED
      BY <1>1, <2>1, <3>2 DEF ValueOf
  <2>2. CASE l \notin {Chunk(t, c) : c \in S}
    BY <1>1, <2>2 DEF DeviceType
  <2> QED
    BY <2>1, <2>2
<1>4. \A u \in Tables : \A c \in AllOf(u) :
          new[Chunk(u, c)] # ram[Chunk(u, c)] => c \in MarkOnly(t, S)[u]
  <2> SUFFICES ASSUME NEW u \in Tables, NEW c \in AllOf(u), new[Chunk(u, c)] # ram[Chunk(u, c)]
               PROVE  c \in MarkOnly(t, S)[u]
    OBVIOUS
  <2>1. Chunk(u, c) \in {Chunk(t, d) : d \in S}
    BY <1>1, LocsFacts
  <2>2. u = t /\ c \in S
    BY <2>1, LocsDistinct
  <2> QED
    BY <2>2, NoMarkFacts
<1>5. \A u \in Tables : MarkOnly(t, S)[u] \subseteq AllOf(u)
  BY NoMarkFacts
<1> QED
  BY <1>2, <1>3, <1>4, <1>5 DEF ApplyOk

LEMMA LoadNextType ==
    ASSUME NEW s \in LoadStates, NEW e
    PROVE  LoadNext(s, e) \in LoadStates
BY DEF LoadNext, LoadStates

LEMMA WriteAddressLive ==
    ASSUME DeviceType, resync' = resync, WriteAddress
    PROVE  LiveStep
<1>1. PICK v \in Values : Apply([ram EXCEPT ![IA] = v], NoMark, TRUE)
  BY DEF WriteAddress
<1>2. IA \in RecordLocs /\ v \in ValueOf(IA)
  BY LocsFacts DEF ValueOf
<1>3. \A t \in Tables : NoMark[t] \subseteq AllOf(t)
  BY NoMarkFacts
<1>4. ApplyOk([ram EXCEPT ![IA] = v], NoMark, TRUE)
  BY <1>2, <1>3, RecordChange
<1> QED
  BY <1>1, <1>4, ApplyStep

LEMMA WriteLsmLive ==
    ASSUME DeviceType, resync' = resync, NEW t \in Tables, WriteLsm(t)
    PROVE  LiveStep
<1>1. Ctl(t) \in RecordLocs /\ ValueOf(Ctl(t)) = LoadStates /\ ram[Ctl(t)] \in LoadStates
  BY LocsFacts DEF ValueOf, DeviceType
<1>2. /\ \A u \in Tables : NoMark[u] \subseteq AllOf(u)
      /\ \A u \in Tables : MarkOnly(t, AllOf(t))[u] \subseteq AllOf(u)
  BY NoMarkFacts
<1>3. ASSUME NEW e, Apply([ram EXCEPT ![Ctl(t)] = LoadNext(@, e)],
                          IF e = "unload" THEN MarkOnly(t, AllOf(t)) ELSE NoMark, TRUE)
      PROVE  LiveStep
  <2>1. PICK M : M = IF e = "unload" THEN MarkOnly(t, AllOf(t)) ELSE NoMark
    OBVIOUS
  <2>2. \A u \in Tables : M[u] \subseteq AllOf(u)
    BY <1>2, <2>1
  <2>3. PICK v \in LoadStates : v = LoadNext(ram[Ctl(t)], e)
    BY <1>1, LoadNextType
  <2>4. Apply([ram EXCEPT ![Ctl(t)] = v], M, TRUE)
    BY <1>3, <2>1, <2>3
  <2>5. ApplyOk([ram EXCEPT ![Ctl(t)] = v], M, TRUE)
    BY <1>1, <2>2, RecordChange
  <2> QED
    BY <2>4, <2>5, ApplyStep
<1>4. ASSUME NEW v \in Values,
             Apply([l \in Locs |-> IF l \in ChunksOf(t) THEN v ELSE ram[l]],
                   MarkOnly(t, AllOf(t)), TRUE)
      PROVE  LiveStep
  <2>1. ChunksOf(t) = {Chunk(t, c) : c \in AllOf(t)}
    BY DEF ChunksOf, AllOf
  <2>2. PICK new : new = [l \in Locs |-> IF l \in ChunksOf(t) THEN v ELSE ram[l]]
    OBVIOUS
  <2>3. ApplyOk(new, MarkOnly(t, AllOf(t)), TRUE)
    BY <2>1, <2>2, ChunkChange
  <2> QED
    BY <1>4, <2>2, <2>3, ApplyStep
<1>5. ASSUME Apply([ram EXCEPT ![Ctl(t)] = "err"], MarkOnly(t, AllOf(t)), TRUE)
      PROVE  LiveStep
  <2>1. "err" \in ValueOf(Ctl(t))
    BY <1>1 DEF LoadStates
  <2>2. ApplyOk([ram EXCEPT ![Ctl(t)] = "err"], MarkOnly(t, AllOf(t)), TRUE)
    BY <1>1, <1>2, <2>1, RecordChange
  <2> QED
    BY <1>5, <2>2, ApplyStep
<1> QED
  BY <1>3, <1>4, <1>5 DEF WriteLsm

LEMMA MemoryWriteLive ==
    ASSUME DeviceType, resync' = resync, NEW t \in Tables, MemoryWrite(t)
    PROVE  LiveStep
<1>1. PICK c \in AllOf(t), v \in Values :
          Apply([ram EXCEPT ![Chunk(t, c)] = v], MarkOnly(t, {c}), TRUE)
  BY DEF MemoryWrite
<1>2. [ram EXCEPT ![Chunk(t, c)] = v]
        = [l \in Locs |-> IF l \in {Chunk(t, d) : d \in {c}} THEN v ELSE ram[l]]
  <2>1. ram = [l \in Locs |-> ram[l]]
    BY DEF DeviceType
  <2>2. \A l : l \in {Chunk(t, d) : d \in {c}} <=> l = Chunk(t, c)
    OBVIOUS
  <2> QED
    BY <2>1, <2>2
<1>3. PICK new : new = [ram EXCEPT ![Chunk(t, c)] = v]
  OBVIOUS
<1>4. ApplyOk(new, MarkOnly(t, {c}), TRUE)
  BY <1>2, <1>3, ChunkChange
<1> QED
  BY <1>1, <1>3, <1>4, ApplyStep

LEMMA CountFailureLive ==
    ASSUME DeviceType, resync' = resync, CountFailure
    PROVE  LiveStep
<1>1. PICK new : new = [ram EXCEPT ![Count] = 1]
  OBVIOUS
<1>2. Count \in RecordLocs /\ 1 \in ValueOf(Count)
  BY LocsFacts, ValuesAssumption DEF ValueOf
<1>3. \A t \in Tables : NoMark[t] = {}
  BY NoMarkFacts
<1>4. ApplyOk(new, NoMark, TRUE)
  BY <1>1, <1>2, <1>3, RecordChange
<1>5. \A l \in Locs \ {Count} : new[l] = ram[l]
  BY <1>1 DEF DeviceType
<1>6. ApplyOk(new, NoMark, FALSE)
  BY <1>3, <1>4, <1>5 DEF ApplyOk
<1> QED
  BY <1>1, <1>6, ApplyStep DEF CountFailure

LEMMA FactoryType == \A l \in Locs : Factory[l] \in ValueOf(l)
BY ValuesAssumption DEF Factory, ValueOf, CtlLocs, LoadStates

LEMMA EraseLive ==
    ASSUME DeviceType, resync' = resync, NEW code, Erase(code)
    PROVE  LiveStep
<1>1. PICK G : G = ErasedLocs(code)
  OBVIOUS
<1>2. PICK new : new = [l \in Locs |-> IF l \in G THEN Factory[l] ELSE ram[l]]
  OBVIOUS
<1>3. PICK M : M = [t \in Tables |-> IF t \in ErasedTables(code) THEN AllOf(t) ELSE {}]
  OBVIOUS
<1>4. Apply(new, M, code # "confirmed")
  BY <1>1, <1>2, <1>3 DEF Erase
<1>5. ErasedTables(code) \subseteq Tables
  BY TablesAssumption DEF ErasedTables
<1>6. \A l \in Locs : new[l] = IF l \in G THEN Factory[l] ELSE ram[l]
  BY <1>2
<1>7. \A t \in Tables : \A c \in AllOf(t) : Chunk(t, c) \in G => t \in ErasedTables(code)
  <2> SUFFICES ASSUME NEW t \in Tables, NEW c \in AllOf(t), Chunk(t, c) \in G
               PROVE  t \in ErasedTables(code)
    OBVIOUS
  <2>1. Chunk(t, c) # IA
    BY LocsDistinct
  <2>2. PICK u \in ErasedTables(code) : Chunk(t, c) \in ChunksOf(u) \cup {Ctl(u)}
    BY <1>1, <2>1 DEF ErasedLocs
  <2>3. Chunk(t, c) \in ChunksOf(u)
    BY <2>2, LocsDistinct
  <2> QED
    BY <1>5, <2>2, <2>3, ChunksFacts
<1>8. \A t \in Tables : \A c \in AllOf(t) : new[Chunk(t, c)] # ram[Chunk(t, c)] => c \in M[t]
  BY <1>3, <1>6, <1>7, LocsFacts
<1>9. ~(code # "confirmed") => (\A t \in Tables : M[t] = {}) /\ \A l \in Locs : new[l] = ram[l]
  <2> SUFFICES ASSUME code = "confirmed"
               PROVE  (\A t \in Tables : M[t] = {}) /\ \A l \in Locs : new[l] = ram[l]
    OBVIOUS
  <2>1. ErasedTables(code) = {}
    BY DEF ErasedTables
  <2>2. G = {}
    BY <1>1, <2>1 DEF ErasedLocs
  <2> QED
    BY <1>3, <1>6, <2>1, <2>2
<1>10. \A l \in Locs : new[l] \in ValueOf(l)
  BY <1>6, FactoryType DEF DeviceType
<1>11. new = [l \in Locs |-> new[l]] /\ \A t \in Tables : M[t] \subseteq AllOf(t)
  BY <1>2, <1>3
<1>12. ApplyOk(new, M, code # "confirmed")
  BY <1>8, <1>9, <1>10, <1>11 DEF ApplyOk
<1> QED
  BY <1>4, <1>12, ApplyStep

-----------------------------------------------------------------------------
(* Writes to the medium.                                                   *)

NewestVal(r) == slots[r][Newest(r)].val

\* What the medium would restore, by kind of location and of medium.
LEMMA DurableForms ==
    ASSUME RecordsValid, kind \in Media
    PROVE  /\ \A l \in ImageLocs : Durable(l) = img[l]
           /\ \A r \in RecordLocs : kind = "flash" => Durable(r) = rec[r]
           /\ \A r \in RecordLocs : kind = "byte" => Durable(r) = NewestVal(r)
<1>1. \A l \in ImageLocs : Durable(l) = img[l]
  BY DEF Durable
<1>2. \A r \in RecordLocs : r \notin ImageLocs
  BY LocsFacts
<1>3. \A r \in RecordLocs : kind = "flash" => Durable(r) = rec[r]
  BY <1>2 DEF Durable
<1>4. \A r \in RecordLocs : kind = "byte" => Durable(r) = NewestVal(r)
  BY <1>2 DEF Durable, NewestVal, RecordsValid
<1> QED
  BY <1>1, <1>3, <1>4

LEMMA DurableFormsNext ==
    ASSUME RecordsValid', kind' \in Media
    PROVE  /\ \A l \in ImageLocs : Durable(l)' = img'[l]
           /\ \A r \in RecordLocs : kind' = "flash" => Durable(r)' = rec'[r]
           /\ \A r \in RecordLocs : kind' = "byte" => Durable(r)' = NewestVal(r)'
<1>1. \A l \in ImageLocs : Durable(l)' = img'[l]
  BY DEF Durable
<1>2. \A r \in RecordLocs : r \notin ImageLocs
  BY LocsFacts
<1>3. \A r \in RecordLocs : kind' = "flash" => Durable(r)' = rec'[r]
  BY <1>2 DEF Durable
<1>4. \A r \in RecordLocs : kind' = "byte" => Durable(r)' = NewestVal(r)'
  <2> SUFFICES ASSUME NEW r \in RecordLocs, kind' = "byte" PROVE Durable(r)' = NewestVal(r)'
    OBVIOUS
  <2>1. Valid(r)' # {}
    BY DEF RecordsValid
  <2> QED
    BY <1>2, <2>1 DEF Durable, NewestVal
<1> QED
  BY <1>1, <1>3, <1>4

LEMMA SlotKept ==
    ASSUME NEW r, slots'[r] = slots[r]
    PROVE  Valid(r)' = Valid(r) /\ Newest(r)' = Newest(r) /\ NewestVal(r)' = NewestVal(r)
<1>1. Valid(r)' = Valid(r)
  BY DEF Valid
<1>2. Newest(r)' = Newest(r)
  BY <1>1 DEF Newest
<1> QED
  BY <1>1, <1>2 DEF NewestVal

\* A Record's slot is written or torn; the other Records keep theirs.
LEMMA SlotWrittenStep ==
    ASSUME NEW r \in RecordLocs, MediumType, DeviceType, RecordsValid, NEW b \in BOOLEAN,
           slots' = SlotWritten(r, b)
    PROVE  /\ slots' = [q \in RecordLocs |-> slots'[q]]
           /\ \A q \in RecordLocs : q # r => slots'[q] = slots[q]
           /\ \A q \in RecordLocs : slots'[q] \in [{0, 1} -> Slot(q)]
           /\ RecordsValid'
           /\ \A q \in RecordLocs : q # r => NewestVal(q)' = NewestVal(q)
           /\ (b => NewestVal(r)' = ram[r]) /\ (~b => NewestVal(r)' = NewestVal(r))
<1>1. slots = [q \in RecordLocs |-> slots[q]]
  BY DEF MediumType
<1>2. slots' = [slots EXCEPT ![r][TargetSlot(r)] = [gen |-> NextGen(r), val |-> ram[r], ok |-> b]]
  BY DEF SlotWritten
<1>3. slots' = [q \in RecordLocs |-> slots'[q]]
  BY <1>1, <1>2
<1>4. \A q \in RecordLocs : q # r => slots'[q] = slots[q]
  BY <1>1, <1>2
<1>5. /\ slots'[r] = [s \in {0, 1} |-> slots'[r][s]]
      /\ slots'[r][TargetSlot(r)] = [gen |-> NextGen(r), val |-> ram[r], ok |-> b]
      /\ \A s \in {0, 1} : s # TargetSlot(r) => slots'[r][s] = slots[r][s]
  <2>1. slots'[r] = [slots[r] EXCEPT ![TargetSlot(r)] = [gen |-> NextGen(r), val |-> ram[r], ok |-> b]]
    BY <1>1, <1>2
  <2>2. slots[r] \in [{0, 1} -> Slot(r)] /\ TargetSlot(r) \in {0, 1}
    BY NewestFacts DEF MediumType, RecordsValid
  <2> QED
    BY <2>1, <2>2
<1>6. ram[r] \in ValueOf(r) /\ Valid(r) # {}
  BY LocsFacts DEF DeviceType, RecordsValid
<1>7. /\ Valid(r)' # {} /\ slots'[r] \in [{0, 1} -> Slot(r)]
      /\ (b => slots'[r][Newest(r)'].val = ram[r])
      /\ (~b => slots'[r][Newest(r)'].val = slots[r][Newest(r)].val)
  BY <1>5, <1>6, SlotStep
<1>8. \A q \in RecordLocs : q # r => Valid(q)' = Valid(q) /\ NewestVal(q)' = NewestVal(q)
  BY <1>4, SlotKept
<1>9. RecordsValid'
  BY <1>7, <1>8 DEF RecordsValid
<1>10. \A q \in RecordLocs : slots'[q] \in [{0, 1} -> Slot(q)]
  BY <1>4, <1>7 DEF MediumType
<1> QED
  BY <1>3, <1>4, <1>7, <1>8, <1>9, <1>10 DEF NewestVal

\* However a write ends, each copy on the medium stays what it was or becomes
\* what is in RAM, and every Record keeps a valid slot.
MediumMoves ==
    /\ img' \in [ImageLocs -> Values] /\ \A l \in ImageLocs : img'[l] \in {img[l], ram[l]}
    /\ crc' = [t \in Tables |-> crc'[t]]
    /\ rec' = [r \in RecordLocs |-> rec'[r]] /\ \A r \in RecordLocs : rec'[r] \in {rec[r], ram[r]}
    /\ slots' = [r \in RecordLocs |-> slots'[r]]
    /\ \A r \in RecordLocs : slots'[r] \in [{0, 1} -> Slot(r)]
    /\ RecordsValid'
    /\ \A r \in RecordLocs : NewestVal(r)' \in {NewestVal(r), ram[r]}

LEMMA WriteDoneMoves ==
    ASSUME MediumType, DeviceType, RecordsValid, NEW i \in Writes, WriteDone(i)
    PROVE  MediumMoves
<1>1. CASE \E t \in Tables : \E c \in AllOf(t) :
             i = ChunkWrite(t, c) /\ i.w = "chunk" /\ i.t = t /\ i.c = c
  <2>0. PICK t \in Tables : \E c \in AllOf(t) : i.w = "chunk" /\ i.t = t /\ i.c = c
    BY <1>1
  <2>1. PICK c \in AllOf(t) : i.w = "chunk" /\ i.t = t /\ i.c = c
    BY <2>0
  <2>2. PICK l \in ImageLocs : l = Chunk(t, c)
    BY LocsFacts
  <2>3. img' = [img EXCEPT ![l] = ram[l]] /\ crc' = crc /\ rec' = rec /\ slots' = slots
    BY <2>1, <2>2 DEF WriteDone
  <2>4. ram[l] \in Values
    <3>1. l \in Locs /\ l \notin CtlLocs
      BY LocsFacts
    <3> QED
      BY <3>1 DEF DeviceType, ValueOf
  <2>5. img' \in [ImageLocs -> Values] /\ \A m \in ImageLocs : img'[m] \in {img[m], ram[m]}
    BY <2>3, <2>4 DEF MediumType
  <2>6. \A r \in RecordLocs : Valid(r)' = Valid(r) /\ NewestVal(r)' = NewestVal(r)
    BY <2>3, SlotKept
  <2> QED
    BY <2>3, <2>5, <2>6 DEF MediumMoves, MediumType, RecordsValid
<1>2. CASE \E t \in Tables : i = CrcWrite(t) /\ i.w = "crc" /\ i.t = t /\ i.c = Size[t] + 1
  <2>1. PICK t \in Tables : i.w = "crc" /\ i.t = t
    BY <1>2
  <2>2. /\ img' = img /\ rec' = rec /\ slots' = slots
        /\ crc' = [crc EXCEPT ![t] = ImageNow(t)]
    BY <2>1 DEF WriteDone
  <2>3. crc' = [u \in Tables |-> crc'[u]]
    BY <2>2 DEF MediumType
  <2>4. \A r \in RecordLocs : Valid(r)' = Valid(r) /\ NewestVal(r)' = NewestVal(r)
    BY <2>2, SlotKept
  <2> QED
    BY <2>2, <2>3, <2>4 DEF MediumMoves, MediumType, RecordsValid
<1>3. CASE \E r \in RecordLocs : i = RecordWrite(r) /\ i.w = "record" /\ i.l = r
  <2>1. PICK r \in RecordLocs : i.w = "record" /\ i.l = r
    BY <1>3
  <2>2. /\ img' = img /\ crc' = crc
        /\ rec' = IF kind = "flash" THEN [rec EXCEPT ![r] = ram[r]] ELSE rec
        /\ slots' = IF kind = "byte" THEN SlotWritten(r, TRUE) ELSE slots
    BY <2>1 DEF WriteDone
  <2>3. rec' = [q \in RecordLocs |-> rec'[q]] /\ \A q \in RecordLocs : rec'[q] \in {rec[q], ram[q]}
    BY <2>2 DEF MediumType
  <2>4. CASE slots' = slots
    <3>1. \A q \in RecordLocs : Valid(q)' = Valid(q) /\ NewestVal(q)' = NewestVal(q)
      BY <2>4, SlotKept
    <3> QED
      BY <2>2, <2>3, <2>4, <3>1 DEF MediumMoves, MediumType, RecordsValid
  <2>5. CASE slots' = SlotWritten(r, TRUE)
    <3>1. /\ slots' = [q \in RecordLocs |-> slots'[q]]
          /\ \A q \in RecordLocs : slots'[q] \in [{0, 1} -> Slot(q)]
          /\ RecordsValid'
          /\ \A q \in RecordLocs : NewestVal(q)' \in {NewestVal(q), ram[q]}
      BY <2>5, SlotWrittenStep
    <3> QED
      BY <2>2, <2>3, <3>1 DEF MediumMoves, MediumType
  <2> QED
    BY <2>2, <2>4, <2>5
<1> QED
  BY <1>1, <1>2, <1>3, WriteKinds

LEMMA WriteTornMoves ==
    ASSUME MediumType, DeviceType, RecordsValid, NEW i \in Writes, WriteTorn(i)
    PROVE  MediumMoves
<1>1. img' = img /\ rec' = rec
  BY DEF WriteTorn
<1>2. crc' = [t \in Tables |-> crc'[t]]
  BY DEF WriteTorn, MediumType
<1>3. CASE slots' = slots
  <2>1. \A q \in RecordLocs : Valid(q)' = Valid(q) /\ NewestVal(q)' = NewestVal(q)
    BY <1>3, SlotKept
  <2> QED
    BY <1>1, <1>2, <1>3, <2>1 DEF MediumMoves, MediumType, RecordsValid
<1>4. CASE slots' # slots
  <2>1. i.w = "record" /\ slots' = SlotWritten(i.l, FALSE)
    BY <1>4 DEF WriteTorn
  <2>2. PICK r \in RecordLocs : i.l = r
    BY <2>1, WriteKinds
  <2>3. /\ slots' = [q \in RecordLocs |-> slots'[q]]
        /\ \A q \in RecordLocs : slots'[q] \in [{0, 1} -> Slot(q)]
        /\ RecordsValid'
        /\ \A q \in RecordLocs : NewestVal(q)' = NewestVal(q)
    BY <2>1, <2>2, SlotWrittenStep
  <2> QED
    BY <1>1, <1>2, <2>3 DEF MediumMoves, MediumType
<1> QED
  BY <1>3, <1>4

LEMMA NoWriteMoves ==
    ASSUME MediumType, RecordsValid, UNCHANGED <<img, crc, rec, slots>>
    PROVE  MediumMoves
<1>1. \A q \in RecordLocs : Valid(q)' = Valid(q) /\ NewestVal(q)' = NewestVal(q)
  BY SlotKept
<1> QED
  BY <1>1 DEF MediumMoves, MediumType, RecordsValid

\* What was durable as it is in RAM stays so.
LEMMA MovesKeepAcked ==
    ASSUME MediumType, DeviceType, RecordsValid, AckedSurvives, MediumMoves,
           kind' = kind, ram' = ram, touched' = touched
    PROVE  AckedSurvives' /\ RecordsValid'
<1>1. kind \in Media /\ kind' \in Media /\ kind \in {"flash", "byte"}
  BY MediaAssumption DEF MediumType
<1>2. RecordsValid'
  BY DEF MediumMoves
<1>3. ASSUME NEW l \in Locs, l \notin touched
      PROVE  Durable(l)' = ram'[l]
  <2>1. Durable(l) = ram[l]
    BY <1>3 DEF AckedSurvives
  <2>2. CASE l \in ImageLocs
    BY <1>1, <1>2, <2>1, <2>2, DurableForms, DurableFormsNext DEF MediumMoves
  <2>3. CASE l \in RecordLocs /\ kind = "flash"
    BY <1>1, <1>2, <2>1, <2>3, DurableForms, DurableFormsNext DEF MediumMoves
  <2>4. CASE l \in RecordLocs /\ kind = "byte"
    BY <1>1, <1>2, <2>1, <2>4, DurableForms, DurableFormsNext DEF MediumMoves
  <2> QED
    BY <1>1, <1>3, <2>2, <2>3, <2>4, LocsFacts
<1> QED
  BY <1>2, <1>3 DEF AckedSurvives

-----------------------------------------------------------------------------
(* Starting a flush.                                                       *)

\* What a flush will write.
LEMMA PlanFacts ==
    ASSUME NEW whole \in BOOLEAN, \A t \in Tables : ranges[t] \subseteq AllOf(t)
    PROVE  /\ Plan(whole) \subseteq Writes
           /\ \A t \in Tables : \A c \in AllOf(t) :
                 whole \/ c \in ranges[t] => ChunkWrite(t, c) \in Plan(whole)
           /\ \A t \in Tables : \A c \in AllOf(t) :
                 ChunkWrite(t, c) \in Plan(whole) /\ kind = "byte" => CrcWrite(t) \in Plan(whole)
           /\ \A t \in Tables : CrcWrite(t) \in Plan(whole) => kind = "byte" /\ (whole \/ ranges[t] # {})
           /\ \A r \in RecordLocs : ~RecordMatches(r) => RecordWrite(r) \in Plan(whole)
           /\ whole => Plan(whole) # {}
<1> DEFINE S(t) == IF whole THEN AllOf(t) ELSE ranges[t]
<1>1. PICK I : I = UNION {ImageWrites(t, S(t)) : t \in Tables}
  OBVIOUS
<1>2. PICK R : R = {RecordWrite(r) : r \in {q \in RecordLocs : ~RecordMatches(q)}}
  OBVIOUS
<1>3. Plan(whole) = I \cup R
  BY <1>1, <1>2 DEF Plan
<1>4. \A t \in Tables : S(t) \subseteq AllOf(t)
  OBVIOUS
<1> HIDE DEF S
<1>5. \A i : i \in I <=>
        \E t \in Tables : \/ \E c \in S(t) : i = ChunkWrite(t, c)
                          \/ kind = "byte" /\ S(t) # {} /\ i = CrcWrite(t)
  <2>1. \A t \in Tables : \A i :
           i \in ImageWrites(t, S(t)) <=>
             \/ \E c \in S(t) : i = ChunkWrite(t, c)
             \/ kind = "byte" /\ S(t) # {} /\ i = CrcWrite(t)
    BY DEF ImageWrites
  <2>2. \A i : i \in I <=> \E t \in Tables : i \in ImageWrites(t, S(t))
    BY <1>1
  <2> QED
    BY <2>1, <2>2
<1>6. \A i : i \in R <=> \E r \in RecordLocs : ~RecordMatches(r) /\ i = RecordWrite(r)
  BY <1>2
<1>7. I \subseteq Writes
  <2>1. \A t \in Tables : \A c \in S(t) : ChunkWrite(t, c) \in ChunkWrites
    BY <1>4 DEF ChunkWrites
  <2>2. \A t \in Tables : CrcWrite(t) \in CrcWrites
    BY DEF CrcWrites
  <2> QED
    BY <1>5, <2>1, <2>2 DEF Writes
<1>8. R \subseteq Writes
  BY <1>6 DEF Writes, RecordWrites
<1>9. \A t \in Tables : \A c \in AllOf(t) : ChunkWrite(t, c) \in Plan(whole) <=> c \in S(t)
  <2> SUFFICES ASSUME NEW t \in Tables, NEW c \in AllOf(t)
               PROVE  ChunkWrite(t, c) \in Plan(whole) <=> c \in S(t)
    OBVIOUS
  <2>1. ChunkWrite(t, c) \notin R
    BY <1>6, WriteFacts
  <2>2. ChunkWrite(t, c) \in I => c \in S(t)
    BY <1>5, WriteFacts
  <2>3. c \in S(t) => ChunkWrite(t, c) \in I
    BY <1>5
  <2> QED
    BY <1>3, <2>1, <2>2, <2>3
<1>10. \A t \in Tables : CrcWrite(t) \in Plan(whole) <=> kind = "byte" /\ S(t) # {}
  <2> SUFFICES ASSUME NEW t \in Tables
               PROVE  CrcWrite(t) \in Plan(whole) <=> kind = "byte" /\ S(t) # {}
    OBVIOUS
  <2>1. CrcWrite(t) \notin R
    BY <1>6, WriteFacts
  <2>2. CrcWrite(t) \in I => kind = "byte" /\ S(t) # {}
    BY <1>5, WriteFacts
  <2>3. kind = "byte" /\ S(t) # {} => CrcWrite(t) \in I
    BY <1>5
  <2> QED
    BY <1>3, <2>1, <2>2, <2>3
<1>11. \A r \in RecordLocs : ~RecordMatches(r) => RecordWrite(r) \in Plan(whole)
  BY <1>3, <1>6
<1>12. whole => Plan(whole) # {}
  <2> SUFFICES ASSUME whole PROVE Plan(whole) # {}
    OBVIOUS
  <2>1. PICK t \in Tables : TRUE
    BY TablesAssumption
  <2>2. 1 \in AllOf(t) /\ 1 \in S(t)
    BY AllOfFacts DEF S
  <2> QED
    BY <1>9, <2>2
<1> QED
  BY <1>3, <1>7, <1>8, <1>9, <1>10, <1>11, <1>12 DEF S

LEMMA NoFlushFacts == NoFlush.by = "none" /\ NoFlush.todo = {}
BY DEF NoFlush

\* Ranges of too many tables mean that too many tables have been written.
LEMMA OverflowTouched ==
    ASSUME RangesTouched, Cardinality({t \in Tables : ranges[t] # {}}) > DirtyRanges
    PROVE  Overflow
<1> DEFINE A == {t \in Tables : ranges[t] # {}}
           B == {t \in Tables : touched \cap ChunksOf(t) # {}}
<1>1. A \subseteq B /\ B \subseteq Tables
  BY DEF RangesTouched
<1>2. IsFiniteSet(Tables) /\ DirtyRanges \in Nat
  BY TablesAssumption, BoundsAssumption
<1> HIDE DEF A, B
<1>3. IsFiniteSet(B)
  BY <1>1, <1>2, FS_Subset
<1>4. IsFiniteSet(A) /\ Cardinality(A) <= Cardinality(B)
  BY <1>1, <1>3, FS_Subset
<1>5. Cardinality(A) \in Nat /\ Cardinality(B) \in Nat
  BY <1>3, <1>4, FS_CardinalityType
<1>6. Cardinality(A) > DirtyRanges
  BY DEF A
<1>7. Cardinality(B) > DirtyRanges
  BY <1>2, <1>4, <1>5, <1>6
<1> QED
  BY <1>7 DEF Overflow, B

\* Taking the ranges loses nothing: what they named is now to be written.
LEMMA StartFlushStep ==
    ASSUME StoreInv, NEW by \in {"send", "end", "task"}, StartFlush(by),
           flush = NoFlush, pass # "off", pass' # "off",
           UNCHANGED <<kind, ram, dirty, img, crc, rec, idx, slots, used, pending, blocked,
                       touched, left, partial>>
    PROVE  StoreInv'
<1>1. PICK whole \in BOOLEAN :
          /\ whole <=> (resync \/ Cardinality({t \in Tables : ranges[t] # {}}) > DirtyRanges)
          /\ flush' = [by |-> by, todo |-> Plan(whole)] /\ ranges' = NoMark /\ resync' = whole
  BY DEF StartFlush
<1>2. flush'.by = by /\ flush'.todo = Plan(whole) /\ Flushing'
  BY <1>1 DEF Flushing
<1>3. ~Flushing /\ flush.todo = {}
  BY NoFlushFacts DEF Flushing
<1>4. \A t \in Tables : ranges[t] \subseteq AllOf(t)
  BY DEF StoreInv, DeviceType
<1>5. DeviceType'
  <2>1. ranges' \in [Tables -> SUBSET Nat] /\ \A t \in Tables : ranges'[t] \subseteq AllOf(t)
    BY <1>1, NoMarkFacts
  <2> QED
    BY <1>1, <2>1 DEF StoreInv, DeviceType, ValueOf, AllOf
<1>6. MediumType'
  BY DEF StoreInv, MediumType, Slot, ValueOf
<1>7. FlushOk'
  <2>1. Plan(whole) \subseteq Writes
    BY <1>4, PlanFacts
  <2>2. flush' \in [by : {"none", "send", "end", "task", "compact"}, todo : SUBSET Writes]
    BY SMTT(30), <1>1, <2>1
  <2> QED
    BY <1>1, <1>2, <2>2 DEF FlushOk
<1>8. AckedSurvives' /\ RecordsValid'
  BY DEF StoreInv, Data, AckedSurvives, RecordsValid, Durable, Valid, Newest
<1>9. ImageKnown'
  <2> SUFFICES ASSUME NEW t \in Tables, NEW c \in AllOf(t), img[Chunk(t, c)] # ram[Chunk(t, c)]
               PROVE  ChunkWrite(t, c) \in flush'.todo
    BY <1>2 DEF ImageKnown
  <2>1. resync \/ c \in ranges[t]
    BY <1>3 DEF StoreInv, Data, ImageKnown
  <2> QED
    BY <1>1, <1>2, <1>4, <2>1, PlanFacts
<1>10. RecordKnown'
  <2> SUFFICES ASSUME NEW r \in RecordLocs, ~RecordMatches(r)'
               PROVE  RecordWrite(r) \in flush'.todo
    BY DEF RecordKnown
  <2>1. ~RecordMatches(r)
    BY DEF RecordMatches, Valid, Newest
  <2> QED
    BY <1>2, <1>4, <2>1, PlanFacts
<1>11. IndexExact'
  <2> SUFFICES ASSUME kind = "flash", \E r \in RecordLocs : rec[r] # idx[r]
               PROVE  pending /\ whole /\ flush'.todo # {}
    BY <1>1 DEF IndexExact
  <2>1. pending /\ resync
    BY DEF StoreInv, Data, IndexExact
  <2> QED
    BY <1>1, <1>2, <1>4, <2>1, PlanFacts
<1>12. ChangeFlagged' /\ RangesTouched'
  BY <1>1, NoMarkFacts DEF StoreInv, ChangeFlagged, RangesTouched, ChunksOf
<1>13. Crcs'
  <2>1. ResyncIsFault'
    BY <1>2 DEF ResyncIsFault
  <2>2. Overflow' <=> Overflow
    BY DEF Overflow, ChunksOf
  <2>3. CrcExcused'
    <3> SUFFICES ASSUME NEW t \in Tables, CrcWrite(t) \in flush'.todo PROVE Excused(t)'
      BY DEF CrcExcused, CrcWrite
    <3>1. kind = "byte" /\ (whole \/ ranges[t] # {})
      BY <1>2, <1>4, PlanFacts
    <3>2. CASE ranges[t] # {}
      BY <3>2 DEF StoreInv, RangesTouched, Excused, ChunksOf
    <3>3. CASE resync
      BY <1>3, <3>1, <3>3 DEF StoreInv, Crcs, ResyncIsFault, Excused
    <3>4. CASE Cardinality({u \in Tables : ranges[u] # {}}) > DirtyRanges
      BY <2>2, <3>4, OverflowTouched DEF StoreInv, Excused
    <3> QED
      BY <1>1, <3>1, <3>2, <3>3, <3>4
  <2>4. CrcFollows'
    BY <1>2, <1>4, PlanFacts DEF CrcFollows, AllOf, ChunkWrite, CrcWrite
  <2>5. StaleExcused'
    BY <1>3 DEF StoreInv, Crcs, StaleExcused, Stale, AllOf, Chunk
  <2> QED
    BY <2>1, <2>3, <2>4, <2>5 DEF Crcs
<1> QED
  BY <1>5, <1>6, <1>7, <1>8, <1>9, <1>10, <1>11, <1>12, <1>13 DEF StoreInv, Data

-----------------------------------------------------------------------------
(* Steps that leave the medium alone.                                      *)

\* Nothing the store's invariant mentions moves.
LEMMA StoreFrame ==
    ASSUME StoreInv, left'.faults = left.faults, (pass = "off") <=> (pass' = "off"),
           UNCHANGED <<kind, ram, dirty, ranges, resync, img, crc, rec, idx, slots, used, pending,
                       blocked, flush, touched, partial>>
    PROVE  StoreInv'
<1>1. DeviceType' /\ MediumType'
  BY DEF StoreInv, DeviceType, MediumType, Slot, ValueOf, AllOf
<1>2. FlushOk'
  BY SMTT(30) DEF StoreInv, FlushOk, Flushing
<1>3. AckedSurvives' /\ RecordsValid'
  BY SMTT(30) DEF StoreInv, Data, AckedSurvives, RecordsValid, Durable, Valid, Newest
<1>4. ImageKnown'
  BY DEF StoreInv, Data, ImageKnown, Flushing
<1>5. RecordKnown'
  BY DEF StoreInv, Data, RecordKnown, RecordMatches, Flushing, Valid, Newest
<1>6. IndexExact'
  BY DEF StoreInv, Data, IndexExact, Flushing
<1>7. ChangeFlagged' /\ RangesTouched'
  BY DEF StoreInv, ChangeFlagged, RangesTouched
<1>8. \A t \in Tables : (Excused(t)' <=> Excused(t)) /\ (Stale(t)' <=> Stale(t))
  BY DEF Excused, Overflow, Stale
<1>9. Crcs'
  BY <1>8 DEF StoreInv, Crcs, ResyncIsFault, CrcExcused, CrcFollows, StaleExcused, Flushing
<1> QED
  BY <1>1, <1>2, <1>3, <1>4, <1>5, <1>6, <1>7, <1>9 DEF StoreInv, Data

\* A change of the live state at an await point is tracked.
LEMMA LiveStepStore ==
    ASSUME StoreInv, LiveStep, flush = NoFlush, pass # "off", pass' # "off",
           left'.faults = left.faults,
           UNCHANGED <<kind, resync, img, crc, rec, idx, slots, used, pending, blocked, flush, partial>>
    PROVE  StoreInv'
<1>1. ~Flushing /\ ~Flushing' /\ flush.todo = {} /\ flush'.todo = {}
  BY NoFlushFacts DEF Flushing
<1>2. DeviceType'
  BY DEF LiveStep
<1>3. MediumType'
  BY DEF StoreInv, MediumType, Slot, ValueOf
<1>4. FlushOk'
  BY <1>1 DEF StoreInv, FlushOk
<1>5. RecordsValid'
  BY DEF StoreInv, Data, RecordsValid, Valid
<1>6. AckedSurvives'
  <2> SUFFICES ASSUME NEW l \in Locs, l \notin touched' PROVE Durable(l)' = ram'[l]
    BY DEF AckedSurvives
  <2>1. Durable(l)' = Durable(l)
    BY DEF Durable, Valid, Newest
  <2>2. l \notin touched /\ ram'[l] = ram[l]
    BY DEF LiveStep
  <2> QED
    BY <2>1, <2>2 DEF StoreInv, Data, AckedSurvives
<1>7. ImageKnown'
  <2> SUFFICES ASSUME NEW t \in Tables, NEW c \in AllOf(t), img[Chunk(t, c)] # ram'[Chunk(t, c)]
               PROVE  resync \/ c \in ranges'[t]
    BY <1>1 DEF ImageKnown
  <2>1. CASE ram'[Chunk(t, c)] # ram[Chunk(t, c)]
    BY <2>1 DEF LiveStep
  <2>2. CASE ram'[Chunk(t, c)] = ram[Chunk(t, c)]
    BY <1>1, <2>2 DEF StoreInv, Data, ImageKnown, LiveStep
  <2> QED
    BY <2>1, <2>2
<1>8. RecordKnown'
  BY <1>1 DEF RecordKnown
<1>9. IndexExact'
  BY <1>1 DEF StoreInv, Data, IndexExact
<1>10. ChangeFlagged'
  BY DEF StoreInv, ChangeFlagged, LiveStep
<1>11. RangesTouched'
  <2> SUFFICES ASSUME NEW t \in Tables, ranges'[t] # {} PROVE touched' \cap ChunksOf(t) # {}
    BY DEF RangesTouched
  <2> QED
    BY DEF StoreInv, RangesTouched, LiveStep
<1>12. Crcs'
  <2>1. \A t \in Tables : Stale(t)' <=> Stale(t)
    BY DEF Stale
  <2> QED
    BY <1>1, <2>1 DEF StoreInv, Crcs, ResyncIsFault, CrcExcused, CrcFollows, StaleExcused
<1> QED
  BY <1>2, <1>3, <1>4, <1>5, <1>6, <1>7, <1>8, <1>9, <1>10, <1>11, <1>12 DEF StoreInv, Data

-----------------------------------------------------------------------------
(* The steps of a flush.                                                   *)

\* Before an image's CRC is written, its chunks have been.
LEMMA CrcLast ==
    ASSUME NEW t \in Tables, CrcWrite(t) \in NextWrites
    PROVE  \A c \in AllOf(t) : ChunkWrite(t, c) \notin flush.todo
<1> SUFFICES ASSUME NEW c \in AllOf(t), ChunkWrite(t, c) \in flush.todo PROVE FALSE
  OBVIOUS
<1>1. ~Before(ChunkWrite(t, c), CrcWrite(t))
  BY DEF NextWrites
<1>2. /\ ChunkWrite(t, c).w = "chunk" /\ ChunkWrite(t, c).t = t /\ ChunkWrite(t, c).c = c
      /\ CrcWrite(t).w = "crc" /\ CrcWrite(t).t = t /\ CrcWrite(t).c = Size[t] + 1
  BY DEF ChunkWrite, CrcWrite
<1>3. c < Size[t] + 1
  BY SizeAssumption DEF AllOf
<1> QED
  BY <1>1, <1>2, <1>3 DEF Before

\* The facts about types that every write keeps.
LEMMA MovesType ==
    ASSUME MediumType, DeviceType, MediumMoves, kind' = kind,
           idx' = [r \in RecordLocs |-> idx'[r]],
           used' \in 0 .. BankRecs, pending' \in BOOLEAN, blocked' \in BOOLEAN
    PROVE  MediumType'
<1>1. \A r \in RecordLocs : rec'[r] \in ValueOf(r)
  BY LocsFacts DEF MediumMoves, MediumType, DeviceType
<1> QED
  BY <1>1 DEF MediumMoves, MediumType, Slot, ValueOf

\* A write that succeeded.
WroteOk(i) ==
    /\ WriteDone(i)
    /\ idx' = IF i.w = "record" /\ kind = "flash" THEN [idx EXCEPT ![i.l] = ram[i.l]] ELSE idx
    /\ flush' = [flush EXCEPT !.todo = @ \ {i}]
    /\ partial' = IF i.w = "crc" THEN partial \ {i.t} ELSE partial

\* A Record that matched still does, and the one just written does.
LEMMA WroteRecords ==
    ASSUME StoreInv, kind' = kind, ram' = ram, NEW i \in Writes, WroteOk(i)
    PROVE  /\ idx' = [r \in RecordLocs |-> idx'[r]]
           /\ \A r \in RecordLocs : RecordMatches(r) \/ i = RecordWrite(r) => RecordMatches(r)'
           /\ kind = "flash" /\ (\A r \in RecordLocs : rec[r] = idx[r])
                 => \A r \in RecordLocs : rec'[r] = idx'[r]
<1>1. CASE i.w # "record"
  <2>1. rec' = rec /\ slots' = slots /\ idx' = idx
    BY <1>1 DEF WroteOk, WriteDone
  <2>2. \A r \in RecordLocs : RecordMatches(r)' <=> RecordMatches(r)
    BY <2>1 DEF RecordMatches, Valid, Newest
  <2>3. \A r \in RecordLocs : i # RecordWrite(r)
    BY <1>1 DEF RecordWrite
  <2> QED
    BY <2>1, <2>2, <2>3 DEF StoreInv, MediumType
<1>2. CASE i.w = "record"
  <2>1. PICK r \in RecordLocs : i = RecordWrite(r) /\ i.l = r
    BY <1>2, WriteKinds
  <2>2. \A q \in RecordLocs : i = RecordWrite(q) => q = r
    BY <2>1, WriteFacts
  <2>3. kind \in {"flash", "byte"}
    BY MediaAssumption DEF StoreInv, MediumType
  <2>4. CASE kind = "flash"
    <3>1. rec' = [rec EXCEPT ![r] = ram[r]] /\ idx' = [idx EXCEPT ![r] = ram[r]]
      BY <1>2, <2>1, <2>4 DEF WroteOk, WriteDone
    <3>2. rec = [q \in RecordLocs |-> rec[q]] /\ idx = [q \in RecordLocs |-> idx[q]]
      BY DEF StoreInv, MediumType
    <3>3. /\ idx' = [q \in RecordLocs |-> idx'[q]]
          /\ \A q \in RecordLocs : /\ idx'[q] = IF q = r THEN ram[q] ELSE idx[q]
                                   /\ rec'[q] = IF q = r THEN ram[q] ELSE rec[q]
      BY <3>1, <3>2
    <3>4. \A q \in RecordLocs : RecordMatches(q) \/ i = RecordWrite(q) => RecordMatches(q)'
      BY <2>2, <2>4, <3>3 DEF RecordMatches
    <3> QED
      BY <3>3, <3>4
  <2>5. CASE kind = "byte"
    <3>1. slots' = SlotWritten(r, TRUE) /\ idx' = idx
      BY <1>2, <2>1, <2>5 DEF WroteOk, WriteDone
    <3>2. /\ RecordsValid' /\ NewestVal(r)' = ram[r]
          /\ \A q \in RecordLocs : q # r => NewestVal(q)' = NewestVal(q)
      BY <3>1, SlotWrittenStep DEF StoreInv, Data
    <3>3. ASSUME NEW q \in RecordLocs, RecordMatches(q) \/ i = RecordWrite(q)
          PROVE  RecordMatches(q)'
      <4>1. NewestVal(q)' = ram[q]
        BY <2>2, <2>5, <3>2, <3>3 DEF RecordMatches, NewestVal
      <4>2. Valid(q)' # {}
        BY <3>2 DEF RecordsValid
      <4> QED
        BY <2>5, <4>1, <4>2 DEF RecordMatches, NewestVal
    <3> QED
      BY <2>5, <3>1, <3>3 DEF StoreInv, MediumType
  <2> QED
    BY <2>3, <2>4, <2>5
<1> QED
  BY <1>1, <1>2

\* The chunk just written is durable, the others are as they were.
LEMMA WroteChunks ==
    ASSUME StoreInv, NEW i \in Writes, WroteOk(i), NEW t \in Tables, NEW c \in AllOf(t)
    PROVE  /\ i = ChunkWrite(t, c) => img'[Chunk(t, c)] = ram[Chunk(t, c)]
           /\ i # ChunkWrite(t, c) => img'[Chunk(t, c)] = img[Chunk(t, c)]
<1>1. img \in [ImageLocs -> Values] /\ Chunk(t, c) \in ImageLocs
  BY LocsFacts DEF StoreInv, MediumType
<1>2. CASE i.w = "chunk"
  <2>1. PICK u \in Tables : \E d \in AllOf(u) : i = ChunkWrite(u, d) /\ i.t = u /\ i.c = d
    BY <1>2, WriteKinds
  <2>2. PICK d \in AllOf(u) : i = ChunkWrite(u, d) /\ i.t = u /\ i.c = d
    BY <2>1
  <2>3. img' = [img EXCEPT ![Chunk(u, d)] = ram[Chunk(u, d)]] /\ Chunk(u, d) \in ImageLocs
    BY <1>2, <2>2, LocsFacts DEF WroteOk, WriteDone
  <2>4. Chunk(u, d) = Chunk(t, c) <=> i = ChunkWrite(t, c)
    BY <2>2, LocsDistinct, WriteFacts
  <2> QED
    BY <1>1, <2>3, <2>4
<1>3. CASE i.w # "chunk"
  <2>1. img' = img /\ i # ChunkWrite(t, c)
    BY <1>3 DEF WroteOk, WriteDone, ChunkWrite
  <2> QED
    BY <2>1
<1> QED
  BY <1>2, <1>3

LEMMA WriteOkStep ==
    ASSUME StoreInv, WriteOk
    PROVE  StoreInv'
<1>1. PICK i \in NextWrites : WroteOk(i)
  BY DEF WriteOk, WroteOk
<1>2. i \in flush.todo /\ i \in Writes
  BY <1>1 DEF NextWrites, StoreInv, FlushOk
<1>3. /\ UNCHANGED <<kind, ram, ranges, dirty, resync, pending, blocked, pass, left, touched>>
      /\ Flushing /\ Room /\ used' = IF kind = "flash" THEN used + 1 ELSE used
  BY DEF WriteOk, flushFrame
<1>4. /\ flush \in [by : {"none", "send", "end", "task", "compact"}, todo : SUBSET Writes]
      /\ flush' = [flush EXCEPT !.todo = flush.todo \ {i}]
  BY <1>1 DEF StoreInv, FlushOk, WroteOk
<1>5. flush'.by = flush.by /\ flush'.todo = flush.todo \ {i} /\ Flushing'
  BY <1>3, <1>4 DEF Flushing
<1>6. MediumMoves
  BY <1>1, <1>2, WriteDoneMoves DEF WroteOk, StoreInv, Data
<1>7. /\ idx' = [r \in RecordLocs |-> idx'[r]]
      /\ \A r \in RecordLocs : RecordMatches(r) \/ i = RecordWrite(r) => RecordMatches(r)'
      /\ kind = "flash" /\ (\A r \in RecordLocs : rec[r] = idx[r])
            => \A r \in RecordLocs : rec'[r] = idx'[r]
  BY <1>1, <1>2, <1>3, WroteRecords
<1>8. DeviceType'
  BY <1>3 DEF StoreInv, DeviceType, ValueOf, AllOf
<1>9. MediumType'
  <2>1. used' \in 0 .. BankRecs
    <3>1. used \in 0 .. BankRecs /\ BankRecs \in Nat
      BY BoundsAssumption DEF StoreInv, MediumType
    <3>2. kind = "flash" => used < BankRecs
      BY <1>3 DEF Room
    <3> QED
      BY <1>3, <3>1, <3>2
  <2>2. pending' \in BOOLEAN /\ blocked' \in BOOLEAN
    BY <1>3 DEF StoreInv, MediumType
  <2> QED
    BY <1>3, <1>6, <1>7, <2>1, <2>2, MovesType DEF StoreInv
<1>10. FlushOk'
  <2>1. flush' \in [by : {"none", "send", "end", "task", "compact"}, todo : SUBSET Writes]
    BY <1>4
  <2>2. flush # NoFlush
    BY <1>3, NoFlushFacts DEF Flushing
  <2> QED
    BY <1>3, <1>5, <2>1, <2>2 DEF StoreInv, FlushOk
<1>11. AckedSurvives' /\ RecordsValid'
  BY <1>3, <1>6, MovesKeepAcked DEF StoreInv, Data
<1>12. ImageKnown'
  <2> SUFFICES ASSUME NEW t \in Tables, NEW c \in AllOf(t), pass # "off",
                      img'[Chunk(t, c)] # ram[Chunk(t, c)]
               PROVE  ChunkWrite(t, c) \in flush'.todo
    BY <1>3, <1>5 DEF ImageKnown
  <2>1. i # ChunkWrite(t, c) /\ img[Chunk(t, c)] # ram[Chunk(t, c)]
    BY <1>1, <1>2, WroteChunks
  <2>2. ChunkWrite(t, c) \in flush.todo
    BY <1>3, <2>1 DEF StoreInv, Data, ImageKnown
  <2> QED
    BY <1>5, <2>1, <2>2
<1>13. RecordKnown'
  <2> SUFFICES ASSUME NEW r \in RecordLocs, ~RecordMatches(r)'
               PROVE  RecordWrite(r) \in flush'.todo
    BY DEF RecordKnown
  <2>1. ~RecordMatches(r) /\ i # RecordWrite(r)
    BY <1>7
  <2>2. RecordWrite(r) \in flush.todo
    BY <1>3, <2>1 DEF StoreInv, Data, RecordKnown
  <2> QED
    BY <1>5, <2>1, <2>2
<1>14. IndexExact'
  <2> SUFFICES ASSUME kind = "flash", pass # "off" PROVE \A r \in RecordLocs : rec'[r] = idx'[r]
    BY <1>3 DEF IndexExact
  <2>1. ~pending
    BY <1>3 DEF Room
  <2>2. \A r \in RecordLocs : rec[r] = idx[r]
    BY <2>1 DEF StoreInv, Data, IndexExact
  <2> QED
    BY <1>7, <2>2
<1>15. ChangeFlagged' /\ RangesTouched'
  BY <1>3 DEF StoreInv, ChangeFlagged, RangesTouched
<1>16. Crcs'
  <2>1. ResyncIsFault'
    BY <1>5 DEF ResyncIsFault
  <2>2. \A t \in Tables : Excused(t)' <=> Excused(t)
    BY <1>3 DEF Excused, Overflow
  <2>3. CrcExcused'
    BY <1>5, <2>2 DEF StoreInv, Crcs, CrcExcused
  <2>4. CrcFollows'
    <3> SUFFICES ASSUME NEW t \in Tables, NEW c \in AllOf(t), kind = "byte",
                        ChunkWrite(t, c) \in flush'.todo
                 PROVE  CrcWrite(t) \in flush'.todo
      BY <1>3 DEF CrcFollows
    <3>1. ChunkWrite(t, c) \in flush.todo /\ CrcWrite(t) \in flush.todo
      BY <1>5 DEF StoreInv, Crcs, CrcFollows
    <3>2. i # CrcWrite(t)
      BY <1>1, <3>1, CrcLast
    <3> QED
      BY <1>5, <3>1, <3>2
  <2>5. StaleExcused'
    <3> SUFFICES ASSUME NEW t \in Tables, Stale(t)'
                 PROVE  left.faults < MaxFaults \/ t \in partial' \/ CrcWrite(t) \in flush'.todo
      <4>1. pass' # "off"
        BY <1>3, NoFlushFacts DEF StoreInv, FlushOk, Flushing
      <4> QED
        BY <1>3, <4>1 DEF StaleExcused
    <3>0. pass # "off" /\ kind = "byte"
      BY <1>3, NoFlushFacts DEF StoreInv, FlushOk, Flushing, Stale
    <3>1. CASE i = CrcWrite(t)
      <4>1. i.w = "crc" /\ i.t = t
        BY <3>1 DEF CrcWrite
      <4>2. img' = img /\ crc' = [crc EXCEPT ![t] = ImageNow(t)]
        BY <1>1, <4>1 DEF WroteOk, WriteDone
      <4>3. crc'[t] = [c \in AllOf(t) |-> ram[Chunk(t, c)]]
        BY <4>2 DEF StoreInv, MediumType, ImageNow
      <4>4. \A c \in AllOf(t) : img[Chunk(t, c)] = ram[Chunk(t, c)]
        BY <1>1, <1>3, <3>0, <3>1, CrcLast DEF StoreInv, Data, ImageKnown
      <4> QED
        BY <4>2, <4>3, <4>4 DEF Stale
    <3>2. CASE \E c \in AllOf(t) : i = ChunkWrite(t, c)
      <4>1. CrcWrite(t) \in flush.todo
        BY <1>2, <3>0, <3>2 DEF StoreInv, Crcs, CrcFollows
      <4>2. i # CrcWrite(t)
        BY <3>2, WriteFacts
      <4> QED
        BY <1>5, <4>1, <4>2
    <3>3. CASE i # CrcWrite(t) /\ \A c \in AllOf(t) : i # ChunkWrite(t, c)
      <4>1. \A c \in AllOf(t) : img'[Chunk(t, c)] = img[Chunk(t, c)]
        BY <1>1, <1>2, <3>3, WroteChunks
      <4>2. ~(i.w = "crc" /\ i.t = t)
        BY <1>2, <3>3, WriteKinds
      <4>3. crc'[t] = crc[t] /\ (t \in partial => t \in partial')
        BY <1>1, <4>2 DEF WroteOk, WriteDone, StoreInv, MediumType
      <4>4. Stale(t)
        BY <1>3, <4>1, <4>3 DEF Stale
      <4> QED
        BY <1>5, <3>0, <3>3, <4>3, <4>4 DEF StoreInv, Crcs, StaleExcused
    <3> QED
      BY <3>1, <3>2, <3>3
  <2> QED
    BY <2>1, <2>3, <2>4, <2>5 DEF Crcs
<1> QED
  BY <1>8, <1>9, <1>10, <1>11, <1>12, <1>13, <1>14, <1>15, <1>16 DEF StoreInv, Data

\* No flush is under way.
Idle(f) == f = NoFlush \/ f = [by |-> "compact", todo |-> {}]

LEMMA IdleFacts ==
    ASSUME Idle(flush')
    PROVE  ~Flushing' /\ flush'.todo = {}
           /\ flush' \in [by : {"none", "send", "end", "task", "compact"}, todo : SUBSET Writes]
BY DEF Idle, NoFlush, Flushing

\* A flush that ends in an error: the next one writes every image.
LEMMA FailedFlush ==
    ASSUME StoreInv, Flushing, MediumMoves, pass' # "off", resync' = TRUE,
           UNCHANGED <<kind, ram, ranges, dirty, touched, idx, used, partial>>,
           pending' \in BOOLEAN, blocked' \in BOOLEAN,
           kind = "flash" /\ (pending \/ rec' # rec) => pending',
           kind = "byte" => left'.faults < MaxFaults,
           Idle(flush'), flush' # NoFlush => kind = "flash"
    PROVE  StoreInv'
<1>1. ~Flushing' /\ flush'.todo = {} /\ pass # "off"
  BY IdleFacts, NoFlushFacts DEF StoreInv, FlushOk, Flushing
<1>2. DeviceType'
  BY DEF StoreInv, DeviceType, ValueOf, AllOf
<1>3. MediumType'
  BY MovesType DEF StoreInv, MediumType
<1>4. FlushOk'
  BY <1>1, IdleFacts, NoFlushFacts DEF FlushOk
<1>5. AckedSurvives' /\ RecordsValid'
  BY MovesKeepAcked DEF StoreInv, Data
<1>6. ImageKnown' /\ RecordKnown'
  BY <1>1 DEF ImageKnown, RecordKnown
<1>7. IndexExact'
  BY <1>1 DEF StoreInv, Data, IndexExact
<1>8. ChangeFlagged' /\ RangesTouched'
  BY <1>1 DEF StoreInv, ChangeFlagged, RangesTouched
<1>9. Crcs'
  BY <1>1 DEF Crcs, ResyncIsFault, CrcExcused, CrcFollows, StaleExcused, Stale
<1> QED
  BY <1>2, <1>3, <1>4, <1>5, <1>6, <1>7, <1>8, <1>9 DEF StoreInv, Data

\* Where a flush leaves the router: never off, with nothing more to write.
LEMMA ReturnFacts ==
    ASSUME StoreInv, Flushing, NEW d \in BOOLEAN, Return(d), d => kind = "flash"
    PROVE  /\ pass # "off" /\ pass' # "off" /\ Idle(flush')
           /\ (flush' # NoFlush => kind = "flash")
<1>1. pass # "off"
  BY NoFlushFacts DEF StoreInv, FlushOk, Flushing
<1>2. pass' # "off"
  BY <1>1 DEF Return
<1> QED
  BY <1>1, <1>2 DEF Return, Idle

LEMMA WriteFailsStep ==
    ASSUME StoreInv, ControlType, WriteFails
    PROVE  StoreInv'
<1>1. /\ Flushing /\ Return(FALSE) /\ Finish(FALSE)
      /\ UNCHANGED <<kind, ram, ranges, idx, used, blocked, partial>>
      /\ pending' = (kind = "flash") /\ left' = [left EXCEPT !.faults = @ - 1] /\ left.faults > 0
  BY DEF WriteFails, flushFrame
<1>2. MediumMoves
  <2>1. PICK i \in NextWrites : WriteDone(i) \/ WriteTorn(i) \/ UNCHANGED <<img, crc, rec, slots>>
    BY DEF WriteFails
  <2>2. i \in Writes
    BY <2>1 DEF NextWrites, StoreInv, FlushOk
  <2> QED
    BY <2>1, <2>2, WriteDoneMoves, WriteTornMoves, NoWriteMoves DEF StoreInv, Data
<1>3. resync' = TRUE /\ UNCHANGED <<dirty, touched>>
  BY <1>1 DEF Finish
<1>4. left'.faults < MaxFaults
  <2>1. left'.faults = left.faults - 1 /\ left.faults \in 0 .. MaxFaults /\ MaxFaults \in Nat
    BY <1>1, BoundsAssumption DEF ControlType
  <2> QED
    BY <2>1
<1>5. pass' # "off" /\ Idle(flush') /\ (flush' # NoFlush => kind = "flash")
  BY <1>1, ReturnFacts
<1>6. pending' \in BOOLEAN /\ blocked' \in BOOLEAN /\ (kind = "flash" => pending')
  BY <1>1 DEF StoreInv, MediumType
<1> QED
  BY <1>1, <1>2, <1>3, <1>4, <1>5, <1>6, FailedFlush

LEMMA RefusedStep ==
    ASSUME StoreInv, Refused
    PROVE  StoreInv'
<1>1. /\ Flushing /\ Return(TRUE) /\ Finish(FALSE) /\ ~Room
      /\ UNCHANGED <<kind, ram, ranges, img, crc, rec, idx, slots, used, pending, left, partial>>
      /\ blocked' = TRUE
  BY DEF Refused, flushFrame
<1>2. kind = "flash"
  BY <1>1, MediaAssumption DEF Room, StoreInv, MediumType
<1>3. MediumMoves
  BY <1>1, NoWriteMoves DEF StoreInv, Data
<1>4. resync' = TRUE /\ UNCHANGED <<dirty, touched>>
  BY <1>1 DEF Finish
<1>5. pass' # "off" /\ Idle(flush') /\ (flush' # NoFlush => kind = "flash")
  BY <1>1, <1>2, ReturnFacts
<1>6. pending' \in BOOLEAN /\ blocked' \in BOOLEAN
  BY <1>1 DEF StoreInv, MediumType
<1> QED
  BY <1>1, <1>2, <1>3, <1>4, <1>5, <1>6, FailedFlush

\* A flush with nothing left to write has made everything durable.
LEMMA AllWritten ==
    ASSUME StoreInv, Flushing, flush.todo = {}
    PROVE  /\ \A l \in Locs : Durable(l) = ram[l]
           /\ \A t \in Tables : \A c \in AllOf(t) : img[Chunk(t, c)] = ram[Chunk(t, c)]
           /\ kind = "flash" => \A r \in RecordLocs : rec[r] = idx[r]
<1>1. pass # "off" /\ kind \in Media /\ kind \in {"flash", "byte"}
  BY NoFlushFacts, MediaAssumption DEF StoreInv, FlushOk, Flushing, MediumType
<1>2. \A t \in Tables : \A c \in AllOf(t) : img[Chunk(t, c)] = ram[Chunk(t, c)]
  BY <1>1 DEF StoreInv, Data, ImageKnown
<1>3. \A r \in RecordLocs : RecordMatches(r)
  BY DEF StoreInv, Data, RecordKnown
<1>4. kind = "flash" => \A r \in RecordLocs : rec[r] = idx[r]
  BY <1>1 DEF StoreInv, Data, IndexExact
<1>5. RecordsValid
  BY DEF StoreInv, Data
<1>6. \A l \in ImageLocs : Durable(l) = ram[l]
  BY <1>1, <1>2, <1>5, DurableForms, LocsFacts
<1>7. \A r \in RecordLocs : Durable(r) = ram[r]
  BY <1>1, <1>3, <1>4, <1>5, DurableForms DEF RecordMatches, NewestVal
<1> QED
  BY <1>2, <1>4, <1>6, <1>7, LocsFacts

LEMMA FlushedStep ==
    ASSUME StoreInv, Flushed
    PROVE  StoreInv'
<1>1. /\ Flushing /\ flush.todo = {} /\ Return(FALSE)
      /\ UNCHANGED <<kind, ram, ranges, img, crc, rec, idx, slots, used, pending, blocked, left,
                     partial>>
      /\ dirty' = FALSE /\ resync' = FALSE /\ touched' = {}
  BY DEF Flushed, Finish, flushFrame, mediumVars
<1>2. pass # "off" /\ pass' # "off" /\ Idle(flush') /\ (flush' # NoFlush => kind = "flash")
  BY <1>1, ReturnFacts
<1>3. ~Flushing' /\ flush'.todo = {}
  BY <1>2, IdleFacts
<1>4. DeviceType' /\ MediumType'
  BY <1>1 DEF StoreInv, DeviceType, MediumType, Slot, ValueOf, AllOf
<1>5. FlushOk'
  BY <1>1, <1>2, <1>3, IdleFacts, NoFlushFacts DEF FlushOk
<1>6. RecordsValid'
  BY <1>1 DEF StoreInv, Data, RecordsValid, Valid
<1>7. AckedSurvives'
  <2>1. \A l \in Locs : Durable(l)' = Durable(l)
    BY <1>1 DEF Durable, Valid, Newest
  <2> QED
    BY <1>1, <2>1, AllWritten DEF AckedSurvives
<1>8. ImageKnown' /\ RecordKnown' /\ IndexExact'
  BY <1>1, <1>3, AllWritten DEF ImageKnown, RecordKnown, IndexExact
<1>9. ChangeFlagged' /\ RangesTouched'
  BY <1>1, NoMarkFacts DEF StoreInv, FlushOk, ChangeFlagged, RangesTouched
<1>10. Crcs'
  <2>1. \A t \in Tables : Stale(t)' <=> Stale(t)
    BY <1>1 DEF Stale
  <2> QED
    BY <1>1, <1>2, <1>3, <2>1
    DEF StoreInv, Crcs, ResyncIsFault, CrcExcused, CrcFollows, StaleExcused
<1> QED
  BY <1>4, <1>5, <1>6, <1>7, <1>8, <1>9, <1>10 DEF StoreInv, Data

-----------------------------------------------------------------------------
(* Compaction, power loss and boot.                                        *)

LEMMA CompactOkStep ==
    ASSUME StoreInv, CompactOk, kind = "flash", pass # "off", pass' # "off", flush' = NoFlush,
           UNCHANGED <<kind, ram, partial>>
    PROVE  StoreInv'
<1>1. ~Flushing' /\ flush'.todo = {}
  BY NoFlushFacts DEF Flushing
<1>2. /\ img' = [l \in ImageLocs |-> ram[l]] /\ rec' = [l \in RecordLocs |-> ram[l]] /\ idx' = rec'
      /\ used' = 0 /\ pending' = FALSE /\ blocked' = FALSE /\ ranges' = NoMark
      /\ resync' = FALSE /\ dirty' = FALSE /\ touched' = {} /\ UNCHANGED <<crc, slots, left>>
  BY DEF CompactOk
<1>3. DeviceType'
  <2>1. ranges' \in [Tables -> SUBSET Nat] /\ \A t \in Tables : ranges'[t] \subseteq AllOf(t)
    BY <1>2, NoMarkFacts
  <2> QED
    BY <1>2, <2>1 DEF StoreInv, DeviceType, ValueOf, AllOf
<1>4. MediumType'
  <2>1. \A l \in ImageLocs : ram[l] \in Values
    BY LocsFacts DEF StoreInv, DeviceType, ValueOf
  <2>2. img' \in [ImageLocs -> Values]
    BY <1>2, <2>1
  <2>3. \A r \in RecordLocs : rec'[r] \in ValueOf(r)
    BY <1>2, LocsFacts DEF StoreInv, DeviceType
  <2>4. used' \in 0 .. BankRecs
    BY <1>2, BoundsAssumption
  <2>5. rec' = [r \in RecordLocs |-> rec'[r]] /\ idx' = [r \in RecordLocs |-> idx'[r]]
    BY <1>2
  <2> QED
    BY <1>2, <2>2, <2>3, <2>4, <2>5 DEF StoreInv, MediumType, Slot, ValueOf
<1>5. FlushOk'
  BY <1>1, NoFlushFacts DEF FlushOk, NoFlush
<1>6. RecordsValid'
  BY <1>2 DEF StoreInv, Data, RecordsValid, Valid
<1>7. AckedSurvives'
  <2>1. \A l \in ImageLocs : Durable(l)' = ram[l]
    BY <1>2, <1>4, <1>6, DurableFormsNext DEF MediumType
  <2>2. \A r \in RecordLocs : Durable(r)' = ram[r]
    BY <1>2, <1>4, <1>6, DurableFormsNext DEF MediumType
  <2> QED
    BY <2>1, <2>2, LocsFacts DEF AckedSurvives
<1>8. ImageKnown' /\ RecordKnown' /\ IndexExact'
  BY <1>1, <1>2, LocsFacts DEF ImageKnown, RecordKnown, IndexExact
<1>9. ChangeFlagged' /\ RangesTouched'
  BY <1>2, NoMarkFacts DEF ChangeFlagged, RangesTouched
<1>10. Crcs'
  BY <1>1 DEF Crcs, ResyncIsFault, CrcExcused, CrcFollows, StaleExcused, Stale
<1> QED
  BY <1>3, <1>4, <1>5, <1>6, <1>7, <1>8, <1>9, <1>10 DEF StoreInv, Data

LEMMA CompactFailsStep ==
    ASSUME StoreInv, CompactFails, kind = "flash", pass # "off", pass' # "off",
           ~Flushing, flush' = NoFlush, UNCHANGED <<kind, ram, partial>>
    PROVE  StoreInv'
<1>1. ~Flushing' /\ flush'.todo = {}
  BY NoFlushFacts DEF Flushing
<1>2. /\ pending' = TRUE
      /\ UNCHANGED <<img, crc, rec, idx, slots, used, blocked, ranges, resync, dirty, touched>>
  BY DEF CompactFails
<1>3. DeviceType' /\ MediumType'
  BY <1>2 DEF StoreInv, DeviceType, MediumType, Slot, ValueOf, AllOf
<1>4. FlushOk'
  BY <1>1, NoFlushFacts DEF FlushOk, NoFlush
<1>5. AckedSurvives' /\ RecordsValid'
  BY <1>2 DEF StoreInv, Data, AckedSurvives, RecordsValid, Durable, Valid, Newest
<1>6. ImageKnown' /\ RecordKnown' /\ IndexExact'
  BY <1>1, <1>2 DEF StoreInv, Data, ImageKnown, RecordKnown, IndexExact
<1>7. ChangeFlagged' /\ RangesTouched'
  BY <1>2 DEF StoreInv, ChangeFlagged, RangesTouched
<1>8. Crcs'
  BY <1>1 DEF Crcs, ResyncIsFault, CrcExcused, CrcFollows, StaleExcused, Stale
<1> QED
  BY <1>3, <1>4, <1>5, <1>6, <1>7, <1>8 DEF StoreInv, Data

\* Power goes, perhaps inside the write that is next.
LEMMA PowerOffStep ==
    ASSUME StoreInv, pass # "off", PowerOff, pending' \in BOOLEAN, left'.faults = left.faults,
           \/ UNCHANGED <<img, crc, rec, slots>>
           \/ Flushing /\ \E i \in NextWrites : WriteTorn(i)
    PROVE  StoreInv'
<1>1. /\ pass' = "off" /\ flush' = NoFlush /\ dirty' = FALSE /\ ranges' = NoMark
      /\ resync' = FALSE /\ blocked' = FALSE /\ UNCHANGED <<kind, ram, used, idx, touched, partial>>
  BY DEF PowerOff
<1>2. ~Flushing' /\ flush'.todo = {}
  BY <1>1, NoFlushFacts DEF Flushing
<1>3. MediumMoves
  <2>1. CASE UNCHANGED <<img, crc, rec, slots>>
    BY <2>1, NoWriteMoves DEF StoreInv, Data
  <2>2. ASSUME NEW i \in NextWrites, WriteTorn(i) PROVE MediumMoves
    BY <2>2, WriteTornMoves DEF StoreInv, Data, FlushOk, NextWrites
  <2> QED
    BY <2>1, <2>2
<1>4. DeviceType'
  <2>1. ranges' \in [Tables -> SUBSET Nat] /\ \A t \in Tables : ranges'[t] \subseteq AllOf(t)
    BY <1>1, NoMarkFacts
  <2> QED
    BY <1>1, <2>1 DEF StoreInv, DeviceType, ValueOf, AllOf
<1>5. MediumType'
  <2>1. idx' = [r \in RecordLocs |-> idx'[r]] /\ used' \in 0 .. BankRecs /\ blocked' \in BOOLEAN
    BY <1>1 DEF StoreInv, MediumType
  <2> QED
    BY <1>1, <1>3, <2>1, MovesType DEF StoreInv
<1>6. FlushOk'
  BY <1>1, <1>2, NoFlushFacts DEF FlushOk, NoFlush
<1>7. AckedSurvives' /\ RecordsValid'
  BY <1>1, <1>3, MovesKeepAcked DEF StoreInv, Data
<1>8. ImageKnown' /\ RecordKnown' /\ IndexExact' /\ ChangeFlagged' /\ RangesTouched'
  BY <1>1, <1>2, NoMarkFacts DEF ImageKnown, RecordKnown, IndexExact, ChangeFlagged, RangesTouched
<1>9. Crcs'
  <2>1. \A t \in Tables : Excused(t)' <=> Excused(t)
    BY <1>1 DEF Excused, Overflow
  <2>2. ASSUME NEW t \in Tables, Stale(t)'
        PROVE  left.faults < MaxFaults \/ t \in partial \/ Excused(t)
    <3>1. CASE Stale(t)
      BY <3>1 DEF StoreInv, Crcs, StaleExcused, CrcExcused
    <3>2. CASE ~Stale(t)
      <4>1. PICK i \in NextWrites : WriteTorn(i)
        BY <1>1, <2>2, <3>2 DEF Stale
      <4>2. i \in flush.todo /\ i \in Writes
        BY <4>1 DEF NextWrites, StoreInv, FlushOk
      <4>3. i.w = "crc" /\ i.t = t
        <5>1. img' = img
          BY <4>1 DEF WriteTorn
        <5>2. crc'[t] # crc[t]
          BY <1>1, <2>2, <3>2, <5>1 DEF Stale
        <5> QED
          BY <4>1, <5>2 DEF WriteTorn, StoreInv, MediumType
      <4>4. i = CrcWrite(t)
        BY <4>2, <4>3, WriteKinds
      <4> QED
        BY <4>2, <4>4 DEF StoreInv, Crcs, CrcExcused
    <3> QED
      BY <3>1, <3>2
  <2> QED
    BY <1>1, <1>2, <2>1, <2>2 DEF Crcs, ResyncIsFault, CrcExcused, CrcFollows, StaleExcused
<1> QED
  BY <1>4, <1>5, <1>6, <1>7, <1>8, <1>9 DEF StoreInv, Data

LEMMA DurableType ==
    ASSUME MediumType, RecordsValid
    PROVE  \A l \in Locs : Durable(l) \in ValueOf(l)
<1>1. kind \in Media /\ kind \in {"flash", "byte"}
  BY MediaAssumption DEF MediumType
<1>2. \A l \in ImageLocs : Durable(l) \in ValueOf(l)
  BY <1>1, DurableForms, LocsFacts DEF MediumType, ValueOf
<1>3. \A r \in RecordLocs : NewestVal(r) \in ValueOf(r)
  <2> SUFFICES ASSUME NEW r \in RecordLocs PROVE NewestVal(r) \in ValueOf(r)
    OBVIOUS
  <2>1. Newest(r) \in {0, 1}
    BY NewestFacts DEF RecordsValid
  <2>2. slots[r][Newest(r)] \in Slot(r)
    BY <2>1 DEF MediumType
  <2> QED
    BY <2>2 DEF NewestVal, Slot
<1>4. \A r \in RecordLocs : Durable(r) \in ValueOf(r)
  BY <1>1, <1>3, DurableForms DEF MediumType
<1> QED
  BY <1>2, <1>4, LocsFacts

\* What a boot does to the slots of a Record.
LEMMA BootSlots ==
    ASSUME StoreInv, Boot, NEW r \in RecordLocs
    PROVE  /\ slots'[r] \in [{0, 1} -> Slot(r)] /\ Valid(r)' # {}
           /\ (r \in Invalidated => NewestVal(r)' = "err")
           /\ (r \notin Invalidated => NewestVal(r)' = NewestVal(r))
<1>1. slots'[r] = IF r \in Invalidated
                  THEN [slots[r] EXCEPT ![TargetSlot(r)] = [gen |-> NextGen(r), val |-> "err", ok |-> TRUE]]
                  ELSE slots[r]
  BY DEF Boot
<1>2. MediumType /\ Valid(r) # {}
  BY DEF StoreInv, Data, RecordsValid
<1>3. slots[r] \in [{0, 1} -> Slot(r)]
  BY <1>2 DEF MediumType
<1>4. CASE r \in Invalidated
  <2>1. "err" \in ValueOf(r)
    BY <1>4 DEF Invalidated, ValueOf, CtlLocs, LoadStates
  <2>2. TargetSlot(r) \in {0, 1}
    BY <1>2, NewestFacts
  <2>3. /\ slots'[r] = [s \in {0, 1} |-> slots'[r][s]]
        /\ slots'[r][TargetSlot(r)] = [gen |-> NextGen(r), val |-> "err", ok |-> TRUE]
        /\ \A s \in {0, 1} : s # TargetSlot(r) => slots'[r][s] = slots[r][s]
    BY <1>1, <1>3, <1>4, <2>2
  <2>4. /\ Valid(r)' # {} /\ slots'[r] \in [{0, 1} -> Slot(r)]
        /\ slots'[r][Newest(r)'].val = "err"
    BY <1>2, <2>1, <2>3, SlotStep
  <2> QED
    BY <1>4, <2>4 DEF NewestVal
<1>5. CASE r \notin Invalidated
  BY <1>1, <1>2, <1>3, <1>5, SlotKept
<1> QED
  BY <1>4, <1>5

\* A boot restores each location as it is durable, and what it rewrites is
\* durable too.
LEMMA BootStep ==
    ASSUME StoreInv, Boot
    PROVE  StoreInv'
<1>1. /\ pass = "off" /\ pass' = "idle" /\ touched' = {} /\ idx' = rec
      /\ ram' = [l \in Locs |-> IF l \in Invalidated THEN "err" ELSE Durable(l)]
      /\ slots' = [r \in RecordLocs |-> slots'[r]]
      /\ partial' = {t \in Tables : Stale(t)}
      /\ UNCHANGED <<kind, dirty, ranges, resync, img, crc, rec, blocked, flush, left>>
  BY DEF Boot
<1>2. flush = NoFlush /\ flush' = NoFlush /\ ~Flushing /\ ~Flushing' /\ flush'.todo = {} /\ ranges = NoMark
  BY <1>1, NoFlushFacts DEF StoreInv, FlushOk, Flushing
<1>3. Invalidated \subseteq CtlLocs /\ (Invalidated # {} => kind = "byte")
  BY DEF Invalidated, CtlLocs, Stale
<1>4. \A l \in Locs : ram'[l] = IF l \in Invalidated THEN "err" ELSE Durable(l)
  BY <1>1
<1>5. RecordsValid'
  BY BootSlots DEF RecordsValid
<1>6. DeviceType'
  <2>1. \A l \in Locs : ram'[l] \in ValueOf(l)
    BY <1>3, <1>4, DurableType DEF StoreInv, Data, ValueOf, LoadStates
  <2>2. ram' = [l \in Locs |-> ram'[l]]
    BY <1>1
  <2> QED
    BY <1>1, <2>1, <2>2 DEF StoreInv, DeviceType, ValueOf, AllOf
<1>7. MediumType'
  <2>1. used' \in 0 .. BankRecs /\ pending' \in BOOLEAN
    <3>1. CASE NeedsCompaction(used, pending, blocked)
      <4>1. used' = 0 /\ pending' = FALSE
        BY <3>1 DEF Boot
      <4>2. 0 \in 0 .. BankRecs
        BY BoundsAssumption
      <4> QED
        BY <4>1, <4>2
    <3>2. CASE ~NeedsCompaction(used, pending, blocked)
      BY <3>2 DEF Boot, StoreInv, MediumType
    <3> QED
      BY <3>1, <3>2
  <2>2. \A r \in RecordLocs : slots'[r] \in [{0, 1} -> Slot(r)]
    BY BootSlots
  <2> QED
    BY <1>1, <2>1, <2>2 DEF StoreInv, MediumType, Slot, ValueOf
<1>8. FlushOk'
  BY <1>1, <1>2, NoFlushFacts DEF FlushOk, NoFlush
<1>9. \A l \in Locs : Durable(l)' = ram'[l]
  <2>1. kind \in Media /\ kind' \in Media /\ kind \in {"flash", "byte"} /\ RecordsValid
    BY <1>1, MediaAssumption DEF StoreInv, Data, MediumType
  <2>2. \A l \in ImageLocs : Durable(l)' = Durable(l) /\ l \notin Invalidated
    BY <1>1, <1>3, <1>5, <2>1, DurableForms, DurableFormsNext, LocsFacts
  <2>3. CASE kind = "flash"
    <3>1. \A r \in RecordLocs : Durable(r)' = Durable(r) /\ r \notin Invalidated
      BY <1>1, <1>3, <1>5, <2>1, <2>3, DurableForms, DurableFormsNext
    <3> QED
      BY <1>4, <2>2, <3>1, LocsFacts
  <2>4. CASE kind = "byte"
    <3>1. \A r \in RecordLocs : Durable(r)' = NewestVal(r)' /\ Durable(r) = NewestVal(r)
      BY <1>1, <1>5, <2>1, <2>4, DurableForms, DurableFormsNext
    <3> QED
      BY <1>4, <2>2, <3>1, BootSlots, LocsFacts
  <2> QED
    BY <2>1, <2>3, <2>4
<1>10. AckedSurvives'
  BY <1>9 DEF AckedSurvives
<1>11. ImageKnown'
  <2>1. \A l \in ImageLocs : img'[l] = ram'[l]
    BY <1>1, <1>5, <1>7, <1>9, DurableFormsNext, LocsFacts DEF MediumType
  <2> QED
    BY <2>1, LocsFacts DEF ImageKnown
<1>12. RecordKnown' /\ IndexExact'
  BY <1>1, <1>2 DEF RecordKnown, IndexExact
<1>13. ChangeFlagged' /\ RangesTouched'
  BY <1>1, <1>2, NoMarkFacts DEF ChangeFlagged, RangesTouched
<1>14. Crcs'
  <2>1. \A t \in Tables : Stale(t)' <=> Stale(t)
    BY <1>1 DEF Stale
  <2> QED
    BY <1>1, <1>2, <2>1 DEF StoreInv, Crcs, ResyncIsFault, CrcExcused, CrcFollows, StaleExcused
<1> QED
  BY <1>5, <1>6, <1>7, <1>8, <1>10, <1>11, <1>12, <1>13, <1>14 DEF StoreInv, Data

-----------------------------------------------------------------------------
(* Every step keeps the store's part of the invariant.                     *)

\* A task that finds the router awaiting finds it powered and not flushing.
LEMMA AwaitFacts ==
    ASSUME AtAwait
    PROVE  flush = NoFlush /\ pass # "off" /\ ~Flushing
BY NoFlushFacts DEF AtAwait, Flushing

LEMMA DispatchStore ==
    ASSUME StoreInv, ControlType, Dispatch
    PROVE  StoreInv'
<1>1. /\ flush = NoFlush /\ pass # "off" /\ pass' # "off" /\ left'.faults = left.faults
      /\ UNCHANGED <<kind, resync, img, crc, rec, idx, slots, used, pending, blocked, flush, partial>>
  BY DEF Dispatch, mediumVars, ControlType
<1>2. DeviceType /\ resync' = resync
  BY <1>1 DEF StoreInv
<1>3. LiveStep
  <2>1. \/ WriteAddress
        \/ \E t \in Tables : WriteLsm(t) \/ MemoryWrite(t)
        \/ CountFailure
    BY DEF Dispatch
  <2> QED
    BY <1>2, <2>1, WriteAddressLive, WriteLsmLive, MemoryWriteLive, CountFailureLive
<1> QED
  BY <1>1, <1>3, LiveStepStore

\* Steps of the router and the task that leave the store alone.
LEMMA QuietStore ==
    ASSUME StoreInv, ControlType,
           DispatchRestart \/ ReleaseParked \/ Send \/ RouterResume \/ TaskRestart \/ UNCHANGED vars
    PROVE  StoreInv'
<1>1. CASE DispatchRestart
  BY <1>1, StoreFrame DEF DispatchRestart, deviceVars, mediumVars, ControlType
<1>2. CASE ReleaseParked
  BY <1>2, StoreFrame DEF ReleaseParked, deviceVars, mediumVars, historyVars
<1>3. CASE Send
  BY <1>3, StoreFrame DEF Send, deviceVars, mediumVars
<1>4. CASE RouterResume
  BY <1>4, StoreFrame DEF RouterResume, deviceVars, mediumVars, historyVars
<1>5. CASE TaskRestart
  BY <1>5, StoreFrame DEF TaskRestart, taskFrame, routerVars, deviceVars, mediumVars
<1>6. CASE UNCHANGED vars
  BY <1>6, StoreFrame DEF vars, deviceVars, mediumVars, routerVars, historyVars
<1> QED
  BY <1>1, <1>2, <1>3, <1>4, <1>5, <1>6

LEMMA RouterTakeStore ==
    ASSUME StoreInv, RouterTake
    PROVE  StoreInv'
<1>1. /\ pass = "take" /\ flush = NoFlush
      /\ UNCHANGED <<kind, ram, dirty, img, crc, rec, idx, slots, used, pending, blocked,
                     touched, left, partial>>
  BY DEF RouterTake, mediumVars
<1>2. CASE dirty
  <2>1. PICK by \in {"send", "end", "task"} : StartFlush(by)
    BY <1>2 DEF RouterTake
  <2>2. pass' # "off"
    BY <1>1, <1>2 DEF RouterTake
  <2> QED
    BY <1>1, <2>1, <2>2, StartFlushStep
<1>3. CASE ~dirty
  <2>1. pass' # "off" /\ UNCHANGED <<flush, ranges, resync>>
    BY <1>3 DEF RouterTake
  <2> QED
    BY <1>1, <2>1, StoreFrame
<1> QED
  BY <1>2, <1>3

LEMMA CompactStore ==
    ASSUME StoreInv, Compact, kind = "flash", pass # "off", ~Flushing, pass' # "off",
           flush' = NoFlush, UNCHANGED <<kind, ram, partial>>
    PROVE  StoreInv'
BY CompactOkStep, CompactFailsStep DEF Compact

LEMMA TaskMaintainStore ==
    ASSUME StoreInv, TaskMaintain
    PROVE  StoreInv'
<1>1. /\ flush = NoFlush /\ pass # "off" /\ ~Flushing
      /\ UNCHANGED <<kind, pass, ram, partial, flush>>
  BY AwaitFacts DEF TaskMaintain, taskFrame, routerVars
<1>2. CASE NeedsCompaction(used, pending, blocked)
  <2>1. Compact /\ kind = "flash"
    BY <1>2 DEF TaskMaintain, NeedsCompaction
  <2> QED
    BY <1>1, <2>1, CompactStore
<1>3. CASE ~NeedsCompaction(used, pending, blocked)
  <2>1. UNCHANGED <<ram, dirty, ranges, resync, img, crc, rec, idx, slots, used, pending, blocked,
                    left, touched>>
    BY <1>3 DEF TaskMaintain, deviceVars, mediumVars
  <2> QED
    BY <1>1, <2>1, StoreFrame
<1> QED
  BY <1>2, <1>3

LEMMA EraseStore ==
    ASSUME StoreInv, EraseAndSettle
    PROVE  StoreInv'
<1>1. /\ flush = NoFlush /\ pass # "off"
      /\ UNCHANGED <<kind, pass, resync, img, crc, rec, idx, slots, used, pending, blocked, flush,
                     left, partial>>
  BY AwaitFacts DEF EraseAndSettle, taskFrame, routerVars, mediumVars
<1>2. CASE task.code = "basic"
  <2>1. UNCHANGED <<ram, dirty, ranges, touched>>
    BY <1>2 DEF EraseAndSettle, deviceVars
  <2> QED
    BY <1>1, <2>1, StoreFrame
<1>3. CASE task.code # "basic"
  <2>1. PICK code : code = task.code
    OBVIOUS
  <2>2. Erase(code) /\ DeviceType /\ resync' = resync
    BY <1>1, <1>3, <2>1 DEF EraseAndSettle, StoreInv
  <2>3. LiveStep
    BY <2>2, EraseLive
  <2> QED
    BY <1>1, <2>3, LiveStepStore
<1> QED
  BY <1>2, <1>3

LEMMA TaskFlushStore ==
    ASSUME StoreInv, TaskFlush
    PROVE  StoreInv'
<1>1. /\ flush = NoFlush /\ pass # "off" /\ StartFlush("task")
      /\ UNCHANGED <<kind, pass, ram, dirty, img, crc, rec, idx, slots, used, pending, blocked,
                     touched, left, partial>>
  BY AwaitFacts DEF TaskFlush, taskFrame, routerVars, mediumVars
<1> QED
  BY <1>1, StartFlushStep

LEMMA TaskCompactStore ==
    ASSUME StoreInv, TaskCompact
    PROVE  StoreInv'
<1>1. flush.by = "compact" /\ ~Flushing /\ pass # "off" /\ kind = "flash"
  BY NoFlushFacts DEF TaskCompact, Flushing, StoreInv, FlushOk
<1>2. Compact /\ flush' = NoFlush /\ UNCHANGED <<kind, pass, ram, partial>>
  BY DEF TaskCompact, taskFrame, routerVars
<1> QED
  BY <1>1, <1>2, CompactStore

LEMMA TaskResetStore ==
    ASSUME StoreInv, TaskReset
    PROVE  StoreInv'
<1>1. flush = NoFlush /\ pass # "off"
  BY AwaitFacts DEF TaskReset
<1>2. CASE PowerOff /\ UNCHANGED <<img, crc, rec, slots, pending, left>>
  <2>1. pending' \in BOOLEAN
    BY <1>2 DEF StoreInv, MediumType
  <2> QED
    BY <1>1, <1>2, <2>1, PowerOffStep
<1>3. CASE UNCHANGED <<taskFrame, deviceVars, resync, mediumVars, flush, left, touched>>
  BY <1>1, <1>3, StoreFrame DEF taskFrame, routerVars, deviceVars, mediumVars
<1> QED
  BY <1>2, <1>3 DEF TaskReset

LEMMA PowerCutStore ==
    ASSUME StoreInv, ControlType, PowerCut
    PROVE  StoreInv'
<1>1. pass # "off" /\ PowerOff /\ left'.faults = left.faults
  BY DEF PowerCut, ControlType
<1>2. CASE UNCHANGED <<img, crc, rec, slots, pending>>
  <2>1. pending' \in BOOLEAN
    BY <1>2 DEF StoreInv, MediumType
  <2> QED
    BY <1>1, <1>2, <2>1, PowerOffStep
<1>3. CASE Flushing /\ (\E i \in NextWrites : WriteTorn(i)) /\ pending' = (kind = "flash")
  BY <1>1, <1>3, PowerOffStep
<1> QED
  BY <1>2, <1>3 DEF PowerCut

LEMMA StoreStep ==
    ASSUME StoreInv, ControlType, [Next]_vars
    PROVE  StoreInv'
<1>1. CASE Dispatch
  BY <1>1, DispatchStore
<1>2. CASE DispatchRestart \/ ReleaseParked \/ Send \/ RouterResume \/ TaskRestart \/ UNCHANGED vars
  BY <1>2, QuietStore
<1>3. CASE RouterTake
  BY <1>3, RouterTakeStore
<1>4. CASE WriteOk \/ WriteFails \/ Refused \/ Flushed
  BY <1>4, WriteOkStep, WriteFailsStep, RefusedStep, FlushedStep
<1>5. CASE TaskMaintain \/ TaskFlush \/ TaskCompact \/ TaskReset
  BY <1>5, TaskMaintainStore, TaskFlushStore, TaskCompactStore, TaskResetStore
<1>6. CASE TaskDrained \/ TaskDrainTimeout
  BY <1>6, EraseStore DEF TaskDrained, TaskDrainTimeout
<1>7. CASE PowerCut \/ Boot
  BY <1>7, PowerCutStore, BootStep
<1> QED
  BY <1>1, <1>2, <1>3, <1>4, <1>5, <1>6, <1>7 DEF Next

-----------------------------------------------------------------------------
(* The router, the storage task and the restart response.                  *)

\* Steps that leave the address and what is queued alone.
LEMMA ControlFrame ==
    ASSUME ControlInv, ControlType', Control', ram'[IA] = ram[IA],
           UNCHANGED <<outbox, parked, answer>>, late => late'
    PROVE  ControlInv'
BY DEF ControlInv, ResponsesDue, AnsweredFromOldAddress

LEMMA AddressType ==
    ASSUME DeviceType
    PROVE  ram[IA] \in Values
BY LocsFacts DEF DeviceType, ValueOf

LEMMA EmptyOutbox ==
    /\ <<>> \in Seq(Frames) /\ Len(<<>>) = 0
    /\ \A n \in 1 .. Len(<<>>) : FALSE
<1>1. <<>> \in Seq(Frames) /\ Len(<<>>) = 0
  OBVIOUS
<1>2. 1 .. 0 = {}
  OBVIOUS
<1> QED
  BY <1>1, <1>2

LEMMA NoAnswerFacts ==
    NoAnswer \in [src : Values, due : Values] /\ NoAnswer.src = NoAnswer.due
BY ValuesAssumption DEF NoAnswer

LEMMA TaskIdleType ==
    TaskIdle \in [at : {"idle", "drain", "settle", "reset"}, code : Codes \cup {NoRequest}]
BY DEF TaskIdle

LEMMA DispatchControl ==
    ASSUME ConfigInv, Dispatch
    PROVE  ControlInv'
<1>1. /\ flush = NoFlush /\ flush' = NoFlush /\ pass' = "take"
      /\ UNCHANGED <<parked, signal, request, task, answer, late>>
      /\ outbox' = <<>> \/ outbox' = <<[k |-> "resp"]>>
      /\ left.ops > 0 /\ left' = [left EXCEPT !.ops = @ - 1]
  BY DEF Dispatch, taskVars
<1>2. outbox' \in Seq(Frames) /\ \A n \in 1 .. Len(outbox') : outbox'[n].k # "restart"
  <2>1. CASE outbox' = <<>>
    BY <2>1, EmptyOutbox
  <2>2. CASE outbox' = <<[k |-> "resp"]>>
    <3>1. [k |-> "resp"] \in Frames /\ [k |-> "resp"].k = "resp"
      BY DEF Frames
    <3>2. Len(outbox') = 1 /\ outbox'[1] = [k |-> "resp"] /\ outbox' \in Seq(Frames)
      BY <2>2, <3>1
    <3> QED
      BY <3>1, <3>2
  <2> QED
    BY <1>1, <2>1, <2>2
<1>3. left' \in [ops : Nat, faults : 0 .. MaxFaults, cuts : Nat]
  BY SMTT(30), <1>1 DEF ConfigInv, ControlInv, ControlType
<1>4. ControlType'
  BY <1>1, <1>2, <1>3 DEF ConfigInv, ControlInv, ControlType
<1>5. Control'
  BY <1>1, NoFlushFacts DEF Control
<1>6. ResponsesDue'
  BY <1>1, <1>2 DEF ConfigInv, ControlInv, ResponsesDue
<1>7. AnsweredFromOldAddress'
  BY <1>1 DEF ConfigInv, ControlInv, AnsweredFromOldAddress
<1> QED
  BY <1>4, <1>5, <1>6, <1>7 DEF ControlInv

\* What handle_restart queues.
LEMMA DispatchRestartControl ==
    ASSUME ConfigInv, DispatchRestart
    PROVE  ControlInv'
<1>1. /\ flush' = NoFlush /\ pass' = "take" /\ ram' = ram
      /\ UNCHANGED <<signal, task, answer>>
      /\ left.ops > 0 /\ left' = [left EXCEPT !.ops = @ - 1]
  BY DEF DispatchRestart, deviceVars
<1>2. PICK f : f = [k |-> "restart", due |-> ram[IA]]
  OBVIOUS
<1>3. PICK a : a = [k |-> "ack"]
  OBVIOUS
<1>4. PICK code \in Codes, park \in BOOLEAN :
        /\ request' = IF request = NoRequest THEN code ELSE request
        /\ outbox' = IF code # "basic" /\ ~park THEN <<a, f>> ELSE <<a>>
        /\ parked' = IF park THEN <<f>> ELSE parked
        /\ late' = (late \/ park)
  BY <1>2, <1>3 DEF DispatchRestart
<1>5. f \in Frames /\ a \in Frames /\ f.due = ram[IA] /\ a.k # "restart"
  BY <1>2, <1>3, AddressType DEF Frames, ConfigInv, StoreInv
<1>6. /\ <<a, f>> \in Seq(Frames) /\ <<a>> \in Seq(Frames) /\ <<f>> \in Seq(Frames)
      /\ Len(<<a, f>>) = 2 /\ Len(<<a>>) = 1
      /\ <<a, f>>[1] = a /\ <<a, f>>[2] = f /\ <<a>>[1] = a
  BY <1>5
<1>7. /\ outbox' \in Seq(Frames) /\ parked' \in Seq(Frames)
      /\ \A n \in 1 .. Len(outbox') : outbox'[n] = a \/ outbox'[n] = f
  <2>1. parked' \in Seq(Frames)
    BY <1>4, <1>6 DEF ConfigInv, ControlInv, ControlType
  <2>2. CASE outbox' = <<a, f>>
    <3>1. \A n \in 1 .. 2 : n = 1 \/ n = 2
      OBVIOUS
    <3> QED
      BY <1>6, <2>1, <2>2, <3>1
  <2>3. CASE outbox' = <<a>>
    <3>1. \A n \in 1 .. 1 : n = 1
      OBVIOUS
    <3> QED
      BY <1>6, <2>1, <2>3, <3>1
  <2> QED
    BY <1>4, <2>2, <2>3
<1>8. left' \in [ops : Nat, faults : 0 .. MaxFaults, cuts : Nat]
  BY SMTT(30), <1>1 DEF ConfigInv, ControlInv, ControlType
<1>9. late' \in BOOLEAN /\ request' \in Codes \cup {NoRequest}
  BY <1>4 DEF ConfigInv, ControlInv, ControlType
<1>10. ControlType'
  BY <1>1, <1>7, <1>8, <1>9 DEF ConfigInv, ControlInv, ControlType
<1>11. Control'
  BY <1>1, NoFlushFacts DEF Control
<1>12. ResponsesDue'
  <2>1. parked' # <<>> => late'
    BY <1>4 DEF ConfigInv, ControlInv, ResponsesDue
  <2>2. \A n \in 1 .. Len(outbox') : outbox'[n].k = "restart" => outbox'[n].due = ram'[IA]
    BY <1>1, <1>5, <1>7
  <2> QED
    BY <2>1, <2>2 DEF ResponsesDue
<1>13. AnsweredFromOldAddress'
  BY <1>1, <1>4 DEF ConfigInv, ControlInv, AnsweredFromOldAddress
<1> QED
  BY <1>10, <1>11, <1>12, <1>13 DEF ControlInv

LEMMA ReleaseParkedControl ==
    ASSUME ConfigInv, ReleaseParked
    PROVE  ControlInv'
<1>1. /\ flush' = NoFlush /\ pass' = "take" /\ ram' = ram /\ parked # <<>> /\ parked' = <<>>
      /\ outbox' = parked /\ UNCHANGED <<signal, request, task, left, answer, late>>
  BY DEF ReleaseParked, deviceVars, taskVars, historyVars
<1>2. ControlType'
  BY <1>1, EmptyOutbox DEF ConfigInv, ControlInv, ControlType
<1>3. Control'
  BY <1>1, NoFlushFacts DEF Control
<1>4. late /\ late' /\ ResponsesDue' /\ AnsweredFromOldAddress'
  BY <1>1 DEF ConfigInv, ControlInv, ResponsesDue, AnsweredFromOldAddress
<1> QED
  BY <1>2, <1>3, <1>4 DEF ControlInv

\* The frame taken carries the address it was queued for.
LEMMA RouterTakeControl ==
    ASSUME ConfigInv, RouterTake
    PROVE  ControlInv'
<1>1. /\ pass = "take" /\ flush = NoFlush /\ ram' = ram
      /\ outbox' = (IF outbox = <<>> THEN <<>> ELSE Tail(outbox))
      /\ answer' = (IF outbox # <<>> /\ Head(outbox).k = "restart"
                    THEN [src |-> ram[IA], due |-> Head(outbox).due] ELSE answer)
      /\ UNCHANGED <<parked, signal, request, task, left, late>>
  BY DEF RouterTake, taskVars
<1>2. outbox \in Seq(Frames)
  BY DEF ConfigInv, ControlInv, ControlType
<1>3. /\ outbox' \in Seq(Frames)
      /\ \A n \in 1 .. Len(outbox') : n + 1 \in 1 .. Len(outbox) /\ outbox'[n] = outbox[n + 1]
  <2>1. CASE outbox = <<>>
    BY <1>1, <2>1, EmptyOutbox
  <2>2. CASE outbox # <<>>
    <3>1. outbox' = Tail(outbox)
      BY <1>1, <2>2
    <3> QED
      BY <1>2, <2>2, <3>1
  <2> QED
    BY <2>1, <2>2
<1>4. outbox # <<>> => Head(outbox) \in Frames /\ Head(outbox) = outbox[1] /\ 1 \in 1 .. Len(outbox)
  BY <1>2
<1>5. /\ answer' \in [src : Values, due : Values]
      /\ ~late => answer'.src = answer'.due
  <2>1. CASE outbox # <<>> /\ Head(outbox).k = "restart"
    <3>1. Head(outbox).due \in Values
      BY <1>4, <2>1 DEF Frames
    <3>2. answer' = [src |-> ram[IA], due |-> Head(outbox).due]
      BY <1>1, <2>1
    <3>3. ~late => Head(outbox).due = ram[IA]
      BY <1>4, <2>1 DEF ConfigInv, ControlInv, ResponsesDue
    <3> QED
      BY <3>1, <3>2, <3>3, AddressType DEF ConfigInv, StoreInv
  <2>2. CASE ~(outbox # <<>> /\ Head(outbox).k = "restart")
    BY <1>1, <2>2 DEF ConfigInv, ControlInv, ControlType, AnsweredFromOldAddress
  <2> QED
    BY <2>1, <2>2
<1>6. /\ pass' \in {"take", "send", "idle"} /\ (pass' = "idle" => outbox = <<>>)
      /\ (flush'.by \in {"send", "end"} => pass' = "take")
      /\ (flush'.by = "end" => outbox = <<>>)
  <2>1. CASE dirty
    <3>1. pass' = "take"
      BY <1>1, <2>1 DEF RouterTake
    <3>2. flush'.by = IF outbox = <<>> THEN "end" ELSE "send"
      BY <2>1 DEF RouterTake, StartFlush
    <3> QED
      BY <3>1, <3>2
  <2>2. CASE ~dirty
    BY <1>1, <2>2, NoFlushFacts DEF RouterTake
  <2> QED
    BY <2>1, <2>2
<1>7. ControlType'
  BY <1>1, <1>3, <1>5, <1>6 DEF ConfigInv, ControlInv, ControlType
<1>8. Control'
  BY <1>1, <1>6 DEF Control
<1>9. ResponsesDue' /\ AnsweredFromOldAddress'
  BY <1>1, <1>3, <1>5 DEF ConfigInv, ControlInv, ResponsesDue, AnsweredFromOldAddress
<1> QED
  BY <1>7, <1>8, <1>9 DEF ControlInv

LEMMA SendControl ==
    ASSUME ConfigInv, Send
    PROVE  ControlInv'
<1>1. /\ flush' = NoFlush /\ pass' = "yield" /\ ram' = ram /\ answer' = NoAnswer
      /\ UNCHANGED <<outbox, parked, signal, request, task, left, late>>
  BY DEF Send, deviceVars, taskVars
<1>2. ControlType'
  BY <1>1, NoAnswerFacts DEF ConfigInv, ControlInv, ControlType
<1>3. Control'
  BY <1>1, NoFlushFacts DEF Control
<1>4. ResponsesDue' /\ AnsweredFromOldAddress'
  BY <1>1, NoAnswerFacts DEF ConfigInv, ControlInv, ResponsesDue, AnsweredFromOldAddress
<1> QED
  BY <1>2, <1>3, <1>4 DEF ControlInv

LEMMA RouterResumeControl ==
    ASSUME ConfigInv, RouterResume
    PROVE  ControlInv'
<1>1. /\ flush' = NoFlush /\ pass' = "take" /\ ram' = ram
      /\ UNCHANGED <<outbox, parked, signal, request, task, left, answer, late>>
  BY DEF RouterResume, deviceVars, taskVars, historyVars
<1>2. ControlType' /\ Control'
  BY <1>1, NoFlushFacts DEF ConfigInv, ControlInv, ControlType, Control
<1> QED
  BY <1>1, <1>2, ControlFrame DEF ConfigInv

LEMMA WriteOkControl ==
    ASSUME ConfigInv, WriteOk
    PROVE  ControlInv'
<1>1. UNCHANGED <<ram, outbox, parked, request, answer, late, pass, signal, task, left>>
  BY DEF WriteOk, flushFrame
<1>2. flush'.by = flush.by
  BY DEF WriteOk, ConfigInv, StoreInv, FlushOk
<1>3. ControlType' /\ Control'
  BY <1>1, <1>2 DEF ConfigInv, ControlInv, ControlType, Control
<1> QED
  BY <1>1, <1>3, ControlFrame DEF ConfigInv

\* Where a flush returns to.
LEMMA ReturnControl ==
    ASSUME ConfigInv, Flushing, NEW d, Return(d), signal' \in BOOLEAN,
           left' \in [ops : Nat, faults : 0 .. MaxFaults, cuts : Nat],
           UNCHANGED <<ram, outbox, parked, request, answer, late>>
    PROVE  ControlInv'
<1>1. flush' = NoFlush \/ flush' = [by |-> "compact", todo |-> {}]
  BY DEF Return
<1>2. flush'.by \in {"none", "compact"}
  BY <1>1, NoFlushFacts
<1>3. /\ flush.by = "send" => pass' = "send"
      /\ flush.by = "end" => pass' = "idle"
      /\ flush.by = "task" => pass' = pass
  BY DEF Return
<1>4. task' = [task EXCEPT !.at = "reset"] \/ task' = task
  BY DEF Return
<1>5. task' \in [at : {"idle", "drain", "settle", "reset"}, code : Codes \cup {NoRequest}]
  <2>1. task \in [at : {"idle", "drain", "settle", "reset"}, code : Codes \cup {NoRequest}]
    BY DEF ConfigInv, ControlInv, ControlType
  <2> QED
    BY <1>4, <2>1
<1>6. ControlType'
  BY <1>3, <1>5 DEF Flushing, ConfigInv, ControlInv, ControlType
<1>7. Control'
  BY <1>2, <1>3 DEF Flushing, ConfigInv, ControlInv, Control
<1> QED
  BY <1>6, <1>7, ControlFrame DEF ConfigInv

LEMMA FaultSpent ==
    ASSUME ControlType, left.faults > 0, left' = [left EXCEPT !.faults = @ - 1]
    PROVE  left' \in [ops : Nat, faults : 0 .. MaxFaults, cuts : Nat] /\ left'.faults < MaxFaults
<1>1. MaxFaults \in Nat
  BY BoundsAssumption
<1>2. left.faults \in 0 .. MaxFaults /\ left.faults - 1 \in 0 .. MaxFaults /\ left.faults - 1 < MaxFaults
  BY <1>1 DEF ControlType
<1> QED
  BY <1>2 DEF ControlType

LEMMA FlushEndControl ==
    ASSUME ConfigInv, WriteFails \/ Refused \/ Flushed
    PROVE  ControlInv'
<1>1. /\ Flushing /\ (\E ok : Finish(ok)) /\ \E d : Return(d)
      /\ UNCHANGED <<ram, outbox, parked, request, answer, late>>
  BY DEF WriteFails, Refused, Flushed, flushFrame
<1>2. signal' \in BOOLEAN
  BY <1>1 DEF Finish
<1>3. left' \in [ops : Nat, faults : 0 .. MaxFaults, cuts : Nat]
  <2>1. CASE WriteFails
    BY <2>1, FaultSpent DEF WriteFails, ConfigInv, ControlInv
  <2>2. CASE Refused \/ Flushed
    BY <2>2 DEF Refused, Flushed, ConfigInv, ControlInv, ControlType
  <2> QED
    BY <2>1, <2>2
<1> QED
  BY <1>1, <1>2, <1>3, ReturnControl

LEMMA CompactLeft ==
    ASSUME ControlType, Compact
    PROVE  left' \in [ops : Nat, faults : 0 .. MaxFaults, cuts : Nat]
<1>1. CASE CompactOk
  BY <1>1 DEF CompactOk, ControlType
<1>2. CASE CompactFails
  BY <1>2, FaultSpent DEF CompactFails
<1> QED
  BY <1>1, <1>2 DEF Compact

LEMMA TaskMaintainControl ==
    ASSUME ConfigInv, TaskMaintain
    PROVE  ControlInv'
<1>1. signal' = FALSE /\ UNCHANGED <<pass, outbox, parked, answer, ram, flush, request, task, late>>
  BY DEF TaskMaintain, taskFrame, routerVars
<1>2. left' \in [ops : Nat, faults : 0 .. MaxFaults, cuts : Nat]
  <2>1. Compact \/ left' = left
    BY DEF TaskMaintain
  <2> QED
    BY <2>1, CompactLeft DEF ConfigInv, ControlInv, ControlType
<1>3. ControlType' /\ Control'
  BY <1>1, <1>2 DEF ConfigInv, ControlInv, ControlType, Control
<1> QED
  BY <1>1, <1>3, ControlFrame DEF ConfigInv

LEMMA TaskRestartControl ==
    ASSUME ConfigInv, TaskRestart
    PROVE  ControlInv'
<1>1. /\ task' = [at |-> "drain", code |-> request] /\ request' = NoRequest
      /\ UNCHANGED <<pass, outbox, parked, answer, ram, flush, signal, left, late>>
  BY DEF TaskRestart, taskFrame, routerVars, deviceVars
<1>2. ControlType' /\ Control'
  BY <1>1 DEF ConfigInv, ControlInv, ControlType, Control
<1> QED
  BY <1>1, <1>2, ControlFrame DEF ConfigInv

\* The erase changes the address only once nothing is queued, or too late.
LEMMA EraseControl ==
    ASSUME ConfigInv, TaskDrained \/ TaskDrainTimeout
    PROVE  ControlInv'
<1>1. /\ task' = [task EXCEPT !.at = "settle"]
      /\ UNCHANGED <<pass, outbox, parked, answer, flush, signal, request, left>>
      /\ late' = TRUE \/ (outbox = <<>> /\ late' = late)
  BY DEF TaskDrained, TaskDrainTimeout, EraseAndSettle, taskFrame, routerVars
<1>2. task' \in [at : {"idle", "drain", "settle", "reset"}, code : Codes \cup {NoRequest}]
  BY <1>1 DEF ConfigInv, ControlInv, ControlType
<1>3. ControlType' /\ Control'
  BY <1>1, <1>2 DEF ConfigInv, ControlInv, ControlType, Control
<1>4. CASE late' = TRUE
  BY <1>3, <1>4 DEF ControlInv, ResponsesDue, AnsweredFromOldAddress
<1>5. CASE outbox = <<>> /\ late' = late
  BY <1>1, <1>3, <1>5, EmptyOutbox DEF ConfigInv, ControlInv, ResponsesDue, AnsweredFromOldAddress
<1> QED
  BY <1>1, <1>4, <1>5

LEMMA TaskFlushControl ==
    ASSUME ConfigInv, TaskFlush
    PROVE  ControlInv'
<1>1. flush'.by = "task" /\ UNCHANGED <<pass, outbox, parked, answer, ram, signal, request, task, left, late>>
  BY DEF TaskFlush, StartFlush, taskFrame, routerVars, taskVars
<1>2. ControlType' /\ Control'
  BY <1>1 DEF ConfigInv, ControlInv, ControlType, Control
<1> QED
  BY <1>1, <1>2, ControlFrame DEF ConfigInv

LEMMA TaskCompactControl ==
    ASSUME ConfigInv, TaskCompact
    PROVE  ControlInv'
<1>1. /\ flush' = NoFlush /\ task' = [task EXCEPT !.at = "reset"] /\ Compact
      /\ UNCHANGED <<pass, outbox, parked, answer, ram, signal, request, late>>
  BY DEF TaskCompact, taskFrame, routerVars
<1>2. task' \in [at : {"idle", "drain", "settle", "reset"}, code : Codes \cup {NoRequest}]
  BY <1>1 DEF ConfigInv, ControlInv, ControlType
<1>3. ControlType' /\ Control'
  BY <1>1, <1>2, CompactLeft, NoFlushFacts DEF ConfigInv, ControlInv, ControlType, Control
<1> QED
  BY <1>1, <1>3, ControlFrame DEF ConfigInv

LEMMA PowerOffControl ==
    ASSUME PowerOff, left' \in [ops : Nat, faults : 0 .. MaxFaults, cuts : Nat]
    PROVE  ControlInv'
<1>1. /\ pass' = "off" /\ flush' = NoFlush /\ outbox' = <<>> /\ parked' = <<>>
      /\ signal' = FALSE /\ request' = NoRequest /\ task' = TaskIdle
      /\ late' = FALSE /\ answer' = NoAnswer
  BY DEF PowerOff
<1>2. ControlType'
  BY <1>1, EmptyOutbox, NoAnswerFacts, TaskIdleType DEF ControlType
<1>3. Control'
  BY <1>1, NoFlushFacts DEF Control
<1>4. ResponsesDue' /\ AnsweredFromOldAddress'
  BY <1>1, EmptyOutbox, NoAnswerFacts DEF ResponsesDue, AnsweredFromOldAddress
<1> QED
  BY <1>2, <1>3, <1>4 DEF ControlInv

LEMMA TaskResetControl ==
    ASSUME ConfigInv, TaskReset
    PROVE  ControlInv'
<1>1. CASE PowerOff /\ left' = left
  BY <1>1, PowerOffControl DEF ConfigInv, ControlInv, ControlType
<1>2. CASE task' = TaskIdle /\ UNCHANGED <<taskFrame, deviceVars, flush, signal, request, left, late>>
  <2>1. UNCHANGED <<pass, outbox, parked, answer, ram, flush, signal, request, left, late>>
    BY <1>2 DEF taskFrame, routerVars, deviceVars
  <2>2. ControlType' /\ Control'
    BY <1>2, <2>1, TaskIdleType DEF ConfigInv, ControlInv, ControlType, Control
  <2> QED
    BY <2>1, <2>2, ControlFrame DEF ConfigInv
<1> QED
  BY <1>1, <1>2 DEF TaskReset

LEMMA PowerCutControl ==
    ASSUME ConfigInv, PowerCut
    PROVE  ControlInv'
<1>1. PowerOff /\ left.cuts > 0 /\ left' = [left EXCEPT !.cuts = @ - 1]
  BY DEF PowerCut
<1>2. left' \in [ops : Nat, faults : 0 .. MaxFaults, cuts : Nat]
  BY <1>1 DEF ConfigInv, ControlInv, ControlType
<1> QED
  BY <1>1, <1>2, PowerOffControl

LEMMA BootControl ==
    ASSUME ConfigInv, Boot
    PROVE  ControlInv'
<1>1. /\ pass = "off" /\ pass' = "idle"
      /\ UNCHANGED <<flush, outbox, parked, signal, request, task, left, answer, late>>
  BY DEF Boot, taskVars
<1>2. outbox = <<>> /\ flush = NoFlush
  BY <1>1 DEF ConfigInv, ControlInv, Control, StoreInv, FlushOk
<1>3. ControlType' /\ Control'
  BY <1>1, <1>2, NoFlushFacts DEF ConfigInv, ControlInv, ControlType, Control
<1>4. ResponsesDue' /\ AnsweredFromOldAddress'
  BY <1>1, <1>2, EmptyOutbox DEF ConfigInv, ControlInv, ResponsesDue, AnsweredFromOldAddress
<1> QED
  BY <1>3, <1>4 DEF ControlInv

LEMMA ControlStep ==
    ASSUME ConfigInv, [Next]_vars
    PROVE  ControlInv'
<1>1. CASE Dispatch \/ DispatchRestart \/ ReleaseParked
  BY <1>1, DispatchControl, DispatchRestartControl, ReleaseParkedControl
<1>2. CASE RouterTake \/ Send \/ RouterResume
  BY <1>2, RouterTakeControl, SendControl, RouterResumeControl
<1>3. CASE WriteOk \/ WriteFails \/ Refused \/ Flushed
  BY <1>3, WriteOkControl, FlushEndControl
<1>4. CASE TaskMaintain \/ TaskRestart \/ TaskDrained \/ TaskDrainTimeout
  BY <1>4, TaskMaintainControl, TaskRestartControl, EraseControl
<1>5. CASE TaskFlush \/ TaskCompact \/ TaskReset
  BY <1>5, TaskFlushControl, TaskCompactControl, TaskResetControl
<1>6. CASE PowerCut \/ Boot
  BY <1>6, PowerCutControl, BootControl
<1>7. CASE UNCHANGED vars
  <2>1. UNCHANGED <<pass, outbox, parked, answer, ram, flush, signal, request, task, left, late>>
    BY <1>7 DEF vars, deviceVars, routerVars, taskVars, historyVars
  <2>2. ControlType' /\ Control'
    BY <2>1 DEF ConfigInv, ControlInv, ControlType, Control
  <2> QED
    BY <2>1, <2>2, ControlFrame DEF ConfigInv
<1> QED
  BY <1>1, <1>2, <1>3, <1>4, <1>5, <1>6, <1>7 DEF Next

-----------------------------------------------------------------------------
(* A commissioned device at rest.                                          *)

LEMMA CommissionedFacts ==
    /\ \A l \in Locs : Commissioned[l] \in ValueOf(l)
    /\ \A l \in ImageLocs : Commissioned[l] = 1
    /\ Commissioned = [l \in Locs |-> Commissioned[l]]
<1>1. \A l \in Locs : Commissioned[l] = IF l \in CtlLocs THEN "loaded" ELSE IF l = Count THEN 0 ELSE 1
  BY DEF Commissioned, CtlLocs
<1>2. \A l \in ImageLocs : l \in Locs /\ l \notin CtlLocs /\ l # Count
  BY LocsFacts
<1>3. \A l \in ImageLocs : Commissioned[l] = 1
  BY <1>1, <1>2
<1>4. \A l \in Locs : Commissioned[l] \in ValueOf(l)
  BY <1>1, ValuesAssumption DEF ValueOf, LoadStates
<1>5. Commissioned = [l \in Locs |-> Commissioned[l]]
  BY DEF Commissioned
<1> QED
  BY <1>3, <1>4, <1>5

LEMMA InitSlots ==
    ASSUME Init
    PROVE  /\ \A r \in RecordLocs : slots[r] \in [{0, 1} -> Slot(r)]
           /\ slots = [r \in RecordLocs |-> slots[r]]
           /\ RecordsValid /\ \A r \in RecordLocs : NewestVal(r) = Commissioned[r]
<1>1. slots = [r \in RecordLocs |->
                 [s \in {0, 1} |-> [gen |-> Gens - 1, val |-> Commissioned[r], ok |-> s = 0]]]
  BY DEF Init
<1>2. \A r \in RecordLocs : \A s \in {0, 1} :
         slots[r][s] = [gen |-> Gens - 1, val |-> Commissioned[r], ok |-> s = 0]
  BY <1>1
<1>3. \A r \in RecordLocs : slots[r] = [s \in {0, 1} |-> slots[r][s]]
  BY <1>1
<1>4. Gens - 1 \in 0 .. Gens - 1
  BY GensFacts
<1>5. \A r \in RecordLocs : \A s \in {0, 1} : slots[r][s] \in Slot(r)
  <2> SUFFICES ASSUME NEW r \in RecordLocs, NEW s \in {0, 1}
               PROVE  slots[r][s] \in Slot(r)
    OBVIOUS
  <2>1. Commissioned[r] \in ValueOf(r)
    BY CommissionedFacts, LocsFacts
  <2>2. PICK b \in BOOLEAN : b = (s = 0)
    OBVIOUS
  <2>3. [gen |-> Gens - 1, val |-> Commissioned[r], ok |-> b] \in Slot(r)
    BY <1>4, <2>1 DEF Slot
  <2> QED
    BY <1>2, <2>2, <2>3
<1>6. \A r \in RecordLocs : slots[r] \in [{0, 1} -> Slot(r)]
  BY <1>3, <1>5
<1>7. \A r \in RecordLocs : /\ slots[r][0].val = Commissioned[r] /\ slots[r][0].ok = TRUE
                             /\ slots[r][1].ok = FALSE
  <2> SUFFICES ASSUME NEW r \in RecordLocs
               PROVE  /\ slots[r][0].val = Commissioned[r] /\ slots[r][0].ok = TRUE
                      /\ slots[r][1].ok = FALSE
    OBVIOUS
  <2>1. (0 = 0) = TRUE /\ (1 = 0) = FALSE
    OBVIOUS
  <2>2. slots[r][0] = [gen |-> Gens - 1, val |-> Commissioned[r], ok |-> 0 = 0]
    BY <1>2
  <2>3. slots[r][1] = [gen |-> Gens - 1, val |-> Commissioned[r], ok |-> 1 = 0]
    BY <1>2
  <2>4. slots[r][0] = [gen |-> Gens - 1, val |-> Commissioned[r], ok |-> TRUE]
    BY <2>1, <2>2, Zenon
  <2>5. slots[r][1] = [gen |-> Gens - 1, val |-> Commissioned[r], ok |-> FALSE]
    BY <2>1, <2>3, Zenon
  <2> QED
    BY <2>4, <2>5
<1>8. \A r \in RecordLocs : Valid(r) = {0}
  <2> SUFFICES ASSUME NEW r \in RecordLocs
               PROVE  Valid(r) = {0}
    OBVIOUS
  <2>1. slots[r][0].ok /\ ~slots[r][1].ok
    BY <1>7
  <2> QED
    BY <2>1 DEF Valid
<1>9. \A r \in RecordLocs : Newest(r) = 0
  BY <1>8 DEF Newest
<1>10. \A r \in RecordLocs : NewestVal(r) = Commissioned[r]
  BY <1>9, <1>7 DEF NewestVal
<1>11. RecordsValid
  BY <1>8 DEF RecordsValid
<1>12. slots = [r \in RecordLocs |-> slots[r]]
  BY <1>1
<1> QED
  BY <1>6, <1>10, <1>11, <1>12

LEMMA InitStore ==
    ASSUME Init
    PROVE  StoreInv
<1>1. /\ kind \in Media /\ ram = Commissioned /\ dirty = FALSE /\ ranges = NoMark /\ resync = FALSE
      /\ img = [l \in ImageLocs |-> Commissioned[l]]
      /\ crc = [t \in Tables |-> [c \in AllOf(t) |-> 1]]
      /\ rec = [l \in RecordLocs |-> Commissioned[l]] /\ idx = rec
      /\ used = 0 /\ pending = FALSE /\ blocked = FALSE
      /\ flush = NoFlush /\ pass = "idle" /\ touched = {}
  BY DEF Init
<1>2. ~Flushing /\ flush.todo = {}
  BY <1>1, NoFlushFacts DEF Flushing
<1>3. DeviceType
  BY <1>1, CommissionedFacts, NoMarkFacts DEF DeviceType
<1>4. MediumType
  <2>1. img \in [ImageLocs -> Values]
    BY <1>1, CommissionedFacts, ValuesAssumption
  <2>2. 0 \in 0 .. BankRecs
    BY BoundsAssumption
  <2>3. rec = [r \in RecordLocs |-> rec[r]] /\ \A r \in RecordLocs : rec[r] \in ValueOf(r)
    BY <1>1, CommissionedFacts, LocsFacts
  <2>4. crc = [t \in Tables |-> crc[t]]
    BY <1>1
  <2> QED
    BY <1>1, <2>1, <2>2, <2>3, <2>4, InitSlots DEF MediumType
<1>5. FlushOk
  BY <1>1, <1>2, NoFlushFacts DEF FlushOk, NoFlush
<1>6. RecordsValid /\ AckedSurvives
  <2>1. RecordsValid /\ kind \in {"flash", "byte"}
    BY <1>1, InitSlots, MediaAssumption
  <2>2. \A l \in ImageLocs : Durable(l) = ram[l]
    BY <1>1, <2>1, DurableForms
  <2>3. \A r \in RecordLocs : Durable(r) = ram[r]
    BY <1>1, <2>1, InitSlots, DurableForms
  <2> QED
    BY <2>1, <2>2, <2>3, LocsFacts DEF AckedSurvives
<1>7. ImageKnown
  <2>1. \A t \in Tables : \A c \in AllOf(t) : img[Chunk(t, c)] = ram[Chunk(t, c)]
    BY <1>1, LocsFacts
  <2> QED
    BY <2>1 DEF ImageKnown
<1>8. RecordKnown /\ IndexExact
  BY <1>1, <1>2 DEF RecordKnown, IndexExact
<1>9. ChangeFlagged /\ RangesTouched
  BY <1>1, NoMarkFacts DEF ChangeFlagged, RangesTouched
<1>10. \A t \in Tables : ~Stale(t)
  <2> SUFFICES ASSUME NEW t \in Tables
               PROVE  ~Stale(t)
    OBVIOUS
  <2>1. \A c \in AllOf(t) : img[Chunk(t, c)] = 1
    BY <1>1, CommissionedFacts, LocsFacts
  <2>2. crc[t] = [c \in AllOf(t) |-> 1]
    BY <1>1
  <2>3. [c \in AllOf(t) |-> img[Chunk(t, c)]] = [c \in AllOf(t) |-> 1]
    BY <2>1
  <2> QED
    BY <2>2, <2>3 DEF Stale
<1>11. Crcs
  BY <1>1, <1>2, <1>10 DEF Crcs, ResyncIsFault, CrcExcused, CrcFollows, StaleExcused
<1> QED
  BY <1>3, <1>4, <1>5, <1>6, <1>7, <1>8, <1>9, <1>11 DEF StoreInv, Data

LEMMA InitControl ==
    ASSUME Init
    PROVE  ControlInv
<1>1. /\ pass = "idle" /\ flush = NoFlush /\ outbox = <<>> /\ parked = <<>>
      /\ signal = FALSE /\ request = NoRequest /\ task = TaskIdle
      /\ left = [ops |-> MaxOps, faults |-> MaxFaults, cuts |-> MaxCuts]
      /\ answer = NoAnswer /\ late = FALSE
  BY DEF Init
<1>2. left \in [ops : Nat, faults : 0 .. MaxFaults, cuts : Nat]
  <2>1. MaxOps \in Nat /\ MaxFaults \in Nat /\ MaxCuts \in Nat
    BY BoundsAssumption
  <2>2. MaxFaults \in 0 .. MaxFaults
    BY <2>1
  <2> QED
    BY <1>1, <2>1, <2>2
<1>3. ControlType
  BY <1>1, <1>2, EmptyOutbox, NoAnswerFacts, TaskIdleType DEF ControlType
<1>4. Control
  BY <1>1, NoFlushFacts DEF Control
<1>5. ResponsesDue /\ AnsweredFromOldAddress
  BY <1>1, EmptyOutbox, NoAnswerFacts DEF ResponsesDue, AnsweredFromOldAddress
<1> QED
  BY <1>3, <1>4, <1>5 DEF ControlInv

-----------------------------------------------------------------------------
(* The theorems.                                                           *)

\* What each write, boot and restart rests on: the store's bookkeeping of
\* what is not durable yet (ranges, resync, dirty, RecordIndex, image CRCs) is
\* never less than what really is not, through every failed write, deferred
\* flush, compaction and power cut; and the frames still queued carry the
\* address they are due from.
THEOREM ConfigInvariant == Spec => []ConfigInv
<1>1. Init => ConfigInv
  BY InitStore, InitControl DEF ConfigInv
<1>2. ConfigInv /\ [Next]_vars => ConfigInv'
  BY StoreStep, ControlStep DEF ConfigInv, ControlInv
<1> QED
  BY <1>1, <1>2, PTL DEF Spec

\* persist_changes, compact and load (nv_store.rs): a location not written
\* since a flush or compaction last succeeded is on the medium as it is in
\* RAM, a Record always has a valid slot, and a tracked change that is not
\* durable is flagged wherever another task may run.
THEOREM WriteThroughHolds == Spec => []WriteThrough
<1>1. ConfigInv => WriteThrough
  <2> SUFFICES ASSUME ConfigInv
               PROVE  WriteThrough
    OBVIOUS
  <2>1. \A l \in Locs : ram[l] \in IF l \in {Ctl(t) : t \in Tables} THEN LoadStates
                                   ELSE Values \cup {0, 1}
    BY DEF ConfigInv, StoreInv, DeviceType, ValueOf, CtlLocs
  <2>2. TypeOK
    BY <2>1 DEF ConfigInv, StoreInv, DeviceType, MediumType, FlushOk, ControlInv, ControlType, TypeOK
  <2>3. AckedSurvives /\ RecordsNeverTear
    BY DEF ConfigInv, StoreInv, Data, RecordsValid, RecordsNeverTear
  <2>4. PendingIsFlagged
    BY AwaitFacts DEF ConfigInv, StoreInv, ChangeFlagged, PendingIsFlagged
  <2> QED
    BY <2>2, <2>3, <2>4 DEF WriteThrough
<1> QED
  BY <1>1, ConfigInvariant, PTL

\* restart in storage/task.rs waits for the outbox before it erases: a master
\* reset that clears the individual address is answered from the old one,
\* unless the drain timed out or the transport layer parked the response.
THEOREM OldAddressHolds == Spec => []AnsweredFromOldAddress
<1>1. ConfigInv => AnsweredFromOldAddress
  BY DEF ConfigInv, ControlInv
<1> QED
  BY <1>1, ConfigInvariant, PTL

\* Which steps let a frame go: a take without a flush, and a flush that
\* returns to the send it was started for.
LEMMA FrameGoes ==
    ASSUME Next, pass # "send", pass' = "send"
    PROVE  \/ RouterTake /\ ~dirty /\ touched' = touched
           \/ \E ok \in BOOLEAN : Finish(ok)
<1>1. CASE Dispatch \/ DispatchRestart \/ ReleaseParked
  BY <1>1 DEF Dispatch, DispatchRestart, ReleaseParked
<1>2. CASE RouterTake
  BY <1>2 DEF RouterTake
<1>3. CASE Send \/ RouterResume
  BY <1>3 DEF Send, RouterResume
<1>4. CASE WriteOk
  BY <1>4 DEF WriteOk
<1>5. CASE WriteFails \/ Refused \/ Flushed
  BY <1>5 DEF WriteFails, Refused, Flushed
<1>6. CASE TaskMaintain \/ TaskRestart \/ TaskFlush \/ TaskCompact
  BY <1>6 DEF TaskMaintain, TaskRestart, TaskFlush, TaskCompact, taskFrame, routerVars
<1>7. CASE TaskDrained \/ TaskDrainTimeout
  BY <1>7 DEF TaskDrained, TaskDrainTimeout, EraseAndSettle, taskFrame, routerVars
<1>8. CASE TaskReset
  BY <1>8 DEF TaskReset, PowerOff, taskFrame, routerVars
<1>9. CASE PowerCut \/ Boot
  BY <1>9 DEF PowerCut, PowerOff, Boot
<1> QED
  BY <1>1, <1>2, <1>3, <1>4, <1>5, <1>6, <1>7, <1>8, <1>9 DEF Next

\* Which steps reach the reset.
LEMMA ResetReached ==
    ASSUME ControlType, Next, task.at = "settle", task'.at = "reset"
    PROVE  WriteFails \/ Flushed \/ TaskCompact
<1>1. task' # task /\ task' # TaskIdle
  BY DEF TaskIdle
<1>2. CASE Dispatch \/ DispatchRestart \/ ReleaseParked \/ RouterTake \/ Send \/ RouterResume
  BY <1>1, <1>2 DEF Dispatch, DispatchRestart, ReleaseParked, RouterTake, Send, RouterResume, taskVars
<1>3. CASE WriteOk
  BY <1>1, <1>3 DEF WriteOk
<1>4. CASE Refused
  BY <1>1, <1>4 DEF Refused, Return
<1>5. CASE TaskMaintain \/ TaskFlush
  BY <1>1, <1>5 DEF TaskMaintain, TaskFlush, taskVars
<1>6. CASE TaskRestart
  BY <1>6 DEF TaskRestart, TaskIdle
<1>7. CASE TaskDrained \/ TaskDrainTimeout
  BY <1>7 DEF TaskDrained, TaskDrainTimeout, EraseAndSettle
<1>8. CASE TaskReset
  BY <1>8 DEF TaskReset
<1>9. CASE PowerCut \/ Boot
  BY <1>1, <1>9 DEF PowerCut, PowerOff, Boot, taskVars
<1> QED
  BY <1>2, <1>3, <1>4, <1>5, <1>6, <1>7, <1>8, <1>9 DEF Next

\* The router flushes between taking a frame and handing it over (runner.rs),
\* and a restart flushes, or compacts what a full log refused, before the
\* reset (storage/task.rs): no response and no reset overtakes its change.
THEOREM NothingLeavesEarlyHolds == Spec => NothingLeavesEarly
<1>1. ConfigInv /\ [Next]_vars =>
        [pass # "send" /\ pass' = "send" => touched' \ {Count} = {} \/ resync']_vars
  <2> SUFFICES ASSUME ConfigInv, Next, pass # "send", pass' = "send"
               PROVE  touched' \ {Count} = {} \/ resync'
    OBVIOUS
  <2>1. CASE RouterTake /\ ~dirty /\ touched' = touched
    BY <2>1 DEF RouterTake, ConfigInv, StoreInv, ChangeFlagged
  <2>2. CASE \E ok \in BOOLEAN : Finish(ok)
    BY <2>2 DEF Finish
  <2> QED
    BY <2>1, <2>2, FrameGoes
<1>2. ConfigInv /\ [Next]_vars =>
        [task.at = "settle" /\ task'.at = "reset" /\ left'.faults = MaxFaults => touched' = {}]_vars
  <2> SUFFICES ASSUME ConfigInv, Next, task.at = "settle", task'.at = "reset",
                      left'.faults = MaxFaults
               PROVE  touched' = {}
    OBVIOUS
  <2>0. ControlType
    BY DEF ConfigInv, ControlInv
  <2>1. ~(left.faults > 0 /\ left' = [left EXCEPT !.faults = @ - 1])
    <3>1. ~(MaxFaults < MaxFaults)
      BY BoundsAssumption
    <3> QED
      BY <2>0, <3>1, FaultSpent
  <2>2. CASE WriteFails
    BY <2>1, <2>2 DEF WriteFails
  <2>3. CASE Flushed
    BY <2>3 DEF Flushed, Finish
  <2>4. CASE TaskCompact
    BY <2>1, <2>4 DEF TaskCompact, Compact, CompactOk, CompactFails
  <2> QED
    BY <2>0, <2>2, <2>3, <2>4, ResetReached
<1> QED
  BY <1>1, <1>2, ConfigInvariant, PTL DEF Spec, NothingLeavesEarly, DurableBeforeResponse,
     RestartIsDurable

\* DeviceStorage::load restores every acknowledged location, and takes only a
\* table whose image a flush was writing, now or before the last boot, from
\* Loaded to Err.
THEOREM BootRestoresHolds == Spec => BootRestores
<1> DEFINE Restores ==
      \A l \in Locs \ touched :
         \/ ram'[l] = ram[l]
         \/ \E t \in Tables : /\ l = Ctl(t) /\ ram[l] = "loaded" /\ ram'[l] = "err"
                              /\ \/ touched \cap ChunksOf(t) # {}
                                 \/ left.faults < MaxFaults
                                 \/ Overflow
                                 \/ t \in partial
<1>1. ConfigInv /\ [Next]_vars => [Boot => Restores]_vars
  <2> SUFFICES ASSUME ConfigInv, Boot, NEW l \in Locs \ touched
               PROVE  \/ ram'[l] = ram[l]
                      \/ \E t \in Tables : /\ l = Ctl(t) /\ ram[l] = "loaded" /\ ram'[l] = "err"
                                           /\ \/ touched \cap ChunksOf(t) # {}
                                              \/ left.faults < MaxFaults
                                              \/ Overflow
                                              \/ t \in partial
    OBVIOUS
  <2>1. Durable(l) = ram[l]
    BY DEF ConfigInv, StoreInv, Data, AckedSurvives
  <2>2. pass = "off" /\ ram'[l] = IF l \in Invalidated THEN "err" ELSE Durable(l)
    BY DEF Boot
  <2>3. CASE l \in Invalidated
    <3>1. PICK t \in Tables : l = Ctl(t) /\ Stale(t) /\ Durable(l) = "loaded"
      BY <2>3 DEF Invalidated
    <3>2. left.faults < MaxFaults \/ t \in partial \/ Excused(t)
      BY <2>2, <3>1 DEF ConfigInv, StoreInv, Crcs, StaleExcused
    <3> QED
      BY <2>1, <2>2, <2>3, <3>1, <3>2 DEF Excused
  <2>4. CASE l \notin Invalidated
    BY <2>1, <2>2, <2>4
  <2> QED
    BY <2>3, <2>4
<1> QED
  BY <1>1, ConfigInvariant, PTL DEF Spec, BootRestores

=============================================================================
