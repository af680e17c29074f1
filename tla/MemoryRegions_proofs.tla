------------------------ MODULE MemoryRegions_proofs ------------------------
(***************************************************************************)
(* RegionsTranslate and KeysAreFresh hold for page tables and key tables   *)
(* of any size, areas of any length and any chunk.                         *)
(*                                                                         *)
(* Neither is inductive: that a command for one region leaves the others   *)
(* alone needs that no two of them have an entry of either table in        *)
(* common, and this must hold across dereg_mr, which gives back what       *)
(* mrkey_map says, and not what the region has.                            *)
(***************************************************************************)
EXTENDS MemoryRegions, SequenceTheorems, TLAPS

\* The region of the registration under way
UnderWay ==
    IF reg.pc = "idle" THEN {}
    ELSE {[key |-> reg.key, index |-> reg.index, pages |-> reg.pages]}

\* The regions that have a key index and page table entries
Owned == regions \cup UnderWay

Region == [key : Nat, index : Nat, pages : Seq(Page)]

Entries(r) == Run(r.index, Len(r.pages))

\* Functions from some of the naturals
Tables(S) == UNION {[D -> S] : D \in SUBSET Nat}

MapEntry == [index : Nat, count : Nat]
MttEntry == [key : Nat, base : Nat]

\* The types, in full
RegTypes ==
    /\ debug \in BOOLEAN /\ ran \in BOOLEAN
    /\ mtt \in [keys : Seq(Nat), used : SUBSET Nat,
                map : Tables(MapEntry)]
    /\ reg \in [pc : {"idle", "mtt", "next", "pgt"}, key : Nat, index : Nat,
                pages : Seq(Page), done : Nat]
    /\ reg.done <= Len(reg.pages)
    /\ buf \in Seq(Page)
    /\ card \in [mtt : Tables(MttEntry), pgt : Tables(Page)]
    /\ regions \subseteq Region

\* A free key index is free once.
FreeOnce == \A i, j \in DOMAIN mtt.keys : mtt.keys[i] = mtt.keys[j] => i = j

\* What a region has is not free, and mrkey_map, if it has the key, says what it is.
OwnedIsUsed ==
    \A r \in Owned :
        /\ \A i \in DOMAIN mtt.keys : mtt.keys[i] # KeyIndex(r.key)
        /\ Entries(r) \subseteq mtt.used
        /\ r.key \in DOMAIN mtt.map
               => mtt.map[r.key] = [index |-> r.index, count |-> Len(r.pages)]

\* No two regions have a key index or an entry in common.
OwnedOnce ==
    \A r, s \in Owned :
        r # s => KeyIndex(r.key) # KeyIndex(s.key) /\ Entries(r) \cap Entries(s) = {}

\* mrkey_map has one key of an index.
MapOnce == \A k, l \in DOMAIN mtt.map : KeyIndex(k) = KeyIndex(l) => k = l

\* The page table has the pages from the first to the n-th of a region.
Written(r, n) ==
    \A i \in 1 .. n : /\ r.index + i - 1 \in DOMAIN card.pgt
                      /\ card.pgt[r.index + i - 1] = r.pages[i]

Translated(r) ==
    /\ KeyIndex(r.key) \in DOMAIN card.mtt
    /\ card.mtt[KeyIndex(r.key)] = [key |-> r.key, base |-> r.index]

\* How far the registration under way is
Progress ==
    /\ reg.pc \in {"idle", "next"} => ~ran
    /\ reg.pc = "mtt" => reg.done = 0
    /\ reg.pc \in {"next", "pgt"} \/ (reg.pc = "mtt" /\ ran) => Translated(reg)
    /\ reg.pc # "idle" => Written(reg, reg.done)
    /\ reg.pc = "pgt" =>
           /\ reg.done + Len(buf) <= Len(reg.pages)
           /\ \A i \in 1 .. Len(buf) : buf[i] = reg.pages[reg.done + i]
           /\ ran => Written(reg, reg.done + Len(buf))

RegInv ==
    /\ RegTypes /\ FreeOnce /\ OwnedIsUsed /\ OwnedOnce
    /\ KeysAreFresh /\ MapOnce
    /\ RegionsTranslate /\ Progress

------------------------------------------------------------------------------
(* The helpers *)

\* The index part of a key is the index the key was made with.
LEMMA KeyIndexOfMrKey ==
    ASSUME NEW i \in Nat, NEW k \in 0 .. KEY_PART - 1
    PROVE  MrKey(i, k) \in Nat /\ KeyIndex(MrKey(i, k)) = i
  BY DEF MrKey, KeyIndex, KEY_PART

LEMMA KeyIndexType == \A k \in Nat : KeyIndex(k) \in Nat
  BY DEF KeyIndex, KEY_PART

LEMMA TablesIs ==
    ASSUME NEW S, NEW f
    PROVE  f \in Tables(S) <=> \E D \in SUBSET Nat : f \in [D -> S]
  BY DEF Tables

\* A table that is updated has the new entries, and keeps the others.
LEMMA UpdateIs ==
    ASSUME NEW f, NEW g
    PROVE  /\ DOMAIN Update(f, g) = DOMAIN f \cup DOMAIN g
           /\ \A x \in DOMAIN g : Update(f, g)[x] = g[x]
           /\ \A x \in DOMAIN f : x \notin DOMAIN g => Update(f, g)[x] = f[x]
  BY DEF Update

LEMMA UpdateType ==
    ASSUME NEW S, NEW f \in Tables(S), NEW g \in Tables(S)
    PROVE  Update(f, g) \in Tables(S)
<1>1. PICK D \in SUBSET Nat : f \in [D -> S]
  BY TablesIs
<1>2. PICK E \in SUBSET Nat : g \in [E -> S]
  BY TablesIs
<1>3. D \cup E \in SUBSET Nat /\ Update(f, g) \in [D \cup E -> S]
  BY <1>1, <1>2 DEF Update
<1> QED
  BY <1>3, TablesIs

\* A table with one entry
LEMMA OneEntry ==
    ASSUME NEW S, NEW k \in Nat, NEW v \in S
    PROVE  /\ [x \in {k} |-> v] \in Tables(S)
           /\ DOMAIN [x \in {k} |-> v] = {k}
           /\ [x \in {k} |-> v][k] = v
<1>1. {k} \in SUBSET Nat /\ [x \in {k} |-> v] \in [{k} -> S]
  OBVIOUS
<1> QED
  BY <1>1, TablesIs

\* A sequence without its last element
LEMMA FrontIs ==
    ASSUME NEW S, NEW q \in Seq(S), q # <<>>
    PROVE  /\ Len(q) \in DOMAIN q /\ q[Len(q)] \in S
           /\ SubSeq(q, 1, Len(q) - 1) \in Seq(S)
           /\ DOMAIN SubSeq(q, 1, Len(q) - 1) = DOMAIN q \ {Len(q)}
           /\ \A i \in DOMAIN q \ {Len(q)} : SubSeq(q, 1, Len(q) - 1)[i] = q[i]
  OBVIOUS

\* The place of an entry in a chunk, and its place in the region
LEMMA ChunkPlace ==
    ASSUME NEW i \in Nat, NEW d \in Nat, NEW n \in Nat, NEW x \in Run(i + d, n)
    PROVE  x - (i + d) + 1 \in 1 .. n /\ d + (x - (i + d) + 1) = x - i + 1
  BY DEF Run

\* A chunk is the next of the pages, and not empty while pages are left.
LEMMA ChunkIs ==
    ASSUME NEW r, r.pages \in Seq(Page), r.done \in Nat, r.done < Len(r.pages)
    PROVE  /\ Chunk(r) \in Seq(Page)
           /\ r.done + Len(Chunk(r)) <= Len(r.pages)
           /\ \A i \in 1 .. Len(Chunk(r)) : Chunk(r)[i] = r.pages[r.done + i]
<1> DEFINE left == Len(r.pages) - r.done
           m == IF left < MAX_NUM_PGT_ENTRY_PER_ALLOC
                THEN left ELSE MAX_NUM_PGT_ENTRY_PER_ALLOC
<1>1. m \in Nat /\ r.done + m <= Len(r.pages)
  BY MemoryAssumption
<1>2. Chunk(r) = SubSeq(r.pages, r.done + 1, r.done + m)
  BY DEF Chunk
<1> HIDE DEF m
<1>3. \A i \in 1 .. m : r.done + i \in 1 .. Len(r.pages)
  BY <1>1
<1>4. Chunk(r) \in Seq(Page) /\ Len(Chunk(r)) = m
  <2>1. \A i \in r.done + 1 .. r.done + m : r.pages[i] \in Page
    BY <1>1
  <2>2. r.done + 1 \in Int /\ r.done + m \in Int
    BY <1>1
  <2> DEFINE a == r.done + 1
             b == r.done + m
  <2> HIDE DEF a, b
  <2>3. /\ SubSeq(r.pages, a, b) \in Seq(Page)
        /\ Len(SubSeq(r.pages, a, b)) = IF a <= b THEN b - a + 1 ELSE 0
    BY <2>1, <2>2, SubSeqProperties DEF a, b
  <2>4. a <= b + 1 /\ b - a + 1 = m /\ a \in Int /\ b \in Int
    BY SMTT(60), <1>1 DEF a, b
  <2>5. Chunk(r) = SubSeq(r.pages, a, b)
    BY <1>2 DEF a, b
  <2> QED
    BY <2>3, <2>4, <2>5
<1>5. \A i \in 1 .. m : Chunk(r)[i] = r.pages[r.done + i]
  BY SMTT(60), <1>1, <1>2
<1> QED
  BY <1>1, <1>4, <1>5

\* The length of a chunk
LEMMA ChunkLength ==
    ASSUME NEW r, r.pages \in Seq(Page), r.done \in Nat, r.done < Len(r.pages)
    PROVE  Len(Chunk(r)) \in 1 .. MAX_NUM_PGT_ENTRY_PER_ALLOC
<1> DEFINE left == Len(r.pages) - r.done
           m == IF left < MAX_NUM_PGT_ENTRY_PER_ALLOC
                THEN left ELSE MAX_NUM_PGT_ENTRY_PER_ALLOC
           a == r.done + 1
           b == r.done + m
<1>1. m \in 1 .. MAX_NUM_PGT_ENTRY_PER_ALLOC /\ r.done + m <= Len(r.pages)
  BY MemoryAssumption
<1>2. Chunk(r) = SubSeq(r.pages, a, b)
  BY DEF Chunk
<1> HIDE DEF m
<1>3. a \in Int /\ b \in Int /\ a <= b /\ b - a + 1 = m
  BY SMTT(60), <1>1, MemoryAssumption
<1>4. \A i \in a .. b : r.pages[i] \in Page
  BY <1>1, MemoryAssumption
<1> HIDE DEF a, b
<1>5. Len(SubSeq(r.pages, a, b)) = IF a <= b THEN b - a + 1 ELSE 0
  BY <1>3, <1>4, SubSeqProperties
<1> QED
  BY <1>1, <1>2, <1>3, <1>5

------------------------------------------------------------------------------
(* Each action preserves RegInv *)

LEMMA InitRegInv == RegInit => RegInv
<1> SUFFICES ASSUME RegInit PROVE RegInv
  OBVIOUS
<1>1. \A S : <<>> \in Tables(S)
  BY DEF Tables
<1>2. NewMtt.keys \in Seq(Nat) /\ DOMAIN NewMtt.keys = 1 .. MAX_MR_CNT
      /\ \A i \in 1 .. MAX_MR_CNT : NewMtt.keys[i] = i - 1
  BY MemoryAssumption DEF NewMtt
<1>3. RegTypes
  <2>1. mtt \in [keys : Seq(Nat), used : SUBSET Nat, map : Tables(MapEntry)]
    BY <1>1, <1>2 DEF RegInit, NewMtt
  <2>2. reg \in [pc : {"idle", "mtt", "next", "pgt"}, key : Nat, index : Nat,
                pages : Seq(Page), done : Nat] /\ reg.done <= Len(reg.pages)
    BY DEF RegInit, NoRegistration
  <2>3. card \in [mtt : Tables(MttEntry), pgt : Tables(Page)]
    BY <1>1 DEF RegInit, NewCard
  <2>4. debug \in BOOLEAN /\ ran \in BOOLEAN
    BY Zenon DEF RegInit
  <2>5. buf \in Seq(Page) /\ regions \subseteq Region
    BY DEF RegInit
  <2> QED
    BY <2>1, <2>2, <2>3, <2>4, <2>5, Zenon DEF RegTypes
<1>4. FreeOnce
  BY SMTT(60), <1>2, MemoryAssumption DEF RegInit, FreeOnce
<1>5. Owned = {}
  BY DEF RegInit, Owned, UnderWay, NoRegistration
<1>6. DOMAIN mtt.map = {}
  BY DEF RegInit, NewMtt
<1> QED
  BY <1>3, <1>4, <1>5, <1>6 DEF RegInit, RegInv, OwnedIsUsed, OwnedOnce, KeysAreFresh,
     MapOnce, RegionsTranslate, Progress, NoRegistration

LEMMA RegisterRegInv ==
    ASSUME RegInv, NEW pages \in Areas, Register(pages)
    PROVE  RegInv'
<1> DEFINE index == mtt.keys[Len(mtt.keys)]
           left  == SubSeq(mtt.keys, 1, Len(mtt.keys) - 1)
           fits  == Fits(mtt.used, Len(pages))
<1>1. mtt.keys \in Seq(Nat) /\ mtt.keys # <<>> /\ reg.pc = "idle" /\ ~ran
  BY DEF RegInv, RegTypes, Register, Progress
<1>2. /\ index \in Nat /\ left \in Seq(Nat)
      /\ Len(mtt.keys) \in DOMAIN mtt.keys
      /\ DOMAIN left = DOMAIN mtt.keys \ {Len(mtt.keys)}
      /\ \A i \in DOMAIN left : left[i] = mtt.keys[i] /\ left[i] # index
  <2>1. /\ index \in Nat /\ left \in Seq(Nat)
        /\ Len(mtt.keys) \in DOMAIN mtt.keys
        /\ DOMAIN left = DOMAIN mtt.keys \ {Len(mtt.keys)}
        /\ \A i \in DOMAIN mtt.keys \ {Len(mtt.keys)} : left[i] = mtt.keys[i]
    BY SMTT(60), <1>1, FrontIs
  <2> HIDE DEF left
  <2>2. \A i \in DOMAIN left : mtt.keys[i] # index
    BY <2>1, Zenon DEF RegInv, FreeOnce
  <2> QED
    BY <2>1, <2>2
<1>3. pages \in Seq(Page) /\ Len(pages) \in Nat
  BY MemoryAssumption
<1>4. Owned = regions
  BY <1>1 DEF Owned, UnderWay
<1>5. UNCHANGED <<debug, ran, buf, card, regions>>
  BY DEF Register
<1>6. RegionsTranslate'
  BY Zenon, <1>5 DEF RegInv, RegionsTranslate
<1>7. CASE fits = {} /\ mtt' = [mtt EXCEPT !.keys = left] /\ UNCHANGED reg
  <2>1. mtt'.keys = left /\ mtt'.used = mtt.used /\ mtt'.map = mtt.map
    BY <1>7 DEF RegInv, RegTypes
  <2>2. Owned' = Owned
    BY <1>5, <1>7 DEF Owned, UnderWay
  <2>3. RegTypes'
    BY Zenon, <1>2, <1>5, <1>7 DEF RegInv, RegTypes
  <2>4. FreeOnce' /\ KeysAreFresh'
    BY SMTT(60), <1>2, <2>1 DEF RegInv, FreeOnce, KeysAreFresh
  <2>5. OwnedIsUsed' /\ OwnedOnce' /\ MapOnce'
    BY <1>2, <2>1, <2>2, ZenonT(60) DEF RegInv, OwnedIsUsed, OwnedOnce, MapOnce
  <2>6. Progress'
    BY <1>5, <1>7 DEF RegInv, Progress, Translated, Written
  <2> QED
    BY <1>6, <2>3, <2>4, <2>5, <2>6 DEF RegInv
<1> DEFINE Gets(s, k) ==
        /\ mtt' = [keys |-> left,
                   used |-> mtt.used \cup Run(s, Len(pages)),
                   map  |-> IF debug
                            THEN Update(mtt.map, [x \in {MrKey(index, k)} |->
                                     [index |-> s, count |-> Len(pages)]])
                            ELSE mtt.map]
        /\ \/ UNCHANGED reg
           \/ reg' = [pc |-> "mtt", key |-> MrKey(index, k), index |-> s,
                      pages |-> pages, done |-> 0]
<1>8. CASE \E s \in fits, k \in RandomKeys : Gets(s, k)
  <2>1. PICK s \in fits, k \in RandomKeys : Gets(s, k)
    BY Zenon, <1>8
  <2> DEFINE key   == MrKey(index, k)
             entry == [index |-> s, count |-> Len(pages)]
             new   == [x \in {key} |-> entry]
             this  == [key |-> key, index |-> s, pages |-> pages]
  <2>2. s \in Nat /\ Run(s, Len(pages)) \subseteq Nat /\ Run(s, Len(pages)) \cap mtt.used = {}
    BY <1>3, MemoryAssumption DEF Fits, Run
  <2>3. key \in Nat /\ KeyIndex(key) = index
    BY Zenon, <1>2, KeyIndexOfMrKey, MemoryAssumption
  <2> HIDE DEF key
  <2>4. key \notin DOMAIN mtt.map /\ \A x \in DOMAIN mtt.map : KeyIndex(x) # index
    BY <1>2, <2>3 DEF RegInv, KeysAreFresh
  <2>5. \A r \in regions : KeyIndex(r.key) # index /\ r.key # key
    BY ZenonT(60), <1>2, <1>4, <2>3 DEF RegInv, OwnedIsUsed
  <2>6. mtt.map \in Tables(MapEntry) /\ new \in Tables(MapEntry)
    <3>1. entry \in MapEntry
      BY <1>3, <2>2 DEF MapEntry
    <3> HIDE DEF entry
    <3>2. new \in Tables(MapEntry)
      BY Zenon, <2>3, <3>1, OneEntry
    <3> QED
      BY <3>2 DEF RegInv, RegTypes
  <2>7. /\ mtt'.map \in Tables(MapEntry)
        /\ DOMAIN mtt.map \subseteq DOMAIN mtt'.map
        /\ DOMAIN mtt'.map \subseteq DOMAIN mtt.map \cup {key}
        /\ \A x \in DOMAIN mtt.map : mtt'.map[x] = mtt.map[x]
        /\ key \in DOMAIN mtt'.map => mtt'.map[key] = entry
    <3>1. CASE debug
      <4>1. mtt'.map = Update(mtt.map, new)
        BY <2>1, <3>1 DEF key
      <4>2. DOMAIN new = {key} /\ new[key] = entry
        OBVIOUS
      <4> HIDE DEF new, entry
      <4>3. Update(mtt.map, new) \in Tables(MapEntry)
        BY <2>6, UpdateType
      <4>4. /\ DOMAIN Update(mtt.map, new) = DOMAIN mtt.map \cup DOMAIN new
            /\ \A x \in DOMAIN new : Update(mtt.map, new)[x] = new[x]
            /\ \A x \in DOMAIN mtt.map : x \notin DOMAIN new => Update(mtt.map, new)[x] = mtt.map[x]
        BY Zenon, UpdateIs
      <4> QED
        BY <2>4, <4>1, <4>2, <4>3, <4>4
    <3>2. CASE ~debug
      BY <2>1, <2>4, <2>6, <3>2
    <3> QED
      BY <3>1, <3>2
  <2>8. mtt'.keys = left /\ mtt'.used = mtt.used \cup Run(s, Len(pages))
    BY <2>1
  <2>9. Owned' \subseteq regions \cup {this}
    BY SMTT(60), <1>1, <1>5, <2>1 DEF Owned, UnderWay, key
  <2>10. RegTypes'
    <3>1. mtt' \in [keys : Seq(Nat), used : SUBSET Nat, map : Tables(MapEntry)]
      <4>1. mtt' = [keys |-> mtt'.keys, used |-> mtt'.used, map |-> mtt'.map]
        BY <2>1
      <4>2. mtt'.used \in SUBSET Nat
        BY <2>2, <2>8 DEF RegInv, RegTypes
      <4> QED
        BY Zenon, <1>2, <2>7, <2>8, <4>1, <4>2
    <3>2. /\ reg' \in [pc : {"idle", "mtt", "next", "pgt"}, key : Nat, index : Nat,
                       pages : Seq(Page), done : Nat]
          /\ reg'.done <= Len(reg'.pages)
      BY SMTT(60), <1>3, <2>1, <2>2, <2>3 DEF RegInv, RegTypes, key
    <3> QED
      BY SMTT(60), <1>5, <3>1, <3>2 DEF RegInv, RegTypes
  <2>11. FreeOnce' /\ KeysAreFresh'
    <3>1. FreeOnce'
      BY <1>2, <2>8 DEF RegInv, FreeOnce
    <3>2. \A x \in DOMAIN mtt.map, i \in DOMAIN left : left[i] # KeyIndex(x)
      BY SMTT(60), <1>2 DEF RegInv, KeysAreFresh
    <3>3. \A i \in DOMAIN left : left[i] # KeyIndex(key)
      BY <1>2, <2>3
    <3> HIDE DEF left
    <3>4. \A x \in DOMAIN mtt'.map, i \in DOMAIN mtt'.keys : mtt'.keys[i] # KeyIndex(x)
      BY <2>7, <2>8, <3>2, <3>3
    <3> QED
      BY <3>1, <3>4 DEF KeysAreFresh, KeyIndex
  <2>12. MapOnce'
    BY SMTT(60), <2>3, <2>4, <2>7 DEF RegInv, MapOnce
  <2>13. OwnedIsUsed'
    <3>1. SUFFICES ASSUME NEW r \in regions \cup {this}
                   PROVE  /\ \A i \in DOMAIN left : left[i] # KeyIndex(r.key)
                          /\ Entries(r) \subseteq mtt.used \cup Run(s, Len(pages))
                          /\ r.key \in DOMAIN mtt'.map
                                 => mtt'.map[r.key] = [index |-> r.index, count |-> Len(r.pages)]
      BY ZenonT(60), <2>8, <2>9 DEF OwnedIsUsed, Entries, Run, KeyIndex
    <3>2. CASE r = this
      BY <1>2, <2>3, <2>7, <3>2 DEF Entries
    <3>3. CASE r \in regions
      BY <1>2, <1>4, <2>5, <2>7, <3>3, ZenonT(60) DEF RegInv, OwnedIsUsed
    <3> QED
      BY <3>2, <3>3
  <2>14. OwnedOnce'
    <3>1. \A r \in regions : Entries(r) \subseteq mtt.used
      BY Zenon, <1>4 DEF RegInv, OwnedIsUsed
    <3>2. Entries(this) = Run(s, Len(pages))
      BY DEF Entries
    <3>3. \A r \in regions : /\ KeyIndex(r.key) # KeyIndex(this.key)
                             /\ Entries(r) \cap Entries(this) = {}
      BY <2>2, <2>3, <2>5, <3>1, <3>2
    <3>4. \A r, q \in regions : r # q => /\ KeyIndex(r.key) # KeyIndex(q.key)
                                         /\ Entries(r) \cap Entries(q) = {}
      BY <1>4 DEF RegInv, OwnedOnce
    <3> HIDE DEF this
    <3>5. \A r, q \in regions \cup {this} : r # q => /\ KeyIndex(r.key) # KeyIndex(q.key)
                                                   /\ Entries(r) \cap Entries(q) = {}
      BY <3>3, <3>4, Zenon
    <3> QED
      BY <2>9, <3>5 DEF OwnedOnce, Entries, Run, KeyIndex
  <2>15. Progress'
    <3>1. CASE reg' = reg
      <4>1. reg'.pc = "idle" /\ ~ran'
        BY <1>1, <1>5, <3>1
      <4> QED
        BY <4>1 DEF Progress
    <3>2. CASE reg' # reg
      <4>1. reg'.pc = "mtt" /\ reg'.done = 0 /\ ~ran'
        BY <1>1, <1>5, <2>1, <3>2
      <4>2. Written(reg, reg.done)'
        BY SMTT(60), <4>1 DEF Written
      <4> QED
        BY SMTT(60), <4>1, <4>2 DEF Progress
    <3> QED
      BY <3>1, <3>2
  <2> QED
    BY <1>6, <2>10, <2>11, <2>12, <2>13, <2>14, <2>15 DEF RegInv
<1> QED
  BY Zenon, <1>7, <1>8 DEF Register

\* A step that leaves the driver's tables and the regions with entries alone
LEMMA SameOwned ==
    ASSUME RegInv, UNCHANGED mtt, Owned' = Owned
    PROVE  FreeOnce' /\ OwnedIsUsed' /\ OwnedOnce' /\ KeysAreFresh' /\ MapOnce'
  BY DEF RegInv, FreeOnce, OwnedIsUsed, OwnedOnce, KeysAreFresh, MapOnce

\* What the card writes for the registration under way, it writes into that region's own
\* entries: every other region is translated as before.
LEMMA CardRegInv ==
    ASSUME RegInv, CardExecutesUpdate
    PROVE  RegInv'
<1> DEFINE this == [key |-> reg.key, index |-> reg.index, pages |-> reg.pages]
<1>1. reg.pc \in {"mtt", "pgt"} /\ ran' = TRUE /\ UNCHANGED <<debug, mtt, reg, buf, regions>>
  BY DEF CardExecutesUpdate
<1>2. Owned' = Owned /\ this \in Owned
  BY <1>1 DEF Owned, UnderWay
<1>3. /\ reg \in [pc : {"idle", "mtt", "next", "pgt"}, key : Nat, index : Nat,
                  pages : Seq(Page), done : Nat]
      /\ reg.done <= Len(reg.pages) /\ Len(reg.pages) \in Nat
      /\ buf \in Seq(Page) /\ Len(buf) \in Nat
      /\ card \in [mtt : Tables(MttEntry), pgt : Tables(Page)]
      /\ regions \subseteq Region
  BY DEF RegInv, RegTypes
<1>4. FreeOnce' /\ OwnedIsUsed' /\ OwnedOnce' /\ KeysAreFresh' /\ MapOnce'
  BY <1>1, <1>2, SameOwned
<1>5. \A r \in regions : r = this \/ (/\ KeyIndex(r.key) # KeyIndex(reg.key)
                                      /\ Entries(r) \cap Entries(this) = {})
  BY <1>2 DEF RegInv, OwnedOnce, Owned
<1>6. SUFFICES /\ card' \in [mtt : Tables(MttEntry), pgt : Tables(Page)]
               /\ RegionsTranslate' /\ Progress'
  <2>1. debug' \in BOOLEAN /\ ran' \in BOOLEAN
    BY <1>1, Zenon DEF RegInv, RegTypes
  <2>2. card' \in [mtt : Tables(MttEntry), pgt : Tables(Page)] => RegTypes'
    BY <1>1, <2>1, Zenon DEF RegInv, RegTypes
  <2> QED
    BY <1>4, <2>2 DEF RegInv
<1>7. CASE reg.pc = "mtt"
  <2> DEFINE i == KeyIndex(reg.key)
             e == [key |-> reg.key, base |-> reg.index]
             g == [x \in {i} |-> e]
  <2>1. card' = [card EXCEPT !.mtt = Update(card.mtt, g)]
    BY <1>7 DEF CardExecutesUpdate, Execute, MttUpdate
  <2>2. card'.mtt = Update(card.mtt, g) /\ card'.pgt = card.pgt
    BY <1>3, <2>1
  <2>3. i \in Nat /\ e \in MttEntry
    BY <1>3, KeyIndexType DEF MttEntry
  <2>4. DOMAIN g = {i} /\ g[i] = e
    OBVIOUS
  <2> HIDE DEF i, e
  <2>5. g \in Tables(MttEntry)
    BY Zenon, <2>3, OneEntry
  <2> HIDE DEF g
  <2>6. card' \in [mtt : Tables(MttEntry), pgt : Tables(Page)]
    <3>1. Update(card.mtt, g) \in Tables(MttEntry)
      BY <1>3, <2>5, UpdateType
    <3> QED
      BY <1>3, <2>1, <3>1
  <2>7. /\ DOMAIN card'.mtt = DOMAIN card.mtt \cup {i}
        /\ card'.mtt[i] = e
        /\ \A x \in DOMAIN card.mtt : x # i => card'.mtt[x] = card.mtt[x]
    <3>1. /\ DOMAIN Update(card.mtt, g) = DOMAIN card.mtt \cup DOMAIN g
          /\ \A x \in DOMAIN g : Update(card.mtt, g)[x] = g[x]
          /\ \A x \in DOMAIN card.mtt : x \notin DOMAIN g => Update(card.mtt, g)[x] = card.mtt[x]
      BY Zenon, UpdateIs
    <3> QED
      BY <2>2, <2>4, <3>1
  <2>8. RegionsTranslate'
    <3>1. ASSUME NEW r \in regions
          PROVE  /\ KeyIndex(r.key) \in DOMAIN card'.mtt
                 /\ card'.mtt[KeyIndex(r.key)] = [key |-> r.key, base |-> r.index]
      BY <1>5, <2>7 DEF RegInv, RegionsTranslate, i, e
    <3> QED
      BY <1>1, <2>2, <3>1, ZenonT(60) DEF RegInv, RegionsTranslate, KeyIndex
  <2>9. Progress'
    <3>1. Translated(reg)'
      BY <1>1, <2>7 DEF Translated, i, e
    <3> QED
      BY <1>1, <1>7, <2>2, <3>1 DEF RegInv, Progress, Written
  <2> QED
    BY <2>6, <2>8, <2>9
<1>8. CASE reg.pc = "pgt"
  <2> DEFINE b == reg.index + reg.done
             g == [x \in Run(b, Len(buf)) |-> buf[x - b + 1]]
  <2>1. card' = [card EXCEPT !.pgt = Update(card.pgt, g)]
    BY <1>8 DEF CardExecutesUpdate, Execute, PgtUpdate
  <2>2. card'.pgt = Update(card.pgt, g) /\ card'.mtt = card.mtt
    BY <1>3, <2>1
  <2> HIDE DEF b
  <2>3. /\ b \in Nat /\ b = reg.index + reg.done
        /\ reg.index \in Nat /\ reg.done \in Nat /\ Len(buf) \in Nat
    BY <1>3 DEF b
  <2>4. /\ reg.done + Len(buf) <= Len(reg.pages)
        /\ \A j \in 1 .. Len(buf) : buf[j] = reg.pages[reg.done + j]
    BY <1>8 DEF RegInv, Progress
  <2>5. Run(b, Len(buf)) \in SUBSET Nat /\ g \in [Run(b, Len(buf)) -> Page]
    BY SMTT(60), <1>3, <2>3 DEF Run
  <2>6. DOMAIN g = Run(b, Len(buf)) /\ \A x \in Run(b, Len(buf)) : g[x] = reg.pages[x - reg.index + 1]
    <3>1. ASSUME NEW x \in Run(b, Len(buf)) PROVE g[x] = reg.pages[x - reg.index + 1]
      <4>1. x - b + 1 \in 1 .. Len(buf) /\ reg.done + (x - b + 1) = x - reg.index + 1
        BY <2>3, ChunkPlace, ZenonT(60) DEF b
      <4>2. g[x] = buf[x - b + 1]
        OBVIOUS
      <4> QED
        BY <2>4, <4>1, <4>2, Zenon
    <3> QED
      BY <3>1
  <2>7. Run(b, Len(buf)) \subseteq Entries(this)
    BY SMTT(60), <1>3, <2>3, <2>4 DEF Run, Entries
  <2> HIDE DEF g
  <2>8. card' \in [mtt : Tables(MttEntry), pgt : Tables(Page)]
    <3>1. g \in Tables(Page)
      BY <2>5, TablesIs
    <3>2. Update(card.pgt, g) \in Tables(Page)
      BY <1>3, <3>1, UpdateType
    <3> QED
      BY <1>3, <2>1, <3>2
  <2>9. /\ DOMAIN card'.pgt = DOMAIN card.pgt \cup Run(b, Len(buf))
        /\ \A x \in Run(b, Len(buf)) : card'.pgt[x] = reg.pages[x - reg.index + 1]
        /\ \A x \in DOMAIN card.pgt : x \notin Run(b, Len(buf)) => card'.pgt[x] = card.pgt[x]
    <3>1. /\ DOMAIN Update(card.pgt, g) = DOMAIN card.pgt \cup DOMAIN g
          /\ \A x \in DOMAIN g : Update(card.pgt, g)[x] = g[x]
          /\ \A x \in DOMAIN card.pgt : x \notin DOMAIN g => Update(card.pgt, g)[x] = card.pgt[x]
      BY Zenon, UpdateIs
    <3> QED
      BY <2>2, <2>6, <3>1
  <2>10. RegionsTranslate'
    <3>1. ASSUME NEW r \in regions, NEW j \in 1 .. Len(r.pages)
          PROVE  /\ r.index + j - 1 \in DOMAIN card'.pgt
                 /\ card'.pgt[r.index + j - 1] = r.pages[j]
      <4>1. /\ r.index + j - 1 \in DOMAIN card.pgt
            /\ card.pgt[r.index + j - 1] = r.pages[j]
            /\ r.index \in Nat /\ Len(r.pages) \in Nat
        <5>1. r \in Region
          BY <1>3
        <5>2. r.index \in Nat /\ Len(r.pages) \in Nat
          BY <5>1 DEF Region
        <5> QED
          BY ZenonT(60), <5>2 DEF RegInv, RegionsTranslate
      <4>2. r.index + j - 1 \in Entries(r)
        BY SMTT(60), <4>1 DEF Entries, Run
      <4>3. CASE r = this
        <5>1. (r.index + j - 1) - reg.index + 1 = j /\ r.pages = reg.pages
          BY SMTT(60), <1>3, <4>3
        <5> QED
          BY <2>9, <4>1, <5>1
      <4>4. CASE Entries(r) \cap Entries(this) = {}
        BY SMTT(60), <2>7, <2>9, <4>1, <4>2, <4>4
      <4> QED
        BY <1>5, <4>3, <4>4
    <3> QED
      BY Zenon, <1>1, <2>2, <3>1 DEF RegInv, RegionsTranslate, KeyIndex
  <2>11. Progress'
    <3>1. Translated(reg)'
      BY <1>1, <1>8, <2>2 DEF RegInv, Progress, Translated
    <3>2. ASSUME NEW j \in 1 .. reg.done + Len(buf)
          PROVE  /\ reg.index + j - 1 \in DOMAIN card'.pgt
                 /\ card'.pgt[reg.index + j - 1] = reg.pages[j]
      <4>1. CASE j > reg.done
        <5>1. reg.index + j - 1 \in Run(b, Len(buf)) /\ (reg.index + j - 1) - reg.index + 1 = j
          BY SMTT(60), <1>3, <2>3, <4>1 DEF Run
        <5> QED
          BY <2>9, <5>1
      <4>2. CASE j <= reg.done
        <5>1. /\ reg.index + j - 1 \in DOMAIN card.pgt
              /\ card.pgt[reg.index + j - 1] = reg.pages[j]
          BY <1>3, <1>8, <4>2 DEF RegInv, Progress, Written
        <5>2. reg.index + j - 1 \notin Run(b, Len(buf))
          BY SMTT(60), <1>3, <2>3, <4>2 DEF Run
        <5> QED
          BY <2>9, <5>1, <5>2
      <4> QED
        BY <1>3, <4>1, <4>2
    <3>3. Written(reg, reg.done + Len(buf))'
      BY <1>1, <3>2 DEF Written
    <3>4. Written(reg, reg.done)'
      BY SMTT(60), <1>1, <1>3, <3>2 DEF Written
    <3> QED
      BY SMTT(60), <1>1, <1>8, <2>4, <3>1, <3>3, <3>4 DEF Progress
  <2> QED
    BY <2>8, <2>10, <2>11
<1> QED
  BY <1>1, <1>7, <1>8

LEMMA ReturnRegInv ==
    ASSUME RegInv, CommandReturns
    PROVE  RegInv'
<1>1. /\ reg.pc \in {"mtt", "pgt"} /\ ran /\ ran' = FALSE /\ reg' = AfterCommand(reg)
      /\ UNCHANGED <<debug, mtt, buf, card, regions>>
  BY DEF CommandReturns
<1>2. reg \in [pc : {"idle", "mtt", "next", "pgt"}, key : Nat, index : Nat,
               pages : Seq(Page), done : Nat] /\ Len(buf) \in Nat
  BY DEF RegInv, RegTypes
<1>3. /\ reg'.pc = "next" /\ reg'.key = reg.key /\ reg'.index = reg.index
      /\ reg'.pages = reg.pages
      /\ reg'.done = IF reg.pc = "pgt" THEN reg.done + Len(buf) ELSE reg.done
  BY <1>1, <1>2 DEF AfterCommand
<1>4. Owned' = Owned
  BY <1>1, <1>3 DEF Owned, UnderWay
<1>5. RegTypes'
  <2>1. reg' \in [pc : {"idle", "mtt", "next", "pgt"}, key : Nat, index : Nat,
                  pages : Seq(Page), done : Nat]
    <3> DEFINE d == IF reg.pc = "pgt" THEN reg.done + Len(buf) ELSE reg.done
    <3>1. d \in Nat
      BY <1>2
    <3>2. reg' = [reg EXCEPT !.pc = "next", !.done = d]
      BY <1>1, Zenon DEF AfterCommand
    <3> HIDE DEF d
    <3> QED
      BY Zenon, <1>2, <3>1, <3>2
  <2>2. reg'.done <= Len(reg'.pages)
    <3>1. CASE reg.pc = "pgt"
      BY <1>3, <3>1 DEF RegInv, Progress
    <3>2. CASE reg.pc = "mtt"
      <4>1. reg'.done = reg.done
        BY <1>3, <3>2
      <4> QED
        BY <1>3, <4>1 DEF RegInv, RegTypes
    <3> QED
      BY <1>1, <3>1, <3>2
  <2>3. ran' \in BOOLEAN
    BY <1>1, Zenon
  <2> QED
    BY <1>1, <2>1, <2>2, <2>3, Zenon DEF RegInv, RegTypes
<1>6. RegionsTranslate'
  BY Zenon, <1>1 DEF RegInv, RegionsTranslate
<1>7. Progress'
  <2>1. Translated(reg)'
    BY <1>1, <1>3 DEF RegInv, Progress, Translated
  <2>2. Written(reg, reg.done)'
    BY <1>1, <1>3 DEF RegInv, Progress, Written
  <2> QED
    BY SMTT(60), <1>1, <1>3, <2>1, <2>2 DEF Progress
<1> QED
  BY <1>1, <1>4, <1>5, <1>6, <1>7, SameOwned DEF RegInv

LEMMA FillRegInv ==
    ASSUME RegInv, FillBuffer
    PROVE  RegInv'
<1>1. /\ reg.pc = "next" /\ reg.done < Len(reg.pages) /\ buf' = Chunk(reg)
      /\ reg' = [reg EXCEPT !.pc = "pgt"] /\ UNCHANGED <<debug, mtt, ran, card, regions>>
  BY DEF FillBuffer
<1>2. reg \in [pc : {"idle", "mtt", "next", "pgt"}, key : Nat, index : Nat,
               pages : Seq(Page), done : Nat]
  BY DEF RegInv, RegTypes
<1>3. /\ reg'.pc = "pgt" /\ reg'.key = reg.key /\ reg'.index = reg.index
      /\ reg'.pages = reg.pages /\ reg'.done = reg.done
  BY <1>1, <1>2
<1>4. Owned' = Owned
  BY <1>1, <1>3 DEF Owned, UnderWay
<1>5. /\ Chunk(reg) \in Seq(Page)
      /\ reg.done + Len(Chunk(reg)) <= Len(reg.pages)
      /\ \A i \in 1 .. Len(Chunk(reg)) : Chunk(reg)[i] = reg.pages[reg.done + i]
  BY <1>1, <1>2, ChunkIs
<1>6. RegTypes'
  <2>1. reg' \in [pc : {"idle", "mtt", "next", "pgt"}, key : Nat, index : Nat,
                  pages : Seq(Page), done : Nat] /\ reg'.done <= Len(reg'.pages)
    BY SMTT(60), <1>1, <1>2, <1>3 DEF RegInv, RegTypes
  <2> QED
    BY <1>1, <1>5, <2>1, Zenon DEF RegInv, RegTypes
<1>7. RegionsTranslate'
  BY Zenon, <1>1 DEF RegInv, RegionsTranslate
<1>8. Progress'
  <2>1. ~ran'
    BY <1>1 DEF RegInv, Progress
  <2>2. Translated(reg)'
    BY <1>1, <1>3 DEF RegInv, Progress, Translated
  <2>3. Written(reg, reg.done)'
    BY <1>1, <1>3 DEF RegInv, Progress, Written
  <2> HIDE DEF Chunk
  <2> QED
    BY <1>1, <1>3, <1>5, <2>1, <2>2, <2>3 DEF Progress
<1> QED
  BY <1>1, <1>4, <1>6, <1>7, <1>8, SameOwned DEF RegInv

LEMMA RegisteredRegInv ==
    ASSUME RegInv, Registered
    PROVE  RegInv'
<1> DEFINE this == [key |-> reg.key, index |-> reg.index, pages |-> reg.pages]
<1>1. /\ reg.pc = "next" /\ reg.done = Len(reg.pages) /\ regions' = regions \cup {this}
      /\ reg' = NoRegistration /\ UNCHANGED <<debug, mtt, ran, buf, card>>
  BY DEF Registered
<1>2. Owned' = Owned
  BY <1>1 DEF Owned, UnderWay, NoRegistration
<1>3. this \in Region
  BY DEF RegInv, RegTypes, Region
<1>4. RegTypes'
  <2>1. reg' \in [pc : {"idle", "mtt", "next", "pgt"}, key : Nat, index : Nat,
                  pages : Seq(Page), done : Nat] /\ reg'.done <= Len(reg'.pages)
    BY <1>1 DEF NoRegistration
  <2>2. regions' \subseteq Region
    BY <1>1, <1>3 DEF RegInv, RegTypes
  <2> QED
    BY <1>1, <2>1, <2>2, Zenon DEF RegInv, RegTypes
<1>5. RegionsTranslate'
  <2>1. Translated(reg) /\ Written(reg, Len(reg.pages))
    BY <1>1 DEF RegInv, Progress
  <2>2. ASSUME NEW r \in regions \cup {this}
        PROVE  Translated(r) /\ Written(r, Len(r.pages))
    <3>1. CASE r \in regions
      BY SMTT(60), <3>1 DEF RegInv, RegionsTranslate, Translated, Written
    <3>2. CASE r = this
      BY <2>1, <3>2 DEF Translated, Written
    <3> QED
      BY SMTT(60), <3>1, <3>2
  <2> QED
    BY ZenonT(60), <1>1, <2>2 DEF RegionsTranslate, Translated, Written
<1>6. Progress'
  <2>1. reg'.pc = "idle" /\ ~ran'
    BY <1>1 DEF RegInv, Progress, NoRegistration
  <2> QED
    BY SMTT(60), <2>1 DEF Progress
<1> QED
  BY <1>1, <1>2, <1>4, <1>5, <1>6, SameOwned DEF RegInv

\* dereg_mr gives back the index and the entries that the region has, and no other has.
LEMMA DeregisterRegInv ==
    ASSUME RegInv, NEW r \in regions, Deregister(r)
    PROVE  RegInv'
<1> DEFINE left == [k \in DOMAIN mtt.map \ {r.key} |-> mtt.map[k]]
<1>1. /\ reg.pc = "idle" /\ r.key \in DOMAIN mtt.map /\ regions' = regions \ {r}
      /\ mtt' = [keys |-> Append(mtt.keys, KeyIndex(r.key)),
                 used |-> mtt.used \ Run(mtt.map[r.key].index, mtt.map[r.key].count),
                 map  |-> left]
      /\ UNCHANGED <<debug, reg, ran, buf, card>>
  BY SMTT(60) DEF Deregister
<1>2. Owned = regions /\ Owned' = regions \ {r}
  BY SMTT(60), <1>1 DEF Owned, UnderWay
<1>3. mtt.map[r.key] = [index |-> r.index, count |-> Len(r.pages)]
  BY SMTT(60), <1>1, <1>2 DEF RegInv, OwnedIsUsed
<1>4. mtt'.keys = Append(mtt.keys, KeyIndex(r.key)) /\ mtt'.used = mtt.used \ Entries(r)
  BY SMTT(60), <1>1, <1>3 DEF Entries
<1>5. /\ DOMAIN mtt'.map = DOMAIN mtt.map \ {r.key}
      /\ \A k \in DOMAIN mtt.map \ {r.key} : mtt'.map[k] = mtt.map[k]
  BY <1>1
<1>6. r \in Region /\ KeyIndex(r.key) \in Nat
  <2>1. r \in Region
    BY DEF RegInv, RegTypes
  <2> QED
    BY <2>1, KeyIndexType DEF Region
<1>7. /\ mtt'.keys \in Seq(Nat)
      /\ DOMAIN mtt'.keys = DOMAIN mtt.keys \cup {Len(mtt.keys) + 1}
      /\ \A i \in DOMAIN mtt.keys : mtt'.keys[i] = mtt.keys[i]
      /\ mtt'.keys[Len(mtt.keys) + 1] = KeyIndex(r.key)
  <2>1. mtt.keys \in Seq(Nat)
    BY DEF RegInv, RegTypes
  <2> QED
    BY SMTT(60), <1>4, <1>6, <2>1
<1>8. \A i \in DOMAIN mtt.keys : mtt.keys[i] # KeyIndex(r.key)
  BY Zenon, <1>2 DEF RegInv, OwnedIsUsed
<1>9. \A s \in regions \ {r} : /\ KeyIndex(s.key) # KeyIndex(r.key)
                               /\ Entries(s) \cap Entries(r) = {}
  BY <1>2 DEF RegInv, OwnedOnce
<1>10. RegTypes'
  <2>1. left \in Tables(MapEntry)
    <3>1. PICK D \in SUBSET Nat : mtt.map \in [D -> MapEntry]
      BY TablesIs DEF RegInv, RegTypes
    <3>2. D \ {r.key} \in SUBSET Nat /\ left \in [D \ {r.key} -> MapEntry]
      BY Zenon, <3>1
    <3> QED
      BY <3>2, TablesIs
  <2>2. mtt'.used \in SUBSET Nat
    BY <1>4 DEF RegInv, RegTypes
  <2>3. mtt' \in [keys : Seq(Nat), used : SUBSET Nat, map : Tables(MapEntry)]
    <3> HIDE DEF left
    <3>1. mtt' = [keys |-> mtt'.keys, used |-> mtt'.used, map |-> left]
      BY SMTT(60), <1>1
    <3> QED
      BY SMTT(60), <1>7, <2>1, <2>2, <3>1
  <2>4. regions' \subseteq Region
    BY SMTT(60), <1>1 DEF RegInv, RegTypes
  <2> QED
    BY <1>1, <2>3, <2>4, Zenon DEF RegInv, RegTypes
<1>11. FreeOnce'
  BY <1>7, <1>8 DEF RegInv, FreeOnce
<1>12. KeysAreFresh'
  <2>1. ASSUME NEW k \in DOMAIN mtt.map \ {r.key}, NEW i \in DOMAIN mtt'.keys
        PROVE  mtt'.keys[i] # KeyIndex(k)
    <3>1. KeyIndex(k) # KeyIndex(r.key)
      BY <1>1 DEF RegInv, MapOnce
    <3> QED
      BY SMTT(60), <1>7, <3>1 DEF RegInv, KeysAreFresh
  <2> QED
    BY <1>5, <2>1 DEF KeysAreFresh, KeyIndex
<1>13. MapOnce'
  BY <1>5 DEF RegInv, MapOnce
<1>14. OwnedIsUsed'
  <2>1. ASSUME NEW s \in regions \ {r}
        PROVE  /\ \A i \in DOMAIN mtt'.keys : mtt'.keys[i] # KeyIndex(s.key)
               /\ Entries(s) \subseteq mtt'.used
               /\ s.key \in DOMAIN mtt'.map
                      => mtt'.map[s.key] = [index |-> s.index, count |-> Len(s.pages)]
    <3>1. /\ \A i \in DOMAIN mtt.keys : mtt.keys[i] # KeyIndex(s.key)
          /\ Entries(s) \subseteq mtt.used
          /\ s.key \in DOMAIN mtt.map
                 => mtt.map[s.key] = [index |-> s.index, count |-> Len(s.pages)]
      BY SMTT(60), <1>2 DEF RegInv, OwnedIsUsed
    <3>2. \A i \in DOMAIN mtt'.keys : mtt'.keys[i] # KeyIndex(s.key)
      BY SMTT(60), <1>7, <1>9, <3>1
    <3>3. Entries(s) \subseteq mtt'.used
      BY <1>4, <1>9, <3>1
    <3> QED
      BY SMTT(60), <1>5, <3>1, <3>2, <3>3
  <2> QED
    BY ZenonT(60), <1>2, <2>1 DEF OwnedIsUsed, Entries, Run, KeyIndex
<1>15. OwnedOnce'
  BY SMTT(60), <1>2 DEF RegInv, OwnedOnce, Entries, Run, KeyIndex
<1>16. RegionsTranslate'
  BY ZenonT(60), <1>1 DEF RegInv, RegionsTranslate
<1>17. Progress'
  BY SMTT(60), <1>1 DEF RegInv, Progress
<1> QED
  BY SMTT(60), <1>10, <1>11, <1>12, <1>13, <1>14, <1>15, <1>16, <1>17 DEF RegInv

LEMMA NewInstanceRegInv ==
    ASSUME RegInv, NewInstance
    PROVE  RegInv'
<1>1. /\ reg.pc = "idle" /\ mtt' = NewMtt /\ buf' = <<>> /\ card' \in {card, NewCard}
      /\ regions' = {} /\ UNCHANGED <<debug, reg, ran>>
  BY DEF NewInstance
<1>2. \A S : <<>> \in Tables(S)
  BY DEF Tables
<1>3. NewMtt.keys \in Seq(Nat) /\ DOMAIN NewMtt.keys = 1 .. MAX_MR_CNT
      /\ \A i \in 1 .. MAX_MR_CNT : NewMtt.keys[i] = i - 1
  BY SMTT(60), MemoryAssumption DEF NewMtt
<1>4. mtt' \in [keys : Seq(Nat), used : SUBSET Nat, map : Tables(MapEntry)]
  BY <1>1, <1>2, <1>3 DEF NewMtt
<1>5. card' \in [mtt : Tables(MttEntry), pgt : Tables(Page)]
  BY <1>1, <1>2 DEF RegInv, RegTypes, NewCard
<1>6. buf' \in Seq(Page) /\ regions' \subseteq Region
  BY <1>1
<1>7. RegTypes'
  BY <1>1, <1>4, <1>5, <1>6, Zenon DEF RegInv, RegTypes
<1>8. FreeOnce'
  <2>1. mtt'.keys = NewMtt.keys
    BY <1>1
  <2>2. ASSUME NEW i \in 1 .. MAX_MR_CNT, NEW j \in 1 .. MAX_MR_CNT,
               NewMtt.keys[i] = NewMtt.keys[j]
        PROVE  i = j
    <3>1. NewMtt.keys[i] = i - 1 /\ NewMtt.keys[j] = j - 1
      BY <1>3
    <3>2. i - 1 = j - 1
      BY <2>2, <3>1, Zenon
    <3> QED
      BY <3>2, MemoryAssumption
  <2> QED
    BY Zenon, <1>3, <2>1, <2>2 DEF FreeOnce
<1>9. Owned' = {}
  BY <1>1 DEF Owned, UnderWay
<1>10. DOMAIN mtt'.map = {}
  BY SMTT(60), <1>1 DEF NewMtt
<1>11. Progress'
  BY <1>1 DEF RegInv, Progress
<1> QED
  BY <1>1, <1>7, <1>8, <1>9, <1>10, <1>11 DEF RegInv, OwnedIsUsed, OwnedOnce, KeysAreFresh,
     MapOnce, RegionsTranslate

LEMMA NextRegInv == RegInv /\ [RegNext]_regVars => RegInv'
<1> SUFFICES ASSUME RegInv, [RegNext]_regVars PROVE RegInv'
  OBVIOUS
<1>1. CASE \E pages \in Areas : Register(pages)
  BY <1>1, RegisterRegInv
<1>2. CASE CardExecutesUpdate
  BY <1>2, CardRegInv
<1>3. CASE CommandReturns
  BY <1>3, ReturnRegInv
<1>4. CASE FillBuffer
  BY <1>4, FillRegInv
<1>5. CASE Registered
  BY <1>5, RegisteredRegInv
<1>6. CASE \E r \in regions : Deregister(r)
  BY <1>6, DeregisterRegInv
<1>7. CASE NewInstance
  BY <1>7, NewInstanceRegInv
<1>8. CASE UNCHANGED regVars
  <2>1. UNCHANGED <<debug, mtt, reg, ran, buf, card, regions>>
    BY <1>8 DEF regVars
  <2>2. Owned' = Owned
    BY <2>1 DEF Owned, UnderWay
  <2>3. RegTypes'
    BY <2>1, Zenon DEF RegInv, RegTypes
  <2>4. RegionsTranslate'
    BY <2>1, Zenon DEF RegInv, RegionsTranslate, Translated, Written
  <2>5. Progress'
    BY <2>1, Zenon DEF RegInv, Progress, Translated, Written
  <2> QED
    BY <2>1, <2>2, <2>3, <2>4, <2>5, SameOwned DEF RegInv
<1> QED
  BY <1>1, <1>2, <1>3, <1>4, <1>5, <1>6, <1>7, <1>8 DEF RegNext

------------------------------------------------------------------------------
(* What the commands name *)

\* The free key indices, the used entries and what the regions have are within the
\* tables, and so is the chunk that the buffer holds.
RegBounds ==
    /\ \A i \in DOMAIN mtt.keys : mtt.keys[i] < MAX_MR_CNT
    /\ mtt.used \subseteq 0 .. PGT_LEN - 1
    /\ \A r \in Owned : KeyIndex(r.key) < MAX_MR_CNT
    /\ reg.pc # "idle" => Len(reg.pages) > 0
    /\ reg.pc = "pgt" => Len(buf) \in 1 .. MAX_NUM_PGT_ENTRY_PER_ALLOC

LEMMA NewMttBounds ==
    ASSUME NEW m, m = NewMtt
    PROVE  (\A i \in DOMAIN m.keys : m.keys[i] < MAX_MR_CNT) /\ m.used = {}
  BY MemoryAssumption DEF NewMtt

LEMMA InitRegBounds == RegInit => RegBounds
<1> SUFFICES ASSUME RegInit PROVE RegBounds
  OBVIOUS
<1>1. mtt = NewMtt /\ reg.pc = "idle" /\ Owned = {}
  BY DEF RegInit, Owned, UnderWay, NoRegistration
<1>2. (\A i \in DOMAIN mtt.keys : mtt.keys[i] < MAX_MR_CNT) /\ mtt.used = {}
  BY <1>1, NewMttBounds
<1> QED
  BY <1>1, <1>2 DEF RegBounds

\* A step that leaves the driver's tables and the regions with entries alone
LEMMA SameBounds ==
    ASSUME RegBounds, mtt' = mtt, Owned' = Owned
    PROVE  /\ \A i \in DOMAIN mtt'.keys : mtt'.keys[i] < MAX_MR_CNT
           /\ mtt'.used \subseteq 0 .. PGT_LEN - 1
           /\ (\A r \in Owned : KeyIndex(r.key) < MAX_MR_CNT)'
  BY Zenon DEF RegBounds

LEMMA RegisterRegBounds ==
    ASSUME RegInv, RegBounds, NEW pages \in Areas, Register(pages)
    PROVE  RegBounds'
<1> DEFINE index == mtt.keys[Len(mtt.keys)]
           left  == SubSeq(mtt.keys, 1, Len(mtt.keys) - 1)
           fits  == Fits(mtt.used, Len(pages))
<1>1. mtt.keys \in Seq(Nat) /\ mtt.keys # <<>> /\ reg.pc = "idle"
      /\ UNCHANGED <<buf, regions>>
  BY DEF RegInv, RegTypes, Register
<1>2. /\ index \in Nat /\ index < MAX_MR_CNT
      /\ \A i \in DOMAIN left : left[i] < MAX_MR_CNT
  <2>1. /\ Len(mtt.keys) \in DOMAIN mtt.keys /\ index \in Nat
        /\ DOMAIN left = DOMAIN mtt.keys \ {Len(mtt.keys)}
        /\ \A i \in DOMAIN mtt.keys \ {Len(mtt.keys)} : left[i] = mtt.keys[i]
    BY SMTT(60), <1>1, FrontIs
  <2> HIDE DEF left
  <2> QED
    BY <2>1 DEF RegBounds
<1>3. pages \in Seq(Page) /\ Len(pages) \in Nat
  BY MemoryAssumption
<1>4. Owned = regions
  BY <1>1 DEF Owned, UnderWay
<1>5. CASE fits = {} /\ mtt' = [mtt EXCEPT !.keys = left] /\ UNCHANGED reg
  <2>1. mtt'.keys = left /\ mtt'.used = mtt.used
    BY <1>5 DEF RegInv, RegTypes
  <2>2. Owned' = Owned
    BY SMTT(60), <1>1, <1>5 DEF Owned, UnderWay
  <2> HIDE DEF left
  <2> QED
    BY <1>1, <1>2, <1>5, <2>1, <2>2 DEF RegBounds
<1> DEFINE Gets(s, k) ==
        /\ mtt' = [keys |-> left,
                   used |-> mtt.used \cup Run(s, Len(pages)),
                   map  |-> IF debug
                            THEN Update(mtt.map, [x \in {MrKey(index, k)} |->
                                     [index |-> s, count |-> Len(pages)]])
                            ELSE mtt.map]
        /\ \/ UNCHANGED reg
           \/ reg' = [pc |-> "mtt", key |-> MrKey(index, k), index |-> s,
                      pages |-> pages, done |-> 0]
<1>6. CASE \E s \in fits, k \in RandomKeys : Gets(s, k)
  <2>1. PICK s \in fits, k \in RandomKeys : Gets(s, k)
    BY Zenon, <1>6
  <2> DEFINE this == [key |-> MrKey(index, k), index |-> s, pages |-> pages]
  <2>2. Len(pages) > 0 /\ Run(s, Len(pages)) \subseteq 0 .. PGT_LEN - 1
    BY SMTT(60), <1>3, MemoryAssumption DEF Fits, Run
  <2>3. KeyIndex(MrKey(index, k)) = index
    BY ZenonT(60), <1>2, KeyIndexOfMrKey, MemoryAssumption
  <2>4. Owned' \subseteq regions \cup {this}
    BY SMTT(60), <1>1, <2>1 DEF Owned, UnderWay
  <2>5. mtt'.keys = left /\ mtt'.used = mtt.used \cup Run(s, Len(pages))
    BY SMTT(60), <2>1
  <2>6. reg'.pc \in {"idle", "mtt"} /\ (reg'.pc = "mtt" => reg'.pages = pages)
    BY SMTT(60), <1>1, <2>1
  <2>7. KeyIndex(this.key) < MAX_MR_CNT
    BY SMTT(60), <1>2, <2>3
  <2>8. \A r \in regions : KeyIndex(r.key) < MAX_MR_CNT
    BY <1>4 DEF RegBounds
  <2> HIDE DEF left, index, this
  <2>9. (\A r \in Owned : KeyIndex(r.key) < MAX_MR_CNT)'
    BY Zenon, <2>4, <2>7, <2>8 DEF KeyIndex
  <2>10. mtt'.used \subseteq 0 .. PGT_LEN - 1
    BY Zenon, <2>2, <2>5 DEF RegBounds
  <2> QED
    BY <1>2, <2>2, <2>5, <2>6, <2>9, <2>10 DEF RegBounds
<1> QED
  BY Zenon, <1>5, <1>6 DEF Register

LEMMA NextRegBounds == RegInv /\ RegBounds /\ [RegNext]_regVars => RegBounds'
<1> SUFFICES ASSUME RegInv, RegBounds, [RegNext]_regVars PROVE RegBounds'
  OBVIOUS
<1>1. CASE \E pages \in Areas : Register(pages)
  BY SMTT(60), <1>1, RegisterRegBounds
<1>2. CASE CardExecutesUpdate \/ UNCHANGED regVars
  <2>1. UNCHANGED <<mtt, reg, buf, regions>>
    BY <1>2 DEF CardExecutesUpdate, regVars
  <2>2. Owned' = Owned
    BY SMTT(60), <2>1 DEF Owned, UnderWay
  <2> QED
    BY <2>1, <2>2, SameBounds DEF RegBounds
<1>3. CASE CommandReturns
  <2>1. reg.pc # "idle" /\ reg' = AfterCommand(reg) /\ UNCHANGED <<mtt, buf, regions>>
    BY <1>3 DEF CommandReturns
  <2>2. /\ reg'.pc = "next" /\ reg'.key = reg.key /\ reg'.index = reg.index
        /\ reg'.pages = reg.pages
    BY <2>1 DEF RegInv, RegTypes, AfterCommand
  <2>3. Owned' = Owned
    BY <2>1, <2>2 DEF Owned, UnderWay
  <2> QED
    BY <2>1, <2>2, <2>3, SameBounds DEF RegBounds
<1>4. CASE FillBuffer
  <2>1. /\ reg.pc = "next" /\ reg.done < Len(reg.pages) /\ buf' = Chunk(reg)
        /\ reg' = [reg EXCEPT !.pc = "pgt"] /\ UNCHANGED <<mtt, regions>>
    BY <1>4 DEF FillBuffer
  <2>2. /\ reg'.pc = "pgt" /\ reg'.key = reg.key /\ reg'.index = reg.index
        /\ reg'.pages = reg.pages
    BY <2>1 DEF RegInv, RegTypes
  <2>3. Owned' = Owned
    BY <2>1, <2>2 DEF Owned, UnderWay
  <2>4. Len(buf') \in 1 .. MAX_NUM_PGT_ENTRY_PER_ALLOC
    <3>1. reg.pages \in Seq(Page) /\ reg.done \in Nat
      BY SMTT(60) DEF RegInv, RegTypes
    <3> QED
      BY <2>1, <3>1, ChunkLength
  <2> QED
    BY <2>1, <2>2, <2>3, <2>4, SameBounds DEF RegBounds
<1>5. CASE Registered
  <2>1. /\ reg.pc = "next" /\ reg' = NoRegistration /\ UNCHANGED <<mtt, buf>>
        /\ regions' = regions \cup {[key |-> reg.key, index |-> reg.index, pages |-> reg.pages]}
    BY SMTT(60), <1>5 DEF Registered
  <2>2. Owned' = Owned /\ reg'.pc = "idle"
    BY SMTT(60), <2>1 DEF Owned, UnderWay, NoRegistration
  <2> QED
    BY <2>1, <2>2, SameBounds DEF RegBounds
<1>6. CASE \E r \in regions : Deregister(r)
  <2>1. PICK r \in regions : Deregister(r)
    BY SMTT(60), <1>6
  <2>2. /\ reg.pc = "idle" /\ mtt'.keys = Append(mtt.keys, KeyIndex(r.key))
        /\ mtt'.used \subseteq mtt.used /\ regions' = regions \ {r} /\ UNCHANGED <<reg, buf>>
    BY SMTT(60), <2>1 DEF Deregister
  <2>3. Owned = regions /\ Owned' \subseteq Owned
    BY <2>2 DEF Owned, UnderWay
  <2>4. r.key \in Nat /\ KeyIndex(r.key) \in Nat /\ KeyIndex(r.key) < MAX_MR_CNT
    BY SMTT(60), <2>3, KeyIndexType DEF RegInv, RegTypes, Region, RegBounds
  <2>5. mtt.keys \in Seq(Nat)
    BY DEF RegInv, RegTypes
  <2> DEFINE k == KeyIndex(r.key)
  <2> HIDE DEF k
  <2>6. \A i \in DOMAIN Append(mtt.keys, k) : Append(mtt.keys, k)[i] < MAX_MR_CNT
    BY SMTT(60), <2>4, <2>5 DEF RegBounds, k
  <2>7. (\A s \in Owned : KeyIndex(s.key) < MAX_MR_CNT)'
    BY Zenon, <2>3 DEF RegBounds, KeyIndex
  <2> QED
    BY <2>2, <2>6, <2>7 DEF RegBounds, k
<1>7. CASE NewInstance
  <2>1. reg.pc = "idle" /\ mtt' = NewMtt /\ regions' = {} /\ UNCHANGED reg
    BY <1>7 DEF NewInstance
  <2>2. Owned' = {}
    BY <2>1 DEF Owned, UnderWay
  <2>3. (\A i \in DOMAIN mtt'.keys : mtt'.keys[i] < MAX_MR_CNT) /\ mtt'.used = {}
    BY <2>1, NewMttBounds
  <2> QED
    BY <2>1, <2>2, <2>3 DEF RegBounds
<1> QED
  BY <1>1, <1>2, <1>3, <1>4, <1>5, <1>6, <1>7 DEF RegNext

\* What update_mtt and update_pgt are called with is within the tables of the card.
LEMMA CommandsFit ==
    ASSUME RegInv, RegBounds, reg.pc \in {"mtt", "pgt"}
    PROVE  /\ reg.key \in 0 .. MAX_MR_CNT * KEY_PART - 1
           /\ reg.index \in 0 .. PGT_LEN - 1
           /\ reg.pc = "pgt" => /\ reg.index + reg.done + Len(buf) <= PGT_LEN
                                /\ reg.index + reg.done \in 0 .. PGT_LEN - 1
                                /\ Len(buf) \in 1 .. MAX_NUM_PGT_ENTRY_PER_ALLOC
<1> DEFINE this == [key |-> reg.key, index |-> reg.index, pages |-> reg.pages]
<1>1. this \in Owned
  BY DEF Owned, UnderWay
<1>2. /\ reg.key \in Nat /\ reg.index \in Nat /\ reg.done \in Nat /\ Len(reg.pages) \in Nat
      /\ Len(buf) \in Nat
  BY DEF RegInv, RegTypes
<1>3. KeyIndex(reg.key) < MAX_MR_CNT
  BY <1>1 DEF RegBounds
<1>4. reg.key \in 0 .. MAX_MR_CNT * KEY_PART - 1
  BY <1>2, <1>3, MemoryAssumption DEF KeyIndex, KEY_PART
<1>5. Run(reg.index, Len(reg.pages)) \subseteq 0 .. PGT_LEN - 1
  <2>1. Entries(this) \subseteq mtt.used
    BY <1>1, Zenon DEF RegInv, OwnedIsUsed
  <2>2. Entries(this) = Run(reg.index, Len(reg.pages))
    BY DEF Entries
  <2> QED
    BY <2>1, <2>2, Zenon DEF RegBounds
<1>6. Len(reg.pages) > 0
  BY DEF RegBounds
<1>7. reg.index + Len(reg.pages) - 1 \in Run(reg.index, Len(reg.pages))
  BY SMTT(60), <1>2, <1>6 DEF Run
<1>8. reg.index + Len(reg.pages) - 1 \in 0 .. PGT_LEN - 1
  BY <1>5, <1>7, Zenon
<1>9. reg.pc = "pgt" => /\ Len(buf) \in 1 .. MAX_NUM_PGT_ENTRY_PER_ALLOC
                        /\ reg.done + Len(buf) <= Len(reg.pages)
  BY DEF RegInv, RegBounds, Progress
<1>10. reg.index \in 0 .. PGT_LEN - 1 /\ reg.index + Len(reg.pages) <= PGT_LEN
  BY SMTT(60), <1>2, <1>6, <1>8, MemoryAssumption
<1>11. CASE reg.pc = "pgt"
  <2> DEFINE n == Len(buf)
             l == Len(reg.pages)
  <2>1. n \in Nat /\ n >= 1 /\ l \in Nat /\ reg.done + n <= l /\ reg.index + l <= PGT_LEN
    <3>1. n \in Nat /\ l \in Nat
      BY Zenon, <1>2
    <3>2. n \in 1 .. MAX_NUM_PGT_ENTRY_PER_ALLOC /\ reg.done + n <= l
      BY Zenon, <1>9, <1>11
    <3>3. reg.index + l <= PGT_LEN
      BY Zenon, <1>10
    <3> HIDE DEF n, l
    <3> QED
      BY <3>1, <3>2, <3>3, MemoryAssumption
  <2> HIDE DEF n, l
  <2>2. reg.index + reg.done + n <= PGT_LEN /\ reg.index + reg.done \in 0 .. PGT_LEN - 1
    <3>1. PICK i \in Nat, d \in Nat : i = reg.index /\ d = reg.done
      BY Zenon, <1>2
    <3>2. n \in Nat /\ n >= 1 /\ l \in Nat /\ d + n <= l /\ i + l <= PGT_LEN
      BY Zenon, <2>1, <3>1
    <3>3. i + d + n <= PGT_LEN /\ i + d \in 0 .. PGT_LEN - 1
      BY <3>2, MemoryAssumption
    <3> QED
      BY Zenon, <3>1, <3>3
  <2> QED
    BY <1>4, <1>9, <1>10, <1>11, <2>2 DEF n
<1> QED
  BY <1>4, <1>10, <1>11

------------------------------------------------------------------------------
\* The card translates the key of every region to that region's pages, for tables, areas
\* and chunks of any size and any sequence of reg_mr, dereg_mr and new instances, with
\* the failures of reg_mr that leak a key or entries.
THEOREM RegionsAlwaysTranslate == RegSpec => []RegionsTranslate
<1>1. RegInv => RegionsTranslate
  BY DEF RegInv
<1> QED
  BY InitRegInv, NextRegInv, <1>1, PTL DEF RegSpec

\* No insert of Mtt::register replaces an entry of mrkey_map ("mr_key exist").
THEOREM KeysAreAlwaysFresh == RegSpec => []KeysAreFresh
<1>1. RegInv => KeysAreFresh
  BY DEF RegInv
<1> QED
  BY InitRegInv, NextRegInv, <1>1, PTL DEF RegSpec
==============================================================================
