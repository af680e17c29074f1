---------------------------- MODULE MemoryRegions ----------------------------
(***************************************************************************)
(* Memory registration: Mtt and its allocators (rdma_utils/mtt.rs), reg_mr *)
(* and dereg_mr (verbs/ctx.rs) and the two tables of the card they fill    *)
(* (external): the translation table, one entry per key index, and the     *)
(* page table, where a region has a run of entries.  The page table is     *)
(* written a chunk at a time, through one small buffer in host memory that *)
(* the card reads when it executes the command.                            *)
(***************************************************************************)
EXTENDS Integers, Sequences

CONSTANTS MAX_MR_CNT,                   \* the indices of memory region keys
          PGT_LEN,                      \* the entries of the page table
          MAX_NUM_PGT_ENTRY_PER_ALLOC,  \* the entries one command can write
          RandomKeys,                   \* what gen_range(0..1 << LR_KEY_KEY_PART_WIDTH) may draw
          Page,                         \* physical pages
          Areas                         \* the areas of memory that are registered, as the
                                        \* pages get_num_page and virt_to_phys_range find

KEY_PART == 256  \* 1 << LR_KEY_KEY_PART_WIDTH

ASSUME MemoryAssumption ==
    /\ MAX_MR_CNT \in Nat /\ PGT_LEN \in Nat
    /\ MAX_NUM_PGT_ENTRY_PER_ALLOC \in Nat \ {0}
    /\ RandomKeys \subseteq 0 .. KEY_PART - 1
    /\ Areas \subseteq Seq(Page)

VARIABLES debug,    \* whether the build has debug assertions
          mtt,      \* Mtt: the free key indices, the used page table entries, mrkey_map
          reg,      \* the registration the verbs thread is in
          ran,      \* whether the card has executed the command the thread waits for
          buf,      \* mtt_buffer: the physical addresses of a chunk
          card,     \* the card's two tables
          regions   \* history: the regions that were registered and not deregistered

regVars == <<debug, mtt, reg, ran, buf, card, regions>>

\* MrTableAlloc::new, PgtAlloc::new, HashMap::new
NewMtt == [keys |-> [i \in 1 .. MAX_MR_CNT |-> i - 1], used |-> {}, map |-> <<>>]

NoRegistration == [pc |-> "idle", key |-> 0, index |-> 0, pages |-> <<>>, done |-> 0]

\* The card's tables, when they hold nothing yet.
NewCard == [mtt |-> <<>>, pgt |-> <<>>]

RegInit ==
    /\ debug \in BOOLEAN
    /\ mtt = NewMtt
    /\ reg = NoRegistration
    /\ ran = FALSE
    /\ buf = <<>>
    /\ card = NewCard
    /\ regions = {}

MrKey(index, key) == index * KEY_PART + key

KeyIndex(mrKey) == mrKey \div KEY_PART

\* The page table entries of a run
Run(index, count) == index .. index + count - 1

\* f with the entries of g, which may be new
Update(f, g) == [x \in DOMAIN f \cup DOMAIN g |-> IF x \in DOMAIN g THEN g[x] ELSE f[x]]

\* Mutant of Fits: the last entry of a run is not looked at.
FitsOneShort(used, len) ==
    {s \in 0 .. PGT_LEN - 1 : len > 0 /\ s + len <= PGT_LEN /\ Run(s, len - 1) \cap used = {}}

\* PgtAlloc::alloc: the starts of free runs; a run of length 0 is never found.
Fits(used, len) ==
    {s \in 0 .. PGT_LEN - 1 : len > 0 /\ s + len <= PGT_LEN /\ Run(s, len) \cap used = {}}

\* reg_mr up to its first command.  When the pages cannot be pinned or no key is left,
\* nothing has changed.  A key is gone when no pages are left for it; key and pages are
\* gone when the length does not fit 32 bits or an address is not resolved.  The insert
\* into mrkey_map is inside a debug_assert!.
Register(pages) ==
    /\ reg.pc = "idle"
    /\ mtt.keys # <<>>
    /\ LET index == mtt.keys[Len(mtt.keys)]
           left  == SubSeq(mtt.keys, 1, Len(mtt.keys) - 1)
           fits  == Fits(mtt.used, Len(pages))
       IN  \/ /\ fits = {}
              /\ mtt' = [mtt EXCEPT !.keys = left]
              /\ UNCHANGED reg
           \/ \E s \in fits, k \in RandomKeys :
                 /\ \A other \in fits : s <= other
                 /\ mtt' = [keys |-> left,
                            used |-> mtt.used \cup Run(s, Len(pages)),
                            map  |-> IF debug
                                     THEN Update(mtt.map, [x \in {MrKey(index, k)} |->
                                              [index |-> s, count |-> Len(pages)]])
                                     ELSE mtt.map]
                 /\ \/ UNCHANGED reg
                    \/ reg' = [pc |-> "mtt", key |-> MrKey(index, k), index |-> s,
                               pages |-> pages, done |-> 0]
    /\ UNCHANGED <<debug, ran, buf, card, regions>>

\* MttUpdate::new and PgtUpdate::new, for the registration under way; the addresses of
\* the pages are in the buffer.
MttUpdate == [op |-> "mtt", key |-> reg.key, base |-> reg.index]
PgtUpdate == [op |-> "pgt", index |-> reg.index + reg.done, count |-> Len(buf)]

\* The card (external) executes a command: what is in the buffer now is what it writes.
Execute(cmd) ==
    IF cmd.op = "mtt"
    THEN [card EXCEPT !.mtt = Update(@, [i \in {KeyIndex(cmd.key)} |->
                                  [key |-> cmd.key, base |-> cmd.base]])]
    ELSE [card EXCEPT !.pgt = Update(@, [i \in Run(cmd.index, cmd.count) |->
                                            buf[i - cmd.index + 1]])]

CardExecutesUpdate ==
    /\ reg.pc \in {"mtt", "pgt"} /\ ~ran
    /\ card' = Execute(IF reg.pc = "mtt" THEN MttUpdate ELSE PgtUpdate)
    /\ ran' = TRUE
    /\ UNCHANGED <<debug, mtt, reg, buf, regions>>

\* update_mtt or update_pgt has returned to reg_mr.
AfterCommand(r) ==
    [r EXCEPT !.pc = "next", !.done = IF r.pc = "pgt" THEN @ + Len(buf) ELSE @]

CommandReturns ==
    /\ reg.pc \in {"mtt", "pgt"} /\ ran
    /\ reg' = AfterCommand(reg)
    /\ ran' = FALSE
    /\ UNCHANGED <<debug, mtt, buf, card, regions>>

\* The next of chunks(): the last one may be short.
Chunk(r) ==
    LET left == Len(r.pages) - r.done
    IN  SubSeq(r.pages, r.done + 1,
               r.done + (IF left < MAX_NUM_PGT_ENTRY_PER_ALLOC
                         THEN left ELSE MAX_NUM_PGT_ENTRY_PER_ALLOC))

\* buf.copy_from, before update_pgt
FillBuffer ==
    /\ reg.pc = "next" /\ reg.done < Len(reg.pages)
    /\ buf' = Chunk(reg)
    /\ reg' = [reg EXCEPT !.pc = "pgt"]
    /\ UNCHANGED <<debug, mtt, ran, card, regions>>

Registered ==
    /\ reg.pc = "next" /\ reg.done = Len(reg.pages)
    /\ regions' = regions \cup {[key |-> reg.key, index |-> reg.index, pages |-> reg.pages]}
    /\ reg' = NoRegistration
    /\ UNCHANGED <<debug, mtt, ran, buf, card>>

\* Mutant of Deregister: the entry stays in mrkey_map.
DeregisterKeepsEntry(r) ==
    /\ reg.pc = "idle"
    /\ r.key \in DOMAIN mtt.map
    /\ mtt' = [mtt EXCEPT !.keys = Append(@, KeyIndex(r.key)),
                          !.used = @ \ Run(mtt.map[r.key].index, mtt.map[r.key].count)]
    /\ regions' = regions \ {r}
    /\ UNCHANGED <<debug, reg, ran, buf, card>>

\* dereg_mr, of a key that reg_mr returned.  A key that mrkey_map does not have is an
\* error and changes nothing.  The card is not told.
Deregister(r) ==
    /\ reg.pc = "idle"
    /\ r.key \in DOMAIN mtt.map
    /\ LET entry == mtt.map[r.key]
       IN  mtt' = [keys |-> Append(mtt.keys, KeyIndex(r.key)),
                   used |-> mtt.used \ Run(entry.index, entry.count),
                   map  |-> [k \in DOMAIN mtt.map \ {r.key} |-> mtt.map[k]]]
    /\ regions' = regions \ {r}
    /\ UNCHANGED <<debug, reg, ran, buf, card>>

\* HwDeviceCtx::initialize for another instance of the driver: its tables are new, and
\* the regions of the instance before are not its own.  The card is reset; whether that
\* clears its tables is not known.
NewInstance ==
    /\ reg.pc = "idle"
    /\ mtt' = NewMtt
    /\ buf' = <<>>
    /\ card' \in {card, NewCard}
    /\ regions' = {}
    /\ UNCHANGED <<debug, reg, ran>>

RegNext ==
    \/ \E pages \in Areas : Register(pages)
    \/ CardExecutesUpdate \/ CommandReturns \/ FillBuffer \/ Registered
    \/ \E r \in regions : Deregister(r)
    \/ NewInstance

\* Memory registration by one thread, as reg_mr sees it: update_mtt and update_pgt return
\* once the card has executed this very command, on the buffer as it was filled for it.
\* With the command queue that several threads share in between, it is still so.
RegSpec == RegInit /\ [][RegNext]_regVars

------------------------------------------------------------------------------
\* The types of the driver's tables and of a registration.
RegTypeOK ==
    /\ debug \in BOOLEAN /\ ran \in BOOLEAN
    /\ mtt.keys \in Seq(0 .. MAX_MR_CNT - 1)
    /\ mtt.used \subseteq 0 .. PGT_LEN - 1
    /\ reg.pc \in {"idle", "mtt", "next", "pgt"}
    /\ reg.pages \in Seq(Page) /\ reg.done \in 0 .. Len(reg.pages)

\* The card translates the key of every region to the pages of that region and no
\* others, whatever was registered, refused or deregistered before: reg_mr gives no two
\* regions the same key index or page table entry, and the shared mtt_buffer holds the
\* region's own chunk whenever the card reads it.
RegionsTranslate ==
    \A r \in regions :
        /\ KeyIndex(r.key) \in DOMAIN card.mtt
        /\ card.mtt[KeyIndex(r.key)] = [key |-> r.key, base |-> r.index]
        /\ \A i \in 1 .. Len(r.pages) :
               /\ r.index + i - 1 \in DOMAIN card.pgt
               /\ card.pgt[r.index + i - 1] = r.pages[i]

\* The assertion of Mtt::register, "mr_key exist": a key index that can be drawn has no
\* key in mrkey_map, so no insert replaces an entry.
KeysAreFresh ==
    \A k \in DOMAIN mtt.map, i \in DOMAIN mtt.keys : mtt.keys[i] # KeyIndex(k)
==============================================================================
