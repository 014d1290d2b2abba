-------------------------------- MODULE Cache --------------------------------
(***************************************************************************)
(* The block cache of the file system (fs/cache.c, fs/buf.h), with what    *)
(* reads ahead (fs/read.c), writes everything (do_sync in fs/misc.c),      *)
(* holds the bit maps of devices (fs/super.c, fs/mount.c) and forgets a    *)
(* device (fs/mount.c, fs/open.c).                                         *)
(*                                                                         *)
(* FS works on one call at a time; what interleaves are the calls and, in  *)
(* one call, the blocks it holds at the same time.  Each routine is an     *)
(* operator on the cache and the devices, a record c.  The hash chains are *)
(* left out: a block is found by its number and device.                    *)
(***************************************************************************)
EXTENDS Integers, SequencesExt

CONSTANTS Bufs,         \* buf[]
          NR_DEVS,      \* devices, the first of which is ROOT_DEV
          NR_SUPERS,    \* slots of the super block table
          NR_BLOCKS,    \* blocks of a device
          MARGIN,       \* buffers that a mount must leave: 3 in load_bit_maps()
          MaxHeld,      \* blocks that a call holds at the same time
          MayFail,      \* the sectors whose transfers may fail
          Used,         \* the sectors that programs work on
          BadAddress    \* programs may write from an address they do not have

NR_BUFS     == Cardinality(Bufs)
Devs        == 1 .. NR_DEVS
ROOT_DEV    == 1
NO_DEV      == 0
NO_BLOCK    == 0
SUPER_BLOCK == 1
MAP_BLOCK   == 2        \* one block stands for the bit maps of a device
Blocks      == 1 .. NR_BLOCKS
Supers      == 1 .. NR_SUPERS
Sectors     == Devs \X Blocks
Data        == {0, 1}
JUNK        == 2        \* what a buffer held for another block
NIL         == "NIL"

ASSUME CacheAssumption ==
  /\ IsFiniteSet(Bufs) /\ NIL \notin Bufs
  /\ {NR_DEVS, NR_SUPERS, MARGIN, MaxHeld} \subseteq Nat
  /\ NR_DEVS > 0 /\ NR_SUPERS > 0
  /\ NR_BLOCKS \in Nat /\ NR_BLOCKS >= MAP_BLOCK
  /\ MayFail \subseteq Sectors /\ Used \subseteq Sectors \ {<<ROOT_DEV, SUPER_BLOCK>>}
  /\ BadAddress \in BOOLEAN

(* The margin of load_bit_maps() is for the blocks that a call holds *)
ASSUME RoomAssumption == MaxHeld \in 1 .. MARGIN + 1 /\ NR_BUFS > MaxHeld

(* got: the buffer that get_block() returned *)
Caches ==
  [buf    : [Bufs -> [dev : Devs \cup {NO_DEV}, block : Blocks \cup {NO_BLOCK},
                      dirt : BOOLEAN, count : Int, data : Data \cup {JUNK}]],
   lru    : [1 .. NR_BUFS -> Bufs],                        \* front to rear
   in_use : Nat,                                           \* bufs_in_use
   disk   : [Sectors -> Data \cup {JUNK}],
   super  : [Supers -> [dev : Devs \cup {NO_DEV},          \* s_dev
                        map : Bufs \cup {NIL}]],           \* s_imap and s_zmap
   got    : Bufs \cup {NIL},
   panic  : BOOLEAN]

Sector(c, b) == <<c.buf[b].dev, c.buf[b].block>>

-----------------------------------------------------------------------------
(* fs/cache.c.  bad: the sectors whose transfers fail *)

WrittenOr(c, bs, bad) ==                                   \* mutant of Written
  [c EXCEPT
     !.disk = [s \in Sectors |->
                 IF s \in bad \/ \A b \in bs : Sector(c, b) # s THEN @[s]
                 ELSE c.buf[CHOOSE b \in bs : Sector(c, b) = s].data],
     !.buf  = [b \in Bufs |-> IF b \in bs THEN [@[b] EXCEPT !.dirt = FALSE] ELSE @[b]]]

(* rw_block() and rw_scattered() write the buffers bs; a buffer that       *)
(* cannot be written is given up                                           *)
Written(c, bs, bad) ==
  [c EXCEPT
     !.disk = [s \in Sectors |->
                 IF s \in bad \/ \A b \in bs : Sector(c, b) # s THEN @[s]
                 ELSE c.buf[CHOOSE b \in bs : Sector(c, b) = s].data],
     !.buf  = [b \in Bufs |->
                 IF b \notin bs THEN c.buf[b]
                 ELSE [c.buf[b] EXCEPT !.dirt = FALSE,
                                       !.dev  = IF Sector(c, b) \in bad THEN NO_DEV ELSE @]]]

Dirty(c, dev) == {b \in Bufs : c.buf[b].dirt /\ c.buf[b].dev = dev}

flushall(c, dev, bad) == Written(c, Dirty(c, dev), bad)

FreeBufs(c) == {b \in Bufs : c.buf[b].count = 0}
Oldest(c)   == LET k == CHOOSE k \in 1 .. NR_BUFS :
                          /\ c.lru[k] \in FreeBufs(c)
                          /\ \A j \in 1 .. k - 1 : c.lru[j] \notin FreeBufs(c)
               IN  c.lru[k]

Found(c, dev, block) == {b \in Bufs : Sector(c, b) = <<dev, block>> /\ dev # NO_DEV}

Use(c, b) == [c EXCEPT !.buf[b].count = @ + 1, !.got = b,
                       !.in_use = @ + IF c.buf[b].count = 0 THEN 1 ELSE 0]

EvictQuiet(c, b, bad) == c                                 \* mutant of Evict

(* The oldest buffer that nobody uses is made clean, before it is taken *)
Evict(c, b, bad) == IF c.buf[b].dirt /\ c.buf[b].dev # NO_DEV
                    THEN flushall(c, c.buf[b].dev, bad) ELSE c

(* only_search: NORMAL, NO_READ, or PREFETCH *)
get_block(c, dev, block, only_search, bad) ==
  LET b     == Oldest(c)
      f     == Evict(c, b, bad)
      reads == dev # NO_DEV /\ only_search = "NORMAL"
      fails == reads /\ <<dev, block>> \in bad
  IN  IF Found(c, dev, block) # {} THEN Use(c, CHOOSE x \in Found(c, dev, block) : TRUE)
      ELSE IF c.in_use = NR_BUFS \/ FreeBufs(c) = {} THEN [c EXCEPT !.panic = TRUE]
      ELSE Use([f EXCEPT !.buf[b] =
                  [f.buf[b] EXCEPT
                     !.dev   = IF only_search = "PREFETCH" \/ fails THEN NO_DEV ELSE dev,
                     !.block = block,
                     !.dirt  = @ /\ ~ reads,
                     !.data  = IF reads /\ ~ fails THEN f.disk[<<dev, block>>] ELSE JUNK]],
               b)

Chained(lru, b, block_type) ==
  LET rest == RemoveAt(lru, CHOOSE k \in 1 .. NR_BUFS : lru[k] = b)
  IN  IF "ONE_SHOT" \in block_type THEN <<b>> \o rest ELSE Append(rest, b)

(* block_type: of WRITE_IMMED, ONE_SHOT and ZUPER *)
put_block(c, b, block_type, bad) ==
  LET n == c.buf[b].count - 1
      g == [c EXCEPT !.buf[b].count = n, !.in_use = @ - 1, !.lru = Chained(@, b, block_type)]
      h == IF "WRITE_IMMED" \in block_type /\ c.buf[b].dirt /\ c.buf[b].dev # NO_DEV
           THEN Written(g, {b}, bad) ELSE g
  IN  IF n # 0 THEN [c EXCEPT !.buf[b].count = n]
      ELSE IF "ZUPER" \in block_type THEN [h EXCEPT !.buf[b].dev = NO_DEV] ELSE h

invalidate(c, dev) ==
  [c EXCEPT !.buf = [b \in Bufs |-> IF @[b].dev = dev THEN [@[b] EXCEPT !.dev = NO_DEV]
                                    ELSE @[b]]]

Overwrite(c, b, data) == [c EXCEPT !.buf[b].data = data, !.buf[b].dirt = TRUE]

-----------------------------------------------------------------------------
(* fs/read.c: rahead().  more: the blocks that follow the one wanted       *)

(* rw_scattered() reads the buffers bs, of which it gets those of done,    *)
(* and puts them in the order of their blocks                              *)
ReadAll(c, dev, bs, done) ==
  LET read == [c EXCEPT !.buf = [b \in Bufs |->
                 IF b \in done THEN [c.buf[b] EXCEPT !.dev = dev,
                                                     !.data = c.disk[<<dev, c.buf[b].block>>]]
                 ELSE c.buf[b]]]
      p[k \in 0 .. NR_BLOCKS] ==
        IF k = 0 THEN read
        ELSE IF \A b \in bs : c.buf[b].block # k THEN p[k - 1]
        ELSE put_block(p[k - 1], CHOOSE b \in bs : c.buf[b].block = k, {}, {})
  IN  p[NR_BLOCKS]

(* The buffers are filled up to the limit, and all are read at once; the   *)
(* driver may stop after the first few.  get: how many it reads.           *)
rahead(c, dev, block, more, limit, get, bad) ==
  LET first   == get_block(c, dev, block, "PREFETCH", bad)
      q[k \in 0 .. Len(more)] ==
        IF k = 0 THEN [c |-> first, bs |-> {first.got}]
        ELSE IF q[k - 1].c.in_use >= limit THEN q[k - 1]
        ELSE LET g == get_block(q[k - 1].c, dev, more[k], "PREFETCH", bad)
             IN  IF g.buf[g.got].dev = NO_DEV
                 THEN [c |-> g, bs |-> q[k - 1].bs \cup {g.got}]
                 ELSE [c |-> put_block(g, g.got, {}, bad), bs |-> q[k - 1].bs]
      all     == q[Len(more)]
      done    == {b \in all.bs : /\ <<dev, all.c.buf[b].block>> \notin bad
                                 /\ all.c.buf[b].block - block < get}
  IN  IF first.panic \/ first.buf[first.got].dev # NO_DEV THEN first
      ELSE get_block(ReadAll(all.c, dev, all.bs, done), dev, block, "NORMAL", bad)

-----------------------------------------------------------------------------
(* fs/super.c, fs/misc.c, fs/mount.c *)

load_bit_mapsLate(c, n, dev, bad) ==                       \* mutant of load_bit_maps
  LET g == get_block(c, dev, MAP_BLOCK, "NORMAL", bad)
  IN  IF c.in_use + 1 > NR_BUFS - MARGIN THEN c ELSE [g EXCEPT !.super[n].map = g.got]

(* n: the device's slot; if too few buffers would be left, nothing is done *)
load_bit_maps(c, n, dev, bad) ==
  LET g == get_block(c, dev, MAP_BLOCK, "NORMAL", bad)
  IN  IF c.in_use + 1 >= NR_BUFS - MARGIN THEN c ELSE [g EXCEPT !.super[n].map = g.got]

(* The pointer stays in the slot *)
unload_bit_maps(c, n, bad) ==
  IF c.super[n].map = NIL THEN c
  ELSE put_block(c, c.super[n].map, {"WRITE_IMMED", "ONE_SHOT"}, bad)

(* rw_super(WRITING) of the root device; its time is abstracted *)
rw_super(c, bad) ==
  LET g == get_block(c, ROOT_DEV, SUPER_BLOCK, "NO_READ", bad)
  IN  IF g.panic THEN g
      ELSE put_block(Overwrite(g, g.got, c.disk[<<ROOT_DEV, SUPER_BLOCK>>]), g.got,
                     {"WRITE_IMMED", "ONE_SHOT", "ZUPER"}, bad)

FlushEach(c, bad) ==
  LET f[dev \in 0 .. NR_DEVS] == IF dev = 0 THEN c ELSE flushall(f[dev - 1], dev, bad)
  IN  f[NR_DEVS]

do_sync(c, bad) == FlushEach(rw_super(c, bad), bad)
=============================================================================
