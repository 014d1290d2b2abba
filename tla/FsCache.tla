------------------------------- MODULE FsCache -------------------------------
(***************************************************************************)
(* The file system's calls as users of the block cache: they get, change   *)
(* and put blocks, of which they hold a few at the same time, read ahead,  *)
(* sync, mount and unmount devices and close special files, while the      *)
(* transfers of some sectors fail.                                         *)
(***************************************************************************)
EXTENDS Cache

VARIABLES c,            \* the cache and the devices
          held,         \* the buffers that the current call holds
          open          \* the devices that are open as special files

vars == <<c, held, open>>

(* The root device is mounted first, and its bit maps are read *)
Init ==
  LET order == SetToSeq(Bufs)
      map   == order[1]
      disk  == [s \in Sectors |-> 0]
  IN  /\ c = [buf    |-> [b \in Bufs |->
                              IF b # map THEN [dev |-> NO_DEV, block |-> NO_BLOCK,
                                               dirt |-> FALSE, count |-> 0, data |-> JUNK]
                              ELSE [dev |-> ROOT_DEV, block |-> MAP_BLOCK, dirt |-> FALSE,
                                    count |-> 1, data |-> disk[<<ROOT_DEV, MAP_BLOCK>>]]],
                lru    |-> order,
                in_use |-> 1,
                disk   |-> disk,
                super  |-> [n \in Supers |-> IF n = 1 THEN [dev |-> ROOT_DEV, map |-> map]
                                             ELSE [dev |-> NO_DEV, map |-> NIL]],
                got    |-> NIL,
                panic  |-> FALSE]
        /\ held = <<>> /\ open = {}

Failing   == SUBSET MayFail
Types     == {{}, {"WRITE_IMMED"}}                         \* data; inodes and directories
(* What the call got is remembered in held, and nobody looks at what a     *)
(* buffer without a device was for                                         *)
Settle(g) ==
  c' = [g EXCEPT !.got = NIL,
                 !.buf = [b \in Bufs |-> IF @[b].dev # NO_DEV THEN @[b]
                                         ELSE [@[b] EXCEPT !.block = NO_BLOCK, !.data = JUNK]]]
Acquire(g) == /\ ~ c.panic /\ Len(held) < MaxHeld
              /\ Settle(g)
              /\ held' = IF g.panic THEN held ELSE Append(held, g.got)
              /\ UNCHANGED open

mounted == {c.super[n].dev : n \in Supers} \ {NO_DEV}
Maps    == {c.super[n].map : n \in {m \in Supers : c.super[m].dev # NO_DEV}}

(* The sectors that a program can get at *)
Reachable == {s \in Used : s[1] \in mounted \cup open}

(* A block that is looked at, or changed in part *)
Get == \E s \in Reachable, bad \in Failing : Acquire(get_block(c, s[1], s[2], "NORMAL", bad))

(* A block that is new, or changed as a whole; the program's address may   *)
(* be wrong, and then nothing is copied into the buffer (rw_chunk)         *)
GetWhole ==
  \E s \in Reachable, bad \in Failing :
    LET g == get_block(c, s[1], s[2], "NO_READ", bad)
    IN  \/ \E data \in Data : Acquire(IF g.panic THEN g ELSE Overwrite(g, g.got, data))
        \/ BadAddress /\ Acquire(IF g.panic THEN g ELSE Overwrite(g, g.got, g.buf[g.got].data))

(* A hole in a file reads as zeros *)
GetHole ==
  \E bad \in Failing :
    LET g == get_block(c, NO_DEV, NO_BLOCK, "NORMAL", bad)
    IN  Acquire(IF g.panic THEN g ELSE Overwrite(g, g.got, JUNK))

(* A block that is read, and those that follow; the limit is lower for     *)
(* ordinary files                                                          *)
ReadAhead ==
  /\ held = <<>>
  /\ \E s \in Reachable, bad \in Failing, limit \in {NR_BUFS, NR_BUFS - 2}, get \in {1, NR_BLOCKS} :
       LET more == [k \in 1 .. NR_BLOCKS - s[2] |-> s[2] + k]
       IN  Acquire(rahead(c, s[1], s[2], more, limit, get, bad))

(* A call changes a block that it holds, or a bit map *)
Modify ==
  /\ ~ c.panic
  /\ \E b \in ToSet(held) \cup {x \in Maps : Sector(c, x) \in Used}, data \in Data :
       Settle(Overwrite(c, b, data))
  /\ UNCHANGED <<held, open>>

Put ==
  /\ \E k \in DOMAIN held, type \in Types, bad \in Failing :
       /\ Settle(put_block(c, held[k], type, bad))
       /\ held' = RemoveAt(held, k)
  /\ UNCHANGED open

(* The other calls hold no block *)
Between == ~ c.panic /\ held = <<>> /\ UNCHANGED held

Sync == /\ Between
        /\ \E bad \in Failing : Settle(do_sync(c, bad))
        /\ UNCHANGED open

OpenSpecial == /\ Between
               /\ \E s \in Used : s[1] # ROOT_DEV /\ open' = open \cup {s[1]}
               /\ UNCHANGED c

(* A special file is closed: its blocks are forgotten, unless it is mounted *)
CloseSpecial ==
  /\ Between
  /\ \E dev \in open, bad \in Failing :
       LET g == do_sync(c, bad)
       IN  /\ Settle(IF dev \in mounted THEN g ELSE invalidate(g, dev))
           /\ open' = open \ {dev}

(* mount(): the super block is read and not kept, the bit maps are loaded; *)
(* if there is no room for them everything is undone                       *)
Mount ==
  /\ Between
  /\ \E dev \in Devs \ mounted, bad \in Failing :
       LET free == {n \in Supers : c.super[n].dev = NO_DEV}
           n    == Max(free)
           g    == get_block(c, dev, SUPER_BLOCK, "NORMAL", bad)
           f    == put_block(g, g.got, {"WRITE_IMMED", "ONE_SHOT", "ZUPER"}, bad)
           h    == load_bit_maps(f, n, dev, bad)
       IN  /\ free # {}
           /\ Settle(IF g.panic THEN g
                     ELSE IF h = f THEN invalidate(do_sync(unload_bit_maps(f, n, bad), bad), dev)
                     ELSE [h EXCEPT !.super[n].dev = dev])
  /\ UNCHANGED open

Unmount ==
  /\ Between
  /\ \E n \in Supers, bad \in Failing :
       LET dev == c.super[n].dev
       IN  /\ dev \notin {ROOT_DEV, NO_DEV}
           /\ Settle([invalidate(do_sync(unload_bit_maps(c, n, bad), bad), dev)
                        EXCEPT !.super[n].dev = NO_DEV])
  /\ UNCHANGED open

Next == \/ Get \/ GetWhole \/ GetHole \/ ReadAhead \/ Modify \/ Put
        \/ Sync \/ OpenSpecial \/ CloseSpecial \/ Mount \/ Unmount

Spec == Init /\ [][Next]_vars

-----------------------------------------------------------------------------
TypeOK == c \in Caches /\ held \in Seq(Bufs) /\ open \subseteq Devs

(* A buffer is used by the call that holds it and by the bit maps of a     *)
(* mounted device, and bufs_in_use counts the buffers that are used: one   *)
(* too many and FS panics in the end, one too few and a buffer is taken    *)
(* from its user                                                           *)
Users(b) == Cardinality({k \in DOMAIN held : held[k] = b})
            + Cardinality({n \in Supers : c.super[n].dev # NO_DEV /\ c.super[n].map = b})
BufsCounted ==
  /\ \A b \in Bufs : c.buf[b].count = Users(b)
  /\ c.in_use = Cardinality({b \in Bufs : Users(b) > 0})

(* No block is in two buffers, of which one would be stale *)
OneCopy == \A b1, b2 \in Bufs : Sector(c, b1) = Sector(c, b2) /\ b1 # b2 => c.buf[b1].dev = NO_DEV

(* Reading ahead and mounting leave enough buffers for the blocks that a   *)
(* call holds at the same time (rahead, load_bit_maps)                     *)
NoPanic == ~ c.panic

(* The cache knows nothing of a device that is neither mounted nor open,   *)
(* so that its medium may be changed (invalidate in mount, umount, close)  *)
Forgotten == \A b \in Bufs : c.buf[b].dev \in mounted \cup open \cup {NO_DEV}

(* A buffer that is not marked as modified agrees with its device, so that *)
(* it may be taken, and sync() stores everything (get_block, flushall)     *)
CleanIsStored ==
  \A b \in Bufs : c.buf[b].dev # NO_DEV /\ ~ c.buf[b].dirt => c.buf[b].data = c.disk[Sector(c, b)]

(* Buffers are counted exactly, and there is one left for every call that  *)
(* needs it (get_block, put_block, rahead, load_bit_maps)                  *)
BufsKept == TypeOK /\ BufsCounted /\ NoPanic

(* A block is in one buffer, which is stored before it is reused and gone  *)
(* when its device is (get_block, flushall, invalidate)                    *)
Consistent == OneCopy /\ CleanIsStored /\ Forgotten

Contents == [s \in Used |->
               IF Found(c, s[1], s[2]) = {} THEN c.disk[s]
               ELSE c.buf[CHOOSE b \in Found(c, s[1], s[2]) : TRUE].data]

Store == INSTANCE BlockStore WITH
           Sectors <- Used, contents <- Contents, stored <- [s \in Used |-> c.disk[s]],
           in_use <- {Sector(c, b) : b \in ToSet(held) \cup Maps}

(* The cache is not to be seen *)
IsStore == Store!Spec

(* cache.c:36: a block that is got with NO_READ "will be overwritten in    *)
(* its entirety".  Not so when the program's address is wrong: rw_chunk()  *)
(* marks the block as modified, and what the buffer held is written to it  *)
NoJunk == \A s \in Used : Contents[s] # JUNK
=============================================================================
