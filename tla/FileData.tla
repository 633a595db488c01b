------------------------------ MODULE FileData ------------------------------
(***************************************************************************)
(* The contents of files: balloc, bfree, bmap, itrunc, readi and writei of *)
(* xv6/fs.c under fileread and filewrite of xv6/file.c.  Open files share  *)
(* inodes and write in chunks, each a transaction under the inode's lock;  *)
(* writei goes one block per step, so writers of different files compete   *)
(* for free blocks.  A block is BSIZE words: a byte of a file, or a block  *)
(* number of an indirect block (so NINDIRECT = BSIZE); 0 is "no block".    *)
(*                                                                         *)
(* A definition X_Suffix is a mutant of X, a bug the code could have had;  *)
(* it is used by no other definition.                                      *)
(***************************************************************************)
EXTENDS Integers, Sequences, FiniteSets, FiniteSetsExt, SequencesExt

CONSTANTS
  Inums,          \* inodes
  OFiles,         \* open-file slots, file.c's ftable
  DataBlocks,     \* numbers of the data blocks
  BSIZE, NDIRECT, MAXOPBLOCKS,
  BPB,            \* blocks one bitmap block describes
  Words,          \* what programs write
  MaxN,           \* largest n of a read or write
  MaxWrites       \* bound on the calls of filewrite

VARIABLES
  bitmap,         \* blocks marked in use
  blk,            \* contents of the data blocks
  addrs, isize,   \* of each inode
  fino, off,      \* of each open file: its inode (0: closed) and offset
  wr,             \* the write in progress on each open file
  logged,         \* blocks the chunk in progress has given to log_write
  dpanic,
  writes,         \* calls of filewrite so far
  content         \* history: the bytes each file should have

dvars == <<bitmap, blk, addrs, isize, fino, off, wr, logged, dpanic, writes, content>>
MAXFILE == NDIRECT + BSIZE
chunkmax == ((MAXOPBLOCKS - 1 - 1 - 2) \div 2) * BSIZE
ZeroBlock == [k \in 0..BSIZE-1 |-> 0]
NoWrite == [st |-> "none", left |-> 0, n1 |-> 0, tot |-> 0, v |-> 0]

DInit ==
  /\ bitmap = {} /\ blk = [b \in DataBlocks |-> ZeroBlock]
  /\ addrs = [i \in Inums |-> [k \in 0..NDIRECT |-> 0]] /\ isize = [i \in Inums |-> 0]
  /\ fino = [o \in OFiles |-> 0] /\ off = [o \in OFiles |-> 0]
  /\ wr = [o \in OFiles |-> NoWrite] /\ logged = [o \in OFiles |-> {}]
  /\ dpanic = "" /\ writes = 0 /\ content = [i \in Inums |-> <<>>]

NotWriting(o) == wr[o].st = "none" /\ dpanic = ""
(* ip->lock is held by the writer that is inside a chunk.                  *)
Locked(i) == \E o \in OFiles : fino[o] = i /\ wr[o].st = "chunk"

-----------------------------------------------------------------------------
(* balloc's choice, and the contents it leaves                             *)
Free == DataBlocks \ bitmap
Zeroed(b) == ZeroBlock

(* bmap without allocation: the address of block bn, or 0                  *)
bmap(i, bn) ==
  IF bn < NDIRECT THEN addrs[i][bn]
  ELSE IF addrs[i][NDIRECT] = 0 THEN 0 ELSE blk[addrs[i][NDIRECT]][bn - NDIRECT]

(* readi: n words from offset f, cut at the end of the file                *)
readi(i, f, n) ==
  [k \in 1..(IF f + n > isize[i] THEN isize[i] - f ELSE n) |->
     blk[bmap(i, (f + k - 1) \div BSIZE)][(f + k - 1) % BSIZE]]

-----------------------------------------------------------------------------
(* sys_open and the last fileclose of an open file                         *)
fileopen(o, i) ==
  /\ fino[o] = 0 /\ dpanic = ""
  /\ fino' = [fino EXCEPT ![o] = i] /\ off' = [off EXCEPT ![o] = 0]
  /\ UNCHANGED <<bitmap, blk, addrs, isize, wr, logged, dpanic, writes, content>>
lastclose(o) ==
  /\ fino[o] # 0 /\ NotWriting(o)
  /\ fino' = [fino EXCEPT ![o] = 0] /\ off' = [off EXCEPT ![o] = 0]
  /\ UNCHANGED <<bitmap, blk, addrs, isize, wr, logged, dpanic, writes, content>>

fileread(o, n) ==
  /\ fino[o] # 0 /\ NotWriting(o) /\ ~Locked(fino[o])
  /\ off[o] <= isize[fino[o]]
  /\ off' = [off EXCEPT ![o] = @ + Len(readi(fino[o], off[o], n))]
  /\ UNCHANGED <<bitmap, blk, addrs, isize, fino, wr, logged, dpanic, writes, content>>

(* filewrite of n words v, one at a time on an open file                   *)
filewrite(o, n, v) ==
  /\ fino[o] # 0 /\ NotWriting(o)
  /\ writes < MaxWrites /\ writes' = writes + 1
  /\ wr' = [wr EXCEPT ![o] = [NoWrite EXCEPT !.st = "loop", !.left = n, !.v = v]]
  /\ UNCHANGED <<bitmap, blk, addrs, isize, fino, off, logged, dpanic, content>>

(* The while loop: begin_op, ilock, and writei's tests.                    *)
Chunk_All(o) == wr[o].left
Chunk(o) == Min({wr[o].left, chunkmax})
Refused(i, f, n) == f > isize[i] \/ f + n > MAXFILE * BSIZE
beginchunk(o) ==
  /\ wr[o].st = "loop" /\ dpanic = ""
  /\ \/ wr[o].left = 0 /\ wr' = [wr EXCEPT ![o] = NoWrite]
     \/ /\ wr[o].left > 0 /\ ~Locked(fino[o])
        /\ wr' = [wr EXCEPT ![o] =
             IF Refused(fino[o], off[o], Chunk(o)) THEN NoWrite
             ELSE [@ EXCEPT !.st = "chunk", !.n1 = Chunk(o), !.tot = 0]]
  /\ UNCHANGED <<bitmap, blk, addrs, isize, fino, off, logged, dpanic, writes, content>>

(* One turn of writei's loop: bmap with its ballocs, the copy, log_write   *)
BBLOCK(b) == <<"bitmap", b \div BPB>>
writeblock(o) ==
  LET i == fino[o]
      f == off[o] + wr[o].tot
      bn == f \div BSIZE
      m == Min({wr[o].n1 - wr[o].tot, BSIZE - (f % BSIZE)})
      indirect == bn >= NDIRECT
      newind == indirect /\ addrs[i][NDIRECT] = 0
      ind == IF newind THEN Min(Free) ELSE addrs[i][NDIRECT]
      a == IF newind THEN Zeroed(ind) ELSE blk[ind]
      addr == IF indirect THEN a[bn - NDIRECT] ELSE addrs[i][bn]
      b == IF addr = 0 THEN Min(Free \ {ind}) ELSE addr
      data == IF addr = 0 THEN Zeroed(b) ELSE blk[b]
      got == (IF newind THEN {ind} ELSE {}) \cup (IF addr = 0 THEN {b} ELSE {}) IN
  /\ wr[o].st = "chunk" /\ wr[o].tot < wr[o].n1 /\ dpanic = ""
  /\ IF Cardinality(Free) < (IF newind THEN 1 ELSE 0) + (IF addr = 0 THEN 1 ELSE 0)
     THEN dpanic' = "balloc: out of blocks" /\ UNCHANGED <<bitmap, blk, addrs, wr, logged>>
     ELSE /\ bitmap' = bitmap \cup got
          /\ blk' = [x \in DataBlocks |->
               IF x = b THEN [k \in 0..BSIZE-1 |->
                    IF k \in (f % BSIZE)..((f % BSIZE) + m - 1) THEN wr[o].v ELSE data[k]]
               ELSE IF indirect /\ x = ind THEN [a EXCEPT ![bn - NDIRECT] = b] ELSE blk[x]]
          /\ addrs' = [addrs EXCEPT ![i] = IF indirect THEN [@ EXCEPT ![NDIRECT] = ind]
                                                       ELSE [@ EXCEPT ![bn] = b]]
          /\ wr' = [wr EXCEPT ![o].tot = @ + m]
          /\ logged' = [logged EXCEPT ![o] = @ \cup {<<"data", b>>} \cup {BBLOCK(x) : x \in got}
               \cup {<<"data", x>> : x \in got}
               \cup (IF indirect /\ addr = 0 THEN {<<"data", ind>>} ELSE {})]
          /\ dpanic' = dpanic
  /\ UNCHANGED <<isize, fino, off, writes, content>>

(* writei's end (size and iupdate), the new offset, iunlock and end_op     *)
Grown_Stay(i, f) == isize[i]
Grown(i, f) == Max({isize[i], f})
Iupdated(o) == IF off[o] + wr[o].n1 > isize[fino[o]] THEN {<<"inode", fino[o]>>} ELSE {}
endchunk(o) ==
  /\ wr[o].st = "chunk" /\ wr[o].tot = wr[o].n1 /\ dpanic = ""
  /\ LET i == fino[o]
         f == off[o] + wr[o].n1 IN
       /\ isize' = [isize EXCEPT ![i] = Grown(i, f)]
       /\ off' = [off EXCEPT ![o] = f]
       /\ content' = [content EXCEPT ![i] =
            [k \in 1..Max({Len(@), f}) |-> IF k > off[o] /\ k <= f THEN wr[o].v ELSE @[k]]]
  /\ wr' = [wr EXCEPT ![o] = [@ EXCEPT !.st = "loop", !.left = @ - wr[o].n1, !.n1 = 0, !.tot = 0]]
  /\ logged' = [logged EXCEPT ![o] = {}]
  /\ UNCHANGED <<bitmap, blk, addrs, fino, writes, dpanic>>

(* itrunc, called by iput for an inode that nobody has open: its blocks,   *)
(* in the order they are freed                                             *)
BlocksOf(i) ==
  LET ind == addrs[i][NDIRECT]
      direct == [k \in 1..NDIRECT |-> addrs[i][k - 1]]
      second == IF ind = 0 THEN <<>> ELSE [k \in 1..BSIZE |-> blk[ind][k - 1]] \o <<ind>>
  IN SelectSeq(direct \o second, LAMBDA b : b # 0)
Freed_KeepIndirect(i) == {BlocksOf(i)[k] : k \in 1..Len(BlocksOf(i))} \ {addrs[i][NDIRECT]}
Freed(i) == {BlocksOf(i)[k] : k \in 1..Len(BlocksOf(i))}
itrunc(i) ==
  /\ \A o \in OFiles : fino[o] # i
  /\ isize[i] > 0 /\ dpanic = ""
  /\ dpanic' = IF Freed(i) \subseteq bitmap /\ IsInjective(BlocksOf(i)) THEN dpanic ELSE "freeing free block"
  /\ bitmap' = bitmap \ Freed(i)
  /\ addrs' = [addrs EXCEPT ![i] = [k \in 0..NDIRECT |-> 0]]
  /\ isize' = [isize EXCEPT ![i] = 0] /\ content' = [content EXCEPT ![i] = <<>>]
  /\ UNCHANGED <<blk, fino, off, wr, logged, writes>>

DNext ==
  \/ \E i \in Inums : itrunc(i)
  \/ \E o \in OFiles :
       \/ \E i \in Inums : fileopen(o, i)
       \/ lastclose(o) \/ beginchunk(o) \/ writeblock(o) \/ endchunk(o)
       \/ \E n \in 1..MaxN : fileread(o, n) \/ \E v \in Words : filewrite(o, n, v)

-----------------------------------------------------------------------------
(* A file is the sequence of bytes written to it: through direct and       *)
(* indirect blocks, unaligned chunks, several open files on one inode,     *)
(* and blocks that other files used before, readi returns what the last    *)
(* write at each offset put there.                                         *)
ReadsWhatWasWritten ==
  \A i \in Inums : ~Locked(i) /\ dpanic = "" =>
    /\ isize[i] = Len(content[i])
    /\ \A f \in 0..isize[i] : readi(i, f, MaxN) = SubSeq(content[i], f + 1, Min({f + MaxN, isize[i]}))

(* A data block is marked in the bitmap exactly when one pointer of one    *)
(* file leads to it: nothing is leaked, and nothing is used twice.         *)
OneOwnerPerBlock ==
  /\ bitmap = UNION {ToSet(BlocksOf(i)) : i \in Inums}
  /\ Cardinality(bitmap) = SumFunction([i \in Inums |-> Len(BlocksOf(i))])

(* A chunk of filewrite, whatever its alignment and however many blocks it *)
(* allocates, logs at most the MAXOPBLOCKS blocks begin_op reserved for    *)
(* it, even when every allocation dirties a bitmap block of its own.       *)
ChunkFitsReservation ==
  \A o \in OFiles : wr[o].st = "chunk" => Cardinality(logged[o] \cup Iupdated(o)) <= MAXOPBLOCKS

(* An offset never passes the end of the file, so no read or write is      *)
(* refused for it, whatever other open files of the same inode do.         *)
OffsetInFile == \A o \in OFiles : fino[o] # 0 => off[o] <= isize[fino[o]]

(* With a block for each pointer all files can have, balloc never runs out *)
(* and bfree never meets a free block.                                     *)
DNoPanic == dpanic = ""

(* A file is its bytes: reads return them at every offset an open file can *)
(* have.                                                                   *)
FileIsBytes == ReadsWhatWasWritten /\ OffsetInFile

(* The bitmap and the inodes agree on who owns a block, so that neither    *)
(* balloc nor bfree panics.                                                *)
BlocksAreOwned == OneOwnerPerBlock /\ DNoPanic
=============================================================================
