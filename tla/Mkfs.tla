-------------------------------- MODULE Mkfs --------------------------------
(***************************************************************************)
(* xv6/mkfs.c: the program that builds the file system image the kernel    *)
(* mounts.  The unit is one directory entry, of which a block holds        *)
(* MkBSIZE; a file is that many units of data.  An indirect block holds    *)
(* MkBSIZE block numbers, and data blocks are numbered from 1 (sector      *)
(* nmeta).  Byte order, sector addresses of inodes and names are left out: *)
(* an entry is the inode number it gives.                                  *)
(*                                                                         *)
(* A definition X_Suffix is a mutant of X, a bug the code could have had;  *)
(* it is used by no other definition.                                      *)
(***************************************************************************)
EXTENDS Integers, Sequences, FiniteSets, FiniteSetsExt

CONSTANTS
  MkBSIZE, MkNDIRECT,
  MkNBlocks,       \* data blocks in the image (FSSIZE - nmeta)
  MkMaxFiles,      \* bound on the files named on the command line
  MkMaxSize        \* bound on the size of a file

VARIABLES
  argsizes,        \* sizes of the files on the command line
  img,             \* the image: data blocks, and the inodes' addrs and sizes
  imap,            \* blocks marked in the bitmap block
  freeinode, freeblock,
  mkst,            \* where main is
  arg,             \* files of the command line opened so far
  pos,             \* units of the current file already read
  app              \* iappend: inum, din, the data left, and where to go after

mkvars == <<argsizes, img, imap, freeinode, freeblock, mkst, arg, pos, app>>
MkBlocks == 1..MkNBlocks
MkInums == 1..MkMaxFiles+1
MkMAXFILE == MkNDIRECT + MkBSIZE
rootino == 1
NoApp == [inum |-> 0, din |-> [size |-> 0, addrs |-> <<>>], p |-> <<>>, ret |-> ""]
ZeroDin == [size |-> 0, addrs |-> [k \in 0..MkNDIRECT |-> 0]]

(* The image is all zeroes, but for the super block and the root inode.    *)
MkInit ==
  /\ argsizes \in UNION {[1..k -> 0..MkMaxSize] : k \in 0..MkMaxFiles}
  /\ img = [blk |-> [b \in MkBlocks |-> [k \in 0..MkBSIZE-1 |-> 0]],
            ino |-> [i \in MkInums |-> ZeroDin]]
  /\ imap = {} /\ freeinode = 2 /\ freeblock = 1
  /\ mkst = "dot" /\ arg = 0 /\ pos = 0 /\ app = NoApp

(* iappend begins: rinode                                                  *)
iappend(inum, p, ret) ==
  /\ app' = [inum |-> inum, din |-> img.ino[inum], p |-> p, ret |-> ret]
  /\ mkst' = "append"

dots ==
  /\ mkst \in {"dot", "dotdot"}
  /\ iappend(rootino, <<rootino>>, IF mkst = "dot" THEN "dotdot" ELSE "file")
  /\ UNCHANGED <<argsizes, img, imap, freeinode, freeblock, arg, pos>>

(* The next file: ialloc, and its entry in the root directory              *)
nextfile ==
  /\ mkst = "file" /\ arg < Len(argsizes)
  /\ arg' = arg + 1 /\ pos' = 0
  /\ freeinode' = freeinode + 1
  /\ iappend(rootino, <<freeinode>>, "data")
  /\ UNCHANGED <<argsizes, img, imap, freeblock>>

(* read(fd, buf, sizeof(buf)) and iappend; at the end of the file, close   *)
Unit(inum, k) == 10 * inum + k
readdata ==
  /\ mkst = "data"
  /\ LET inum == freeinode - 1
         cc == Min({MkBSIZE, argsizes[arg] - pos}) IN
       \/ /\ cc > 0 /\ pos' = pos + cc
          /\ iappend(inum, [k \in 1..cc |-> Unit(inum, pos + k)], "data")
       \/ cc = 0 /\ mkst' = "file" /\ UNCHANGED <<pos, app>>
  /\ UNCHANGED <<argsizes, img, imap, freeinode, freeblock, arg>>

-----------------------------------------------------------------------------
(* One turn of iappend's loop.  tblk is the block addrs[] names, the data  *)
(* block or the indirect one, and xblk the data block; both are taken from *)
(* freeblock when they are missing.                                        *)
fbn == app.din.size \div MkBSIZE
indirect == fbn >= MkNDIRECT
ptr == IF indirect THEN MkNDIRECT ELSE fbn
HasTop == app.din.addrs[ptr] # 0
tblk == IF HasTop THEN app.din.addrs[ptr] ELSE freeblock
free1 == IF HasTop THEN freeblock ELSE freeblock + 1
HasData == IF indirect THEN img.blk[tblk][fbn - MkNDIRECT] # 0 ELSE TRUE
xblk == IF ~indirect THEN tblk ELSE IF HasData THEN img.blk[tblk][fbn - MkNDIRECT] ELSE free1
free2 == IF HasData THEN free1 ELSE free1 + 1
n1 == Min({Len(app.p), (fbn + 1) * MkBSIZE - app.din.size})
Within == app.din.size - fbn * MkBSIZE            \* where in the block

(* assert(fbn < MAXFILE), and rsect of a block past the end of the image   *)
Aborts == fbn >= MkMAXFILE \/ tblk \notin MkBlocks \/ xblk \notin MkBlocks

appendturn ==
  /\ mkst = "append" /\ app.p # <<>>
  /\ IF Aborts
     THEN mkst' = "exit" /\ UNCHANGED <<img, freeblock, app>>
     ELSE LET off == Within
              linked == IF indirect THEN [img.blk EXCEPT ![tblk][fbn - MkNDIRECT] = xblk] ELSE img.blk IN
          /\ img' = [img EXCEPT !.blk = [linked EXCEPT ![xblk] =
                       [k \in 0..MkBSIZE-1 |-> IF k \in off..off+n1-1 THEN app.p[k - off + 1] ELSE @[k]]]]
          /\ freeblock' = free2
          /\ app' = [app EXCEPT !.din.addrs[ptr] = tblk, !.din.size = @ + n1,
                                !.p = SubSeq(@, n1 + 1, Len(@))]
          /\ UNCHANGED mkst
  /\ UNCHANGED <<argsizes, imap, freeinode, arg, pos>>

appendend ==   \* winode
  /\ mkst = "append" /\ app.p = <<>>
  /\ img' = [img EXCEPT !.ino[app.inum] = app.din]
  /\ mkst' = app.ret /\ app' = NoApp
  /\ UNCHANGED <<argsizes, imap, freeinode, freeblock, arg, pos>>

(* The end of main: the root's size is rounded up to a whole block, and    *)
(* balloc marks the blocks allocated.                                      *)
Rounded(n) == ((n \div MkBSIZE) + 1) * MkBSIZE
Marked_OffByOne(used) == 1..used-2
Marked(used) == 1..used-1
finish ==
  /\ mkst = "file" /\ arg = Len(argsizes)
  /\ img' = [img EXCEPT !.ino[rootino].size = Rounded(@)]
  /\ imap' = Marked(freeblock) /\ mkst' = "done"
  /\ UNCHANGED <<argsizes, freeinode, freeblock, arg, pos, app>>

MkNext == dots \/ nextfile \/ readdata \/ appendturn \/ appendend \/ finish

-----------------------------------------------------------------------------
(* The image as the kernel sees it (fs.c)                                  *)
Contents(i) == IF i \in 2..Len(argsizes)+1 THEN [k \in 1..argsizes[i-1] |-> Unit(i, k)] ELSE <<>>
Addrs == [i \in MkInums |-> img.ino[i].addrs]
Sizes == [i \in MkInums |-> img.ino[i].size]
Kernel == INSTANCE FileData WITH
  Inums <- MkInums \ {rootino}, OFiles <- {}, DataBlocks <- MkBlocks, BSIZE <- MkBSIZE,
  NDIRECT <- MkNDIRECT, MAXOPBLOCKS <- 10, BPB <- 1, Words <- {1}, MaxN <- MkBSIZE, MaxWrites <- 0,
  bitmap <- imap, blk <- img.blk, addrs <- Addrs, isize <- Sizes,
  fino <- <<>>, off <- <<>>, wr <- <<>>, logged <- <<>>, dpanic <- "", writes <- 0,
  content <- [i \in MkInums |-> Contents(i)]
AllBlocks == [i \in MkInums |-> Kernel!BlocksOf(i)]

(* The kernel reads from the image the files mkfs was given, through its   *)
(* own bmap and readi, and the bitmap has exactly the blocks the inodes    *)
(* lead to, each of them once (mkfs.c:237-297, fs.c:372-503).              *)
KernelReadsImage ==
  mkst = "done" =>
    /\ Kernel!ReadsWhatWasWritten
    /\ imap = UNION {{AllBlocks[i][k] : k \in DOMAIN AllBlocks[i]} : i \in MkInums}
    /\ Cardinality(imap) = MapThenSumSet(LAMBDA i : Len(AllBlocks[i]), MkInums)

(* The root directory the kernel searches, all of it up to the size mkfs   *)
(* rounds up (mkfs.c:158-163), lists ".", ".." and each file once, in      *)
(* order, and is free entries from there on.  When the entries fill their  *)
(* blocks exactly, the size counts one block more than there is; the       *)
(* kernel's bmap allocates it on the first search that gets there.         *)
Entry(k) == IF k <= 2 THEN rootino ELSE IF k <= Len(argsizes) + 2 THEN k - 1 ELSE 0
RootSize == img.ino[rootino].size
RootListsFiles ==
  mkst = "done" =>
    LET full == (Len(argsizes) + 2) % MkBSIZE = 0
        n == IF full THEN RootSize - MkBSIZE ELSE RootSize IN
      /\ Len(argsizes) + 2 <= n /\ n < Len(argsizes) + 2 + MkBSIZE
      /\ Kernel!readi(rootino, 0, n) = [k \in 1..n |-> Entry(k)]

(* The image is a file system the kernel can mount: files, bitmap and root *)
(* directory are what mkfs was given.                                      *)
ImageIsMountable == KernelReadsImage /\ RootListsFiles
=============================================================================
