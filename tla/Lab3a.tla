-------------------------------- MODULE Lab3a --------------------------------
(***************************************************************************)
(* lab3a-file-system/lab3.c: the records it prints for an ext2 image of one *)
(* group.  A record is a row of the CSV file; times, owners and sizes are   *)
(* left out.  A disk is a record:                                          *)
(*   ubit, ibit   the blocks and inodes marked in the bitmaps              *)
(*   inode[n]     the table: type "f", "d", "s" (a short symbolic link) or  *)
(*                "none", perm, links and the pointers block[0..14]; one    *)
(*                past the last inode is what follows the table            *)
(*   ptr[b]       block b read as pointers                                 *)
(*   dir[b]       block b read as directory entries [inode, name]          *)
(***************************************************************************)
EXTENDS Integers, Sequences, SequencesExt

CONSTANTS blocks_count, inodes_count, ptr_per_block

ASSUME CountsAssumption == blocks_count \in Nat /\ inodes_count \in Nat
ASSUME PointersAssumption == ptr_per_block \in 1..1024   \* blocks of 4096 bytes at most,
                                                        \* so that no offset overflows

Digits == 0..(ptr_per_block - 1)   \* the positions of the pointers in a block

(* A mutated offset, which takes a triple indirect block for a double one.  *)
new_offset_double(level, offset, i) == offset + i * ptr_per_block

(* The logical offset of the first block below the i-th pointer.            *)
new_offset(level, offset, i) ==
  offset + i * (IF level = 2 THEN ptr_per_block ELSE ptr_per_block * ptr_per_block)

(* The code's recursion ends after three levels; here each level calls the   *)
(* one below.  below[i] is what is listed below the i-th pointer.           *)
indir_rows(disk, level, inum, offset, nblock, below) ==
  LET record(i) == [row |-> "INDIRECT", inum |-> inum, level |-> level,
                    offset |-> offset + i, ref |-> disk.ptr[nblock][i]]
      from(i) == IF disk.ptr[nblock][i] = 0 THEN <<>> ELSE <<record(i)>> \o below[i]
  IN  IF nblock = 0 THEN <<>>
      ELSE FlattenSeq([k \in 1..ptr_per_block |-> from(k - 1)])

read_indir_block_1(disk, inum, offset, nblock) ==
  indir_rows(disk, 1, inum, offset, nblock, [i \in Digits |-> <<>>])

read_indir_block_2(disk, inum, offset, nblock) ==
  indir_rows(disk, 2, inum, offset, nblock,
    [i \in Digits |-> read_indir_block_1(disk, inum, new_offset(2, offset, i),
                                         disk.ptr[nblock][i])])

read_indir_block_3(disk, inum, offset, nblock) ==
  indir_rows(disk, 3, inum, offset, nblock,
    [i \in Digits |-> read_indir_block_2(disk, inum, new_offset(3, offset, i),
                                         disk.ptr[nblock][i])])

(* The entries of a directory's block, at levels 0 to 3.                    *)
read_dinode_0(disk, parent, nblock) ==
  IF nblock = 0 THEN <<>>
  ELSE FlattenSeq([k \in 1..Len(disk.dir[nblock]) |->
         LET e == disk.dir[nblock][k]
         IN  IF e.inode = 0 THEN <<>>
             ELSE <<[row |-> "DIRENT", parent |-> parent, child |-> e.inode,
                     name |-> e.name]>>])

dinode_rows(nblock, below) ==
  IF nblock = 0 THEN <<>> ELSE FlattenSeq([k \in 1..ptr_per_block |-> below[k - 1]])

read_dinode_1(disk, parent, nblock) ==
  dinode_rows(nblock, [i \in Digits |-> read_dinode_0(disk, parent, disk.ptr[nblock][i])])

read_dinode_2(disk, parent, nblock) ==
  dinode_rows(nblock, [i \in Digits |-> read_dinode_1(disk, parent, disk.ptr[nblock][i])])

read_dinode_3(disk, parent, nblock) ==
  dinode_rows(nblock, [i \in Digits |-> read_dinode_2(disk, parent, disk.ptr[nblock][i])])

(* A directory's blocks are read for their entries, and its indirect        *)
(* pointers are not listed.                                                *)
contents(disk, inum, node) ==
  CASE node.type = "d" ->
         FlattenSeq([k \in 1..12 |-> read_dinode_0(disk, inum, node.block[k - 1])])
           \o read_dinode_1(disk, inum, node.block[12])
           \o read_dinode_2(disk, inum, node.block[13])
           \o read_dinode_3(disk, inum, node.block[14])
    [] node.type = "f" ->
         LET P == ptr_per_block
         IN  read_indir_block_1(disk, inum, 12, node.block[12])
               \o read_indir_block_2(disk, inum, 12 + P, node.block[13])
               \o read_indir_block_3(disk, inum, 12 + P + P * P, node.block[14])
    [] node.type = "s" -> <<>>

(* read_inode(index) reads inode index + 1: the one behind the inode whose  *)
(* bit made main() call it.                                                *)
read_inode(disk, index) ==
  LET inum == index + 1
      node == disk.inode[inum]
      blocks == IF node.type = "s" THEN <<>> ELSE [k \in 1..15 |-> node.block[k - 1]]
  IN  IF node.type = "none" \/ node.links = 0 THEN <<>>
      ELSE <<[row |-> "INODE", inum |-> inum, type |-> node.type, mode |-> node.perm,
              links |-> node.links, blocks |-> blocks]>>
             \o contents(disk, inum, node)

free_blocks(disk) ==
  FlattenSeq([b \in 1..(blocks_count - 1) |->
    IF b \in disk.ubit THEN <<>> ELSE <<[row |-> "BFREE", block |-> b]>>])

main(disk) ==
  free_blocks(disk) \o
    FlattenSeq([n \in 1..inodes_count |->
      IF n \in disk.ibit THEN read_inode(disk, n) ELSE <<[row |-> "IFREE", inum |-> n]>>])
=============================================================================
