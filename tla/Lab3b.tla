-------------------------------- MODULE Lab3b --------------------------------
(***************************************************************************)
(* lab3b-file-system/lab3b.py: the complaints it prints for the records of  *)
(* lab3a, in its order.  A complaint is a tuple of its kind and what it     *)
(* names.  The objects of class Inode are records with the same fields.     *)
(***************************************************************************)
EXTENDS Integers, Sequences, SequencesExt, TLC

CONSTANTS total_blks, total_inodes, blk_ptrs,   \* of the superblock
          fir_data_blk, fir_nonres_inode

Tag == <<"INDIRECT BLOCK", "DOUBLE INDIRECT BLOCK", "TRIPLE INDIRECT BLOCK">>

says(st, complaint) == [st EXCEPT !.out = Append(@, complaint)]
says_if(st, holds, complaint) == IF holds THEN says(st, complaint) ELSE st

-----------------------------------------------------------------------------
(* main() and Inode.__init__(): the rows, one by one.                       *)

Inode(inum, is_free, is_indirect, isdir, links, blocks, blktag, offset) ==
  [inum |-> inum, is_free |-> is_free, is_indirect |-> is_indirect, isdir |-> isdir,
   links |-> links, blocks |-> blocks, blktag |-> blktag, offset |-> offset]

proc_row(st, row) ==
  LET inode(n) == [st EXCEPT !.inodes = Append(@, n)]
  IN  CASE row.row = "BFREE" -> [st EXCEPT !.bfree = @ \cup {row.block}]
        [] row.row = "DIRENT" ->
             [st EXCEPT !.dirs = Append(@, [par |-> row.parent, child |-> row.child,
                                            name |-> row.name])]
        [] row.row = "IFREE" ->
             says_if([inode(Inode(row.inum, TRUE, FALSE, FALSE, 0, <<>>, "", 0))
                        EXCEPT !.ifree = @ \cup {row.inum}],
                     row.inum \in st.used, <<"ALLOCATED INODE", row.inum>>)
        [] row.row = "INDIRECT" ->
             [inode(Inode(row.inum, FALSE, TRUE, FALSE, 0, <<row.ref>>, Tag[row.level], row.offset))
                EXCEPT !.used = @ \cup {row.inum}]
        [] row.row = "INODE" ->
             LET listed == inode(Inode(row.inum, FALSE, FALSE, row.type = "d", row.links,
                                       row.blocks, "BLOCK", 0))
                 seen == IF row.mode = 0 THEN says(listed, <<"UNALLOCATED INODE", row.inum>>)
                         ELSE [listed EXCEPT !.used = @ \cup {row.inum}]
             IN  says_if(seen, row.inum \in st.ifree, <<"ALLOCATED INODE", row.inum>>)

Parsed(rows) ==
  FoldLeft(proc_row, [inodes |-> <<>>, bfree |-> {}, ifree |-> {}, used |-> {},
                      dirs |-> <<>>, out |-> <<>>], rows)

-----------------------------------------------------------------------------
(* check_blocks(): block_map holds for each data block nothing, the object  *)
(* that named it first, or that its first occurrence has been reported.     *)

None == [inum |-> 0]
Reported == [inum |-> -1]

(* Every pointer in turn, with the tag and offset it is reported under.     *)
pointers(inode) ==
  [i \in DOMAIN inode.blocks |->
     LET level == i - 12
         base == <<12, 12 + blk_ptrs, 12 + blk_ptrs + blk_ptrs * blk_ptrs>>
     IN  [block |-> inode.blocks[i], owner |-> inode,
          tag |-> IF level >= 1 THEN Tag[level] ELSE inode.blktag,
          offset |-> IF level >= 1 THEN base[level] ELSE inode.offset]]

(* A mutated check that reports a repeated block without its first owner.   *)
check_again(first, p) ==
  IF first = None THEN <<>>
  ELSE <<<<"DUPLICATE", p.tag, p.block, p.owner.inum, p.offset>>>>

(* What is said of a pointer to a block that first is the map's entry of.   *)
check_duplicate(first, p) ==
  LET again == <<"DUPLICATE", p.tag, p.block, p.owner.inum, p.offset>>
  IN  CASE first = None -> <<>>
        [] first = Reported -> <<again>>
        [] OTHER -> <<again, <<"DUPLICATE", first.blktag, p.block, first.inum, first.offset>>>>

check_pointer(st, p) ==
  LET b == p.block
      where == <<p.tag, b, p.owner.inum, p.offset>>
      is_data == b >= fir_data_blk /\ b < total_blks
      one(holds, complaint) == IF holds THEN <<complaint>> ELSE <<>>
      said == one(b < 0 \/ b >= total_blks, <<"INVALID">> \o where)
                \o one(b > 0 /\ b < fir_data_blk, <<"RESERVED">> \o where)
                \o one(b \in st.bfree, <<"ALLOCATED BLOCK", b>>)
                \o (IF is_data THEN check_duplicate(st.block_map[b], p) ELSE <<>>)
  IN  [st EXCEPT !.out = @ \o said,
                 !.block_map = IF is_data
                   THEN [@ EXCEPT ![b] = IF @ = None THEN p.owner ELSE Reported]
                   ELSE @]

check_blocks(st) ==
  LET all == FlattenSeq([k \in DOMAIN st.inodes |-> pointers(st.inodes[k])])
      upto[k \in 0..Len(all)] == IF k = 0 THEN st ELSE check_pointer(upto[k - 1], all[k])
      checked == upto[Len(all)]
      data == [k \in 1..(total_blks - fir_data_blk) |-> fir_data_blk + k - 1]
      unreferenced(s, b) ==
        says_if(s, s.block_map[b] = None /\ b \notin s.bfree, <<"UNREFERENCED BLOCK", b>>)
  IN  FoldLeft(unreferenced, checked, data)

-----------------------------------------------------------------------------
(* check_inodes(): the range ends before the last inode.                    *)

(* A mutated check of the free list only.                                   *)
check_freelist(st, i) ==
  says_if(st, i \in st.ifree /\ i \in st.used, <<"ALLOCATED INODE", i>>)

check_inode(st, i) ==
  says_if(says_if(st, i \in st.ifree /\ i \in st.used, <<"ALLOCATED INODE", i>>),
          i \notin st.ifree /\ i \notin st.used, <<"UNALLOCATED INODE", i>>)

check_inodes(st) ==
  FoldLeft(check_inode, st, [k \in 1..(total_inodes - fir_nonres_inode) |->
                               fir_nonres_inode + k - 1])

-----------------------------------------------------------------------------
(* check_dirs(): the entries of all directories, then the counts and the    *)
(* parents.  An entry that names the last inode is taken for invalid.       *)

check_entry(st, e) ==
  LET s1 == says_if(st, e.child \notin st.used, <<"UNALLOCATED ENTRY", e.par, e.name, e.child>>)
      s2 == says_if(s1, e.name = "." /\ e.child # e.par, <<"LINK", e.par, ".", e.child, e.par>>)
      s3 == IF e.name \in {".", ".."} THEN s2 ELSE [s2 EXCEPT !.parent[e.child] = e.par]
  IN  IF e.child < 0 \/ e.child >= total_inodes
        THEN says(st, <<"INVALID ENTRY", e.par, e.name, e.child>>)
        ELSE [s3 EXCEPT !.refs[e.child] = @ + 1]

check_links(st, n) ==
  LET entries == SelectSeq(st.dirs, LAMBDA e : e.par = n.inum /\ e.name = "..")
      should == IF st.parent[n.inum] = 0 THEN n.inum ELSE st.parent[n.inum]
      counted == says_if(st, st.refs[n.inum] # n.links,
                         <<"LINKS", n.inum, st.refs[n.inum], n.links>>)
      parent(s, e) == says_if(s, e.child # should, <<"LINK", n.inum, "..", e.child, should>>)
  IN  IF n.is_free \/ n.is_indirect THEN st
      ELSE IF ~n.isdir THEN counted
      ELSE FoldLeft(parent, counted, entries)

check_dirs(st) ==
  LET of(n) == IF n.isdir THEN SelectSeq(st.dirs, LAMBDA e : e.par = n.inum) ELSE <<>>
      entries == FlattenSeq([k \in DOMAIN st.inodes |-> of(st.inodes[k])])
  IN  FoldLeft(check_links, FoldLeft(check_entry, st, entries), st.inodes)

(* The tables of the three checks.                                          *)
Tables == [block_map |-> [b \in fir_data_blk..(total_blks - 1) |-> None],
           refs |-> [i \in 0..(total_inodes + 1) |-> 0],
           parent |-> [i \in 0..(total_inodes + 1) |-> 0]]

report(rows) == check_dirs(check_inodes(check_blocks(Parsed(rows) @@ Tables))).out
=============================================================================
