-------------------------------- MODULE Lab3 --------------------------------
(***************************************************************************)
(* lab3: an ext2 image that was sound is damaged, in a few places; lab3a    *)
(* lists it and lab3b checks the list.  What lab3b says is compared with    *)
(* what an examination of the image itself would say.                      *)
(***************************************************************************)
EXTENDS Lab3a, FiniteSets, FiniteSetsExt

CONSTANTS fir_data_blk, fir_nonres_inode,
          SoundDisk,    \* the image before any damage
          Files,        \* the inodes whose pointers and links are damaged
          PtrBlocks,    \* the blocks whose pointers are damaged
          Blocks,       \* where a damaged pointer may lead
          MaxDamage     \* bound: in how many places

ASSUME BoundsAssumption ==
  /\ fir_data_blk \in Nat \ {0} /\ fir_nonres_inode \in Nat \ {0}
  /\ Blocks \subseteq Nat

Data == fir_data_blk..(blocks_count - 1)

Nodes == [type : {"none", "f", "d", "s"}, perm : Nat, links : Nat, block : [0..14 -> Nat]]

(* Any block may be read as pointers, and then leads nowhere or to a data   *)
(* block.  What follows the table of inodes is not taken for one.           *)
IsDisk(d) ==
  /\ d \in [ubit : SUBSET Nat, ibit : SUBSET (1..inodes_count),
            inode : [1..(inodes_count + 1) -> Nodes],
            ptr : [1..(blocks_count - 1) -> [Digits -> Data \cup {0}]],
            dir : [1..(blocks_count - 1) -> Seq([inode : Nat, name : STRING])]]
  /\ \A n \in 1..inodes_count :
       LET Leads(k) == d.inode[n].block[k] \in Data \cup {0}
       IN  /\ d.inode[n].type = "f" => \A k \in 12..14 : Leads(k)
           /\ d.inode[n].type = "d" => \A k \in 0..14 : Leads(k)
  /\ d.inode[inodes_count + 1].type = "none"

ASSUME DiskAssumption ==
  IsDisk(SoundDisk) /\ \A n \in Files : n \in 1..inodes_count /\ SoundDisk.inode[n].type = "f"

VARIABLES phase,        \* "disk", "listed", "checked"
          disk, damage, rows, out

vars == <<phase, disk, damage, rows, out>>

checker == INSTANCE Lab3b WITH total_blks <- blocks_count,
                               total_inodes <- inodes_count, blk_ptrs <- ptr_per_block

Init == /\ phase = "disk" /\ disk = SoundDisk /\ damage = 0
        /\ rows = <<>> /\ out = <<>>

(* Damage.  A pointer may lead anywhere, but the tree of pointer blocks     *)
(* stays on the device, and directories keep their blocks.                 *)
Damaged(d) == /\ phase = "disk" /\ damage < MaxDamage
              /\ disk' = d /\ d # disk
              /\ damage' = damage + 1
              /\ UNCHANGED <<phase, rows, out>>

Flip(set, x) == IF x \in set THEN set \ {x} ELSE set \cup {x}

BlockBit == \E b \in Blocks \cap Data : Damaged([disk EXCEPT !.ubit = Flip(@, b)])
InodeBit == \E n \in fir_nonres_inode..inodes_count :
              Damaged([disk EXCEPT !.ibit = Flip(@, n)])
DirectPointer == \E n \in Files, b \in Blocks :
                   Damaged([disk EXCEPT !.inode[n].block[0] = b])
IndirectPointer == \E n \in Files, k \in 12..14, b \in Blocks \cap (Data \cup {0}) :
                     Damaged([disk EXCEPT !.inode[n].block[k] = b])
PointerInBlock ==
  \E p \in PtrBlocks, j \in 0..(ptr_per_block - 1), b \in Blocks \cap (Data \cup {0}) :
    Damaged([disk EXCEPT !.ptr[p][j] = b])
LinkCount == \E n \in Files, l \in 0..2 : Damaged([disk EXCEPT !.inode[n].links = l])
Entry == \E b \in Data : \E k \in DOMAIN disk.dir[b], n \in 1..(inodes_count + 1) :
           Damaged([disk EXCEPT !.dir[b][k].inode = n])

List == /\ phase = "disk"
        /\ rows' = main(disk) /\ phase' = "listed"
        /\ UNCHANGED <<disk, damage, out>>

Check == /\ phase = "listed"
         /\ out' = checker!report(rows) /\ phase' = "checked"
         /\ UNCHANGED <<disk, damage, rows>>

Next == \/ BlockBit \/ InodeBit \/ DirectPointer \/ IndirectPointer
        \/ PointerInBlock \/ LinkCount \/ Entry
        \/ List \/ Check

Spec == Init /\ [][Next]_vars

-----------------------------------------------------------------------------
(* An examination of the image.  A place is where a pointer is: inode, slot *)
(* and the way down from there.                                            *)

InUse(n) == disk.inode[n].type # "none" /\ disk.inode[n].links > 0
Owners == {n \in 1..inodes_count : InUse(n)}

Paths(len) == UNION {[1..k -> Digits] : k \in 0..len}
Places ==
  UNION {{<<n, k, <<>>>> : k \in 0..14}
           \cup {<<n, k, p>> : k \in 12..14, p \in Paths(3)} : n \in Owners}
IsPlace(x) == Len(x[3]) <= (IF x[2] < 12 THEN 0 ELSE x[2] - 11)

Below(b, i) == IF b = 0 THEN 0 ELSE disk.ptr[b][i]
Target(x) == LET b == disk.inode[x[1]].block[x[2]]
                 p == x[3]
             IN  CASE Len(p) = 0 -> b
                   [] Len(p) = 1 -> Below(b, p[1])
                   [] Len(p) = 2 -> Below(Below(b, p[1]), p[2])
                   [] Len(p) = 3 -> Below(Below(Below(b, p[1]), p[2]), p[3])

References(b) == {x \in Places : IsPlace(x) /\ Target(x) = b}

(* The data blocks of an inode in order, and the logical offset of one.     *)
IsSlot(x) == x[2] >= 12 /\ Len(x[3]) = x[2] - 11
Before(x, y) ==
  \/ x[2] < y[2]
  \/ x[2] = y[2] /\ \E i \in 1..Len(x[3]) : /\ x[3][i] < y[3][i]
                                            /\ \A j \in 1..(i - 1) : x[3][j] = y[3][j]
Offset(x) == 12 + Cardinality({y \in Places : y[1] = x[1] /\ IsSlot(y) /\ Before(y, x)})

Entries(n) ==
  UNION {{<<b, k>> : k \in {k \in DOMAIN disk.dir[b] : disk.dir[b][k].inode = n}} :
           b \in {disk.inode[d].block[0] : d \in {d \in Owners : disk.inode[d].type = "d"}}}

(* lab3a looks for an inode when the bit of the one before it is set.       *)
Listed == \A n \in Owners : n - 1 \in disk.ibit

Complaints(kind, x) == {k \in DOMAIN out : out[k][1] = kind /\ out[k][2] = x}
Pointing(kind, b) == {k \in DOMAIN out : out[k][1] = kind /\ out[k][3] = b}

(* lab3b says of every data block what is wrong with it, and nothing when   *)
(* nothing is: that it is neither free nor referenced, free and referenced, *)
(* or referenced more than once - then once for every reference, naming the *)
(* right inodes.  Pointers off the data region are reported one by one.     *)
BlockComplaintsExact ==
  phase = "checked" /\ Listed =>
    LET refs == [b \in Data \cup {1, blocks_count} |-> References(b)]
        Duplicates(n, b) ==
          IF Cardinality(refs[b]) < 2 THEN {} ELSE {x \in refs[b] : x[1] = n}
    IN  /\ \A b \in Data :
             /\ Complaints("UNREFERENCED BLOCK", b) # {} <=> refs[b] = {} /\ b \in disk.ubit
             /\ Complaints("ALLOCATED BLOCK", b) # {} <=> refs[b] # {} /\ b \notin disk.ubit
             /\ \A n \in Owners :
                  Cardinality({k \in Pointing("DUPLICATE", b) : out[k][4] = n})
                    = Cardinality(Duplicates(n, b))
        /\ Cardinality(Pointing("RESERVED", 1)) = Cardinality(refs[1])
        /\ Cardinality(Pointing("INVALID", blocks_count)) = Cardinality(refs[blocks_count])

(* lab3b says of every unreserved inode but the last whether its bit and    *)
(* its use disagree, whether the directories hold as many entries for it as *)
(* it has links, and which entries name an inode that is not in use.        *)
InodeComplaintsExact ==
  phase = "checked" /\ Listed =>
    \A n \in fir_nonres_inode..(inodes_count - 1) :
      /\ Complaints("ALLOCATED INODE", n) # {} <=> InUse(n) /\ n \notin disk.ibit
      /\ Complaints("UNALLOCATED INODE", n) # {} <=> ~InUse(n) /\ n \in disk.ibit
      /\ Complaints("LINKS", n) # {} <=>
           InUse(n) /\ Cardinality(Entries(n)) # disk.inode[n].links
      /\ Cardinality({k \in DOMAIN out : out[k][1] = "UNALLOCATED ENTRY" /\ out[k][4] = n})
           = Cardinality(IF InUse(n) THEN {} ELSE Entries(n))

(* lab3a gives every data block below an indirect one its place in the file, *)
(* through all three levels.  (Pointers to pointer blocks it numbers by     *)
(* their position in the block.)                                           *)
IndirectOffsetsLogical ==
  phase = "listed" /\ Listed =>
    {<<r.inum, r.offset, r.ref>> : r \in {r \in Range(rows) : r.row = "INDIRECT" /\ r.level = 1}}
      = {<<x[1], Offset(x), Target(x)>> :
           x \in {x \in Places : disk.inode[x[1]].type = "f" /\ IsSlot(x) /\ Target(x) # 0}}
=============================================================================
