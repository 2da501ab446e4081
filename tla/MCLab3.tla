------------------------------- MODULE MCLab3 -------------------------------
(* A small image: inodes 1 (reserved), 2 (the root), 3 (a file with a       *)
(* direct block and all three indirect trees), 4 (a small file), 5 and 6    *)
(* free; data blocks from 5.                                               *)
EXTENDS Lab3

Pointers(f) == [k \in 0..14 |-> IF k \in DOMAIN f THEN f[k] ELSE 0]
Node(type, links, f) ==
  [type |-> type, perm |-> 6, links |-> links, block |-> Pointers(f)]
Unused == [type |-> "none", perm |-> 0, links |-> 0, block |-> Pointers(<<>>)]

SmallDisk ==
  [ubit |-> 5..16,
   ibit |-> 1..4,
   inode |-> <<Unused,
               Node("d", 2, 0 :> 5),
               Node("f", 1, 0 :> 6 @@ 12 :> 7 @@ 13 :> 9 @@ 14 :> 12),
               Node("f", 1, 0 :> 16),
               Unused, Unused, Unused>>,
   ptr |-> [b \in 1..17 |->
              CASE b = 7  -> (0 :> 8  @@ 1 :> 0)
                [] b = 9  -> (0 :> 0  @@ 1 :> 10)
                [] b = 10 -> (0 :> 0  @@ 1 :> 11)
                [] b = 12 -> (0 :> 0  @@ 1 :> 13)
                [] b = 13 -> (0 :> 14 @@ 1 :> 0)
                [] b = 14 -> (0 :> 0  @@ 1 :> 15)
                [] OTHER  -> (0 :> 0  @@ 1 :> 0)],
   dir |-> [b \in 1..17 |->
              IF b = 5 THEN <<[inode |-> 2, name |-> "."], [inode |-> 2, name |-> ".."],
                              [inode |-> 3, name |-> "f"], [inode |-> 4, name |-> "g"]>>
              ELSE <<>>]]
=============================================================================
