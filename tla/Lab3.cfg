SPECIFICATION Spec
CONSTANTS
  blocks_count = 18
  inodes_count = 6
  ptr_per_block = 2
  fir_data_blk = 5
  fir_nonres_inode = 3
  SoundDisk <- SmallDisk
  Files = {3, 4}
  PtrBlocks = {7, 10, 14}
  Blocks = {0, 1, 8, 13, 17, 18}
  MaxDamage = 2
INVARIANTS
  BlockComplaintsExact
  InodeComplaintsExact
  IndirectOffsetsLogical
CHECK_DEADLOCK FALSE
