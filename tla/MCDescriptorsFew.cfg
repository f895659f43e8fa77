CONSTANTS
  disk = disk
  part1 = part1
  part2 = part2
  rootfs = rootfs
  datafs = datafs
  file1 = file1
  file2 = file2
  file3 = file3
  dir1 = dir1
  Devices = {disk, part1, part2}
  Parent <- MCParent
  FileSystems = {rootfs, datafs}
  BlockDevice <- MCBlockDevice
  Files = {file1, file2, file3}
  Directories = {dir1}
  MountPoints = {"/", "/data/"}
  MountsOn <- MCMountsOn
  Slots = 4
  MaxOpens = 2
  RootLast = TRUE
  NoDevice = NoDevice
  NoSystem = NoSystem
  NoPath = NoPath
  NoIo = NoIo
SPECIFICATION Spec
INVARIANTS OpensAgree FilesAccounted
