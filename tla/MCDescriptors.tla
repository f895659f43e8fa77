--------------------------- MODULE MCDescriptors ---------------------------
EXTENDS Descriptors

CONSTANTS disk, part1, part2, rootfs, datafs, file1, file2, file3, dir1

MCParent == [d \in Devices |-> IF d = disk THEN NoDevice ELSE disk]
MCBlockDevice == [s \in FileSystems |-> IF s = rootfs THEN part1 ELSE part2]
MCMountsOn == [s \in FileSystems |-> IF s = rootfs THEN {"/"} ELSE {"/data/"}]
=============================================================================
