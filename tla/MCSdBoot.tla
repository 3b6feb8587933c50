------------------------------ MODULE MCSdBoot ------------------------------
(***************************************************************************)
(* SdBoot with sectors of two bytes and numbers below 64, so that a card   *)
(* that is addressed by bytes has 32 sectors within reach.  Card "a" (high *)
(* capacity) has a FAT16 partition whose two files are scattered over both *)
(* sectors of the FAT; "b" (first version) is one FAT32 volume of two      *)
(* sectors a cluster, whose root directory runs in a circle and has no     *)
(* IWAD, and the chain of its image goes on with an entry that names no    *)
(* cluster: its sector is 39, and byte 78 is byte 14, which is in sector   *)
(* 7; on "c" the chain of the IWAD comes to a bad-cluster mark; the root   *)
(* directory of "d" has no sectors.                                        *)
(***************************************************************************)
EXTENDS SdBoot

MCEoc == [t \in {16, 32} |-> IF t = 16 THEN 20 ELSE 60]
MCFatPerSector == [t \in {16, 32} |-> IF t = 16 THEN 4 ELSE 2]

Mbr(part) == [kind |-> "mbr", part |-> part]
Boot(fatSectors, rootSectors, total, spc) ==
    [kind |-> "boot", reserved |-> 1, fats |-> 1, fatSectors |-> fatSectors,
     rootSectors |-> rootSectors, total |-> total, spc |-> spc,
     rootCluster |-> 2]
Fat(next) == [kind |-> "fat", next |-> next \o <<0, 0>>]
Dir(entries) == [kind |-> "dir", entries |-> entries]
Data(a, b) == [kind |-> "data", data |-> <<a, b>>]
Mark(n) == [name |-> n, cluster |-> 0, size |-> 0]
Named(n, c, s) == [name |-> n, cluster |-> c, size |-> s]

OnCard(blocks) == [a \in 0 .. (Len(blocks) - 1) |-> blocks[a + 1]]

Fat16(fat, dir1, dir2) ==
    <<Boot(2, 2, 10, 1), Fat(SubSeq(fat, 1, 4)), Fat(SubSeq(fat, 5, 8)),
      Dir(dir1), Dir(dir2),
      Data(0, 1), Data(1, 0), Data(0, 0), Data(1, 1), Data(0, 1)>>

MCCards == {"a", "b", "c", "d"}
MCDisk == [card \in MCCards |->
    CASE card = "a" ->
           [v2 |-> TRUE, hc |-> TRUE, blocks |-> OnCard(<<Mbr(1)>> \o
              Fat16(<<9, 9, 6, 4, Eoc[16], 3, Eoc[16], 0>>,
                    <<Mark("skip"), Named("IMG", 5, 6)>>,
                    <<Named("WAD", 2, 3), Mark("end")>>))]
      [] card = "b" ->
           [v2 |-> FALSE, hc |-> FALSE, blocks |-> OnCard(
              <<Boot(4, 0, 17, 2),
                Fat(<<9, 9>>), Fat(<<4, 19>>), Fat(<<2, 0>>), Fat(<<0, 0>>),
                Dir(<<Mark("skip"), Mark("skip")>>),
                Dir(<<Named("IMG", 3, 6), Mark("skip")>>),
                Data(1, 1), Data(0, 1),
                Dir(<<Mark("skip"), Mark("skip")>>),
                Dir(<<Mark("skip"), Mark("skip")>>)>>)]
      [] card = "c" ->
           [v2 |-> TRUE, hc |-> FALSE, blocks |-> OnCard(
              Fat16(<<9, 9, Eoc[16] - 1, 4, 5, Eoc[16], 0, 0>>,
                    <<Named("WAD", 2, 3), Mark("skip")>>,
                    <<Named("IMG", 3, 5), Mark("end")>>))]
      [] card = "d" ->
           [v2 |-> TRUE, hc |-> FALSE,
            blocks |-> OnCard(<<Boot(1, 0, 7, 1), Fat(<<0, 0>>)>>)]]
MCPayloads == {4, 9}
=============================================================================
