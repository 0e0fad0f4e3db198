------------------------------ MODULE PciSearch ------------------------------
(***************************************************************************)
(* pci_find_dev: the walk through /sys/devices for the inst-th device with *)
(* a vendor and device number.  A tree gives for every directory its       *)
(* entries in the order of readdir (sub-directories and other entries),    *)
(* whether it can be opened, whether its name begins with "pci", the       *)
(* number pair in its files vendor and device ("none" when one of them     *)
(* cannot be opened) and the address in its file resource (NoAddress when  *)
(* that cannot be opened).  An address is the pair of its bits from 32 on  *)
(* and the 32 bits below.                                                  *)
(***************************************************************************)
EXTENDS Integers, Sequences, SequencesExt

NoAddress == <<0, 0>>

\* The local variables: the chain of open directories with the entries not read yet, the
\* level, the instances to skip and the result; root is opened in the first round.  The
\* program ends when a directory cannot be opened (or memory is short).
FindDev(tree, root, inst) ==
  [chain |-> <<[dir |-> root, rest |-> tree[root].entries]>>, level |-> 1, inst |-> inst,
   found |-> {}, ends |-> ~tree[root].opens]

FindDone(f) == f.chain = <<>> \/ f.ends

\* One round of the loop: leave the directories without further entries, or all of them
\* once the device is found; else open the next entry and, below the root bus,
\* look at its numbers.
FindRound(tree, id, f) ==
  LET top   == f.chain[Len(f.chain)]
      entry == Head(top.rest)
      read  == [f EXCEPT !.chain[Len(f.chain)].rest = Tail(top.rest)]
      hit   == f.level + 1 >= 3 /\ tree[entry].id = id
  IN  IF f.ends THEN f
      ELSE IF top.rest = <<>> \/ f.found # {}
      THEN [f EXCEPT !.chain = Front(@), !.level = @ - 1]
      ELSE IF ~tree[entry].dir \/ (f.level <= 1 /\ ~tree[entry].pci) THEN read
      ELSE IF ~tree[entry].opens THEN [read EXCEPT !.ends = TRUE]
      ELSE [chain |-> Append(read.chain, [dir |-> entry, rest |-> tree[entry].entries]),
            level |-> f.level + 1,
            inst  |-> IF hit THEN f.inst - 1 ELSE f.inst,
            found |-> IF hit /\ f.inst <= 0 THEN {entry} ELSE {},
            ends  |-> FALSE]

\* pci_find_bar: the address in the resource file of the device, 0 when the device is not
\* found or the file cannot be opened.
FindBar(tree, f) ==
  IF f.found = {} THEN NoAddress ELSE LET d == CHOOSE d \in f.found : TRUE IN tree[d].bar1

=============================================================================
